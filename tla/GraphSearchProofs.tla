-------------------------- MODULE GraphSearchProofs --------------------------
(***************************************************************************)
(* Proofs about GraphSearch: what FindPath and HasCycle answer is right    *)
(* for every graph, every pair of nodes and every depth.                   *)
(***************************************************************************)
EXTENDS GraphSearch, FiniteSetTheorems, SequenceTheorems, TLAPS

(***************************************************************************)
(* Numbers, sequences and sets.                                            *)
(***************************************************************************)
(* Induction along 1 .. n: a set without the first of its gaps would be    *)
(* mapped into itself, but not onto.                                       *)
LEMMA UpTo ==
    ASSUME NEW n \in Nat, NEW S, 1 \in S, \A i \in 1 .. n - 1 : i \in S => i + 1 \in S
    PROVE  1 .. n \subseteq S
  <1> SUFFICES ASSUME NEW t \in 1 .. n, t \notin S PROVE FALSE
    OBVIOUS
  <1> DEFINE T == {i \in 1 .. t : i \notin S}
             f == [i \in T |-> i - 1]
  <1>1. \A i \in T : i - 1 \in T
    OBVIOUS
  <1>2. f \in Injection(T, T)
    BY <1>1 DEF Injection, IsInjective
  <1>3. IsFiniteSet(T)
    BY FS_Interval, FS_Subset
  <1>4. f \in Surjection(T, T)
    BY <1>2, <1>3, FS_Injection
  <1>5. PICK i \in T : f[i] = t
    <2>1. t \in T
      OBVIOUS
    <2> HIDE DEF f, T
    <2> QED
      BY <1>4, <2>1 DEF Surjection
  <1> QED
    BY <1>5

(* An order lists the whole set.                                           *)
LEMMA OrdersListAll ==
    ASSUME NEW s, IsFiniteSet(s), NEW o \in Orders(s)
    PROVE  /\ Cardinality(s) \in Nat /\ o \in [1 .. Cardinality(s) -> s]
           /\ \A x \in s : \E i \in 1 .. Cardinality(s) : o[i] = x
  <1> DEFINE k == Cardinality(s)
  <1>1. k \in Nat
    BY FS_CardinalityType
  <1>2. o \in Injection(1 .. k, s)
    BY DEF Orders, Injection, IsInjective
  <1>3. Cardinality(1 .. k) = k
    BY <1>1, FS_Interval
  <1>4. o \in Surjection(1 .. k, s)
    BY <1>2, <1>3, FS_Injection
  <1> QED
    BY <1>1, <1>2, <1>4 DEF Surjection, Injection

LEMMA SeqMore == \A S, T : S \subseteq T => Seq(S) \subseteq Seq(T)
  <1> SUFFICES ASSUME NEW S, NEW T, S \subseteq T, NEW q \in Seq(S) PROVE q \in Seq(T)
    OBVIOUS
  <1>1. q = SubSeq(q, 1, Len(q)) /\ Len(q) \in Int
    BY SubSeqFull
  <1>2. SubSeq(q, 1, Len(q)) \in Seq(T)
    <2>1. \A i \in 1 .. Len(q) : q[i] \in T
      OBVIOUS
    <2> QED
      BY <1>1, <2>1, SubSeqProperties
  <1> QED
    BY <1>1, <1>2

(***************************************************************************)
(* Types: what a search handles are nodes of its graph.                    *)
(***************************************************************************)
Stages == {"idle", "unknown", "path", "found", "none", "cycle", "cycleAnswered"}

Handles(S) == /\ visited \subseteq S /\ roots \subseteq S /\ recStack \subseteq S
              /\ queue \in Seq(Seq(S) \ {<<>>}) /\ answer \in Seq(S)
              /\ stack \in Seq([node : S, rest : SUBSET S])

TypeInv ==
    /\ IF stage = "idle" THEN adj = NoNodes ELSE adj \in Graphs
    /\ stage \in Stages /\ passed \in BOOLEAN
    /\ from \in Names /\ to \in Names /\ depth \in Int
    /\ stage \in {"path", "found", "none"} => {from, to} \subseteq DOMAIN adj
    /\ Handles(IF stage = "unknown" THEN Names ELSE DOMAIN adj)
    /\ stage = "idle" => /\ queue = <<>> /\ visited = {} /\ roots = {} /\ stack = <<>>
                         /\ recStack = {} /\ answer = <<>> /\ passed = FALSE

LEMMA GraphFacts ==
    ASSUME TypeInv
    PROVE  /\ DOMAIN adj \subseteq Names /\ IsFiniteSet(DOMAIN adj)
           /\ \A n \in DOMAIN adj : adj[n] \subseteq DOMAIN adj
  <1>1. CASE stage = "idle"
    BY <1>1, FS_EmptySet DEF TypeInv, NoNodes
  <1>2. CASE stage # "idle"
    <2>1. adj \in Graphs
      BY <1>2 DEF TypeInv
    <2>2. DOMAIN adj \subseteq Names /\ adj \in [DOMAIN adj -> SUBSET DOMAIN adj]
      BY <2>1, GraphsAreClosed
    <2> QED
      BY <2>2, NamesAreFinite, FS_Subset
  <1> QED
    BY <1>1, <1>2

LEMMA HandlesMore ==
    ASSUME NEW S, NEW T, S \subseteq T, Handles(S) PROVE Handles(T)
  <1>1. queue \in Seq(Seq(T) \ {<<>>})
    <2>1. Seq(S) \ {<<>>} \subseteq Seq(T) \ {<<>>}
      BY SeqMore
    <2> QED
      BY <2>1, SeqMore DEF Handles
  <1>2. stack \in Seq([node : T, rest : SUBSET T])
    <2>1. [node : S, rest : SUBSET S] \subseteq [node : T, rest : SUBSET T]
      OBVIOUS
    <2> QED
      BY <2>1, SeqMore DEF Handles
  <1> QED
    BY <1>1, <1>2, SeqMore DEF Handles

LEMMA TypeFollows == TypeInv => TypeOK
  <1> SUFFICES ASSUME TypeInv PROVE TypeOK
    OBVIOUS
  <1>1. Handles(Names)
    BY GraphFacts, HandlesMore DEF TypeInv
  <1> QED
    BY <1>1 DEF TypeInv, TypeOK, Handles, Stages

LEMMA TypeInit == Init => TypeInv
  <1>1. NoName \in Names
    BY NamesAreFinite DEF NoName
  <1> SUFFICES ASSUME Init PROVE TypeInv
    OBVIOUS
  <1>2. \A S : <<>> \in Seq(S)
    OBVIOUS
  <1>3. Handles(DOMAIN adj)
    BY <1>2 DEF Init, Handles
  <1>4. stage = "idle" /\ adj = NoNodes /\ passed = FALSE
    BY DEF Init
  <1> QED
    <2>1. Handles(IF stage = "unknown" THEN Names ELSE DOMAIN adj)
      BY <1>3, <1>4
    <2>2. 0 \in Int /\ FALSE \in BOOLEAN
      OBVIOUS
    <2> QED
      BY <1>1, <1>4, <2>1, <2>2 DEF Init, TypeInv, Stages

LEMMA QueueParts ==
    ASSUME NEW S, NEW q \in Seq(S), q # <<>>
    PROVE  /\ Len(q) \in Nat /\ Len(q) >= 1 /\ Head(q) = q[1] /\ q[1] \in S
           /\ Tail(q) \in Seq(S) /\ Len(Tail(q)) = Len(q) - 1
           /\ \A i \in 1 .. Len(q) - 1 : Tail(q)[i] = q[i + 1]
  BY HeadTailProperties

LEMMA LastIn == ASSUME NEW S, NEW p \in Seq(S) \ {<<>>} PROVE Last(p) \in S
  BY DEF Last

(* The path an expansion looks at, and what it makes of the queue.         *)
LEMMA ExpandEffect ==
    ASSUME TypeInv, Expand
    PROVE  LET m == Last(queue[1]) IN
           /\ Len(queue) >= 1 /\ queue[1] \in Seq(DOMAIN adj) \ {<<>>} /\ m \in DOMAIN adj
           /\ m # to /\ Len(queue[1]) <= depth
           /\ visited' = visited \cup adj[m]
           /\ queue' \in Seq(Seq(DOMAIN adj) \ {<<>>})
           /\ \A i \in 1 .. Len(queue') :
                 \/ i + 1 \in 1 .. Len(queue) /\ queue'[i] = queue[i + 1]
                 \/ /\ i >= Len(queue)
                    /\ \E n \in adj[m] \ visited : queue'[i] = Append(queue[1], n)
           /\ \A j \in 2 .. Len(queue) : \E i \in 1 .. Len(queue') : queue'[i] = queue[j]
           /\ \A n \in adj[m] \ visited :
                 \E i \in 1 .. Len(queue') : queue'[i] = Append(queue[1], n)
  <1> DEFINE D == DOMAIN adj
             P == Seq(D) \ {<<>>}
             p == queue[1]
             m == Last(p)
             new == adj[m] \ visited
  <1>1. /\ queue \in Seq(P) /\ queue # <<>> /\ Head(queue) = p /\ p \in P
        /\ Len(queue) \in Nat /\ Len(queue) >= 1
        /\ Tail(queue) \in Seq(P) /\ Len(Tail(queue)) = Len(queue) - 1
        /\ \A i \in 1 .. Len(queue) - 1 : Tail(queue)[i] = queue[i + 1]
    <2>1. queue \in Seq(P) /\ queue # <<>>
      BY DEF Expand, TypeInv, Handles
    <2> HIDE DEF P
    <2> QED
      BY <2>1, QueueParts
  <1>2. m \in D /\ new \subseteq D /\ IsFiniteSet(new)
    <2>1. m \in D
      BY <1>1, LastIn
    <2> QED
      BY <2>1, GraphFacts, FS_Subset
  <1>3. PICK o \in Orders(new) : queue' = Tail(queue) \o Extended(p, o)
    BY <1>1 DEF Expand, Enqueued
  <1> DEFINE k == Cardinality(new)
             e == Extended(p, o)
  <1>4. /\ k \in Nat /\ o \in [1 .. k -> new]
        /\ \A n \in new : \E i \in 1 .. k : o[i] = n
    <2> HIDE DEF new
    <2> QED
      BY <1>2, OrdersListAll
  <1>5. e \in Seq(P) /\ Len(e) = k /\ \A i \in 1 .. k : e[i] = Append(p, o[i])
    <2>1. \A n \in D : Append(p, n) \in P
      BY <1>1
    <2>2. e = [i \in 1 .. k |-> Append(p, o[i])]
      BY <1>4 DEF Extended
    <2>3. \A i \in 1 .. k : Append(p, o[i]) \in P
      BY <1>2, <1>4, <2>1
    <2> HIDE DEF e, P, p, k
    <2>4. e \in Seq(P) /\ Len(e) = k
      BY <1>4, <2>2, <2>3
    <2> QED
      BY <2>2, <2>4
  <1>6. /\ queue' \in Seq(P) /\ Len(queue') = Len(queue) - 1 + k
        /\ \A i \in 1 .. Len(queue') : queue'[i] = IF i <= Len(queue) - 1 THEN queue[i + 1]
                                                   ELSE e[i - (Len(queue) - 1)]
    <2> DEFINE t == Tail(queue)
    <2> HIDE DEF e, P, k, t
    <2>1. queue' = t \o e /\ t \in Seq(P) /\ e \in Seq(P)
      BY <1>1, <1>3, <1>5 DEF e, t
    <2>2. /\ queue' \in Seq(P) /\ Len(queue') = Len(t) + Len(e)
          /\ \A i \in 1 .. Len(t) + Len(e) :
                queue'[i] = IF i <= Len(t) THEN t[i] ELSE e[i - Len(t)]
      BY <2>1, ConcatProperties
    <2>3. Len(t) = Len(queue) - 1 /\ \A i \in 1 .. Len(queue) - 1 : t[i] = queue[i + 1]
      BY <1>1 DEF t
    <2> QED
      BY <1>1, <1>4, <1>5, <2>2, <2>3
  <1>7. \A i \in 1 .. Len(queue') : \/ i + 1 \in 1 .. Len(queue) /\ queue'[i] = queue[i + 1]
                                   \/ /\ i >= Len(queue)
                                      /\ \E n \in new : queue'[i] = Append(p, n)
    <2> TAKE i \in 1 .. Len(queue')
    <2> HIDE DEF e, P, p, new, k
    <2>1. CASE i <= Len(queue) - 1
      BY <1>1, <1>6, <2>1
    <2>2. CASE i > Len(queue) - 1
      <3>1. i - (Len(queue) - 1) \in 1 .. k /\ queue'[i] = e[i - (Len(queue) - 1)]
        BY <1>1, <1>4, <1>6, <2>2
      <3> QED
        BY <1>1, <1>4, <1>5, <2>2, <3>1
    <2> QED
      BY <1>1, <2>1, <2>2
  <1>8. \A j \in 2 .. Len(queue) : \E i \in 1 .. Len(queue') : queue'[i] = queue[j]
    <2> TAKE j \in 2 .. Len(queue)
    <2> HIDE DEF e, P, k
    <2>1. j - 1 \in 1 .. Len(queue') /\ queue'[j - 1] = queue[j]
      BY <1>1, <1>4, <1>6
    <2> QED
      BY <2>1
  <1>9. \A n \in new : \E i \in 1 .. Len(queue') : queue'[i] = Append(p, n)
    <2> TAKE n \in new
    <2> HIDE DEF e, P, p, new, k
    <2>1. PICK i \in 1 .. k : o[i] = n
      BY <1>4
    <2>2. PICK j \in Int : j = i + (Len(queue) - 1)
      <3>1. i + (Len(queue) - 1) \in Int
        BY <1>1, <1>4
      <3> QED
        BY <3>1
    <2>3. j \in 1 .. Len(queue') /\ j > Len(queue) - 1 /\ j - (Len(queue) - 1) = i
      BY <1>1, <1>4, <1>6, <2>2
    <2>4. queue'[j] = e[i]
      BY <1>1, <1>6, <2>3
    <2> QED
      BY <1>5, <2>1, <2>3, <2>4
  <1>10. m # to /\ Len(p) <= depth /\ visited' = visited \cup adj[m]
    <2>1. Len(p) \in Int /\ depth \in Int
      BY <1>1 DEF TypeInv
    <2> QED
      BY <1>1, <2>1 DEF Expand, TooDeep
  <1> QED
    BY <1>1, <1>2, <1>6, <1>7, <1>8, <1>9, <1>10

(* A call of hasCycleFrom, and its neighbors.                              *)
Calls(S) == [node : S, rest : SUBSET S]

LEMMA StackParts ==
    ASSUME NEW S, NEW st \in Seq(Calls(S)), st # <<>>
    PROVE  /\ Len(st) \in Nat /\ Len(st) >= 1 /\ st[Len(st)] \in Calls(S)
           /\ SubSeq(st, 1, Len(st) - 1) \in Seq(Calls(S))
           /\ Len(SubSeq(st, 1, Len(st) - 1)) = Len(st) - 1
           /\ \A i \in 1 .. Len(st) - 1 : SubSeq(st, 1, Len(st) - 1)[i] = st[i]
  <1> DEFINE C == Calls(S)
  <1> HIDE DEF C
  <1>1. st \in Seq(C)
    BY DEF C
  <1>2. Len(st) \in Nat /\ Len(st) >= 1 /\ \A i \in 1 .. Len(st) : st[i] \in C
    BY <1>1
  <1>3. PICK k \in Nat : k = Len(st) - 1
    BY <1>2
  <1>4. 1 \in Int /\ k \in Int /\ \A i \in 1 .. k : st[i] \in C
    BY <1>2, <1>3
  <1>5. /\ SubSeq(st, 1, k) \in Seq(C)
        /\ Len(SubSeq(st, 1, k)) = IF 1 <= k THEN k - 1 + 1 ELSE 0
        /\ \A i \in 1 .. k - 1 + 1 : SubSeq(st, 1, k)[i] = st[1 + i - 1]
    BY <1>4, SubSeqProperties
  <1>6. Len(SubSeq(st, 1, k)) = k /\ \A i \in 1 .. k : SubSeq(st, 1, k)[i] = st[i]
    BY <1>4, <1>5
  <1> QED
    BY <1>2, <1>3, <1>5, <1>6 DEF C

(* A call that is entered goes onto the stack.                             *)
LEMMA EnterEffect ==
    ASSUME TypeInv, NEW n \in DOMAIN adj, NEW st \in Seq(Calls(DOMAIN adj)), Enter(st, n)
    PROVE  /\ stack' \in Seq(Calls(DOMAIN adj)) /\ Len(stack') = Len(st) + 1
           /\ \A i \in 1 .. Len(st) : stack'[i] = st[i]
           /\ stack'[Len(st) + 1] = [node |-> n, rest |-> adj[n]]
           /\ visited' = visited \cup {n} /\ recStack' = recStack \cup {n}
  <1> DEFINE C == Calls(DOMAIN adj)
             r == [node |-> n, rest |-> adj[n]]
  <1>1. r \in C
    BY GraphFacts DEF Calls
  <1>2. st \in Seq(C) /\ stack' = Append(st, r)
    BY DEF Enter
  <1>3. visited' = visited \cup {n} /\ recStack' = recStack \cup {n}
    BY DEF Enter
  <1> HIDE DEF C, r
  <1>4. stack' \in Seq(C) /\ Len(stack') = Len(st) + 1
    BY <1>1, <1>2, AppendProperties
  <1>5. \A i \in 1 .. Len(st) : stack'[i] = st[i]
    BY <1>1, <1>2, AppendProperties
  <1>6. stack'[Len(st) + 1] = r
    BY <1>1, <1>2, AppendProperties
  <1> QED
    BY <1>3, <1>4, <1>5, <1>6 DEF C, r

(* A neighbor is taken from the last call.                                 *)
Taken(n) == Append(Popped, [Top EXCEPT !.rest = @ \ {n}])

LEMMA TakenEffect ==
    ASSUME NEW S, stack \in Seq(Calls(S)), stack # <<>>, NEW n
    PROVE  /\ Taken(n) \in Seq(Calls(S)) /\ Len(Taken(n)) = Len(stack)
           /\ \A i \in 1 .. Len(stack) - 1 : Taken(n)[i] = stack[i]
           /\ Taken(n)[Len(stack)].node = Top.node
           /\ Taken(n)[Len(stack)].rest = Top.rest \ {n}
  <1> DEFINE r == [Top EXCEPT !.rest = @ \ {n}]
             C == Calls(S)
  <1>1. /\ Len(stack) \in Nat /\ Len(stack) >= 1 /\ Top \in Calls(S)
        /\ Popped \in Seq(C) /\ Len(Popped) = Len(stack) - 1
        /\ \A i \in 1 .. Len(stack) - 1 : Popped[i] = stack[i]
    BY StackParts DEF Top, Popped
  <1>2. r \in C /\ r.node = Top.node /\ r.rest = Top.rest \ {n}
    BY <1>1 DEF Calls
  <1> HIDE DEF r, C
  <1>3. Taken(n) = Append(Popped, r)
    BY DEF Taken, r
  <1>4. Taken(n) \in Seq(C) /\ Len(Taken(n)) = Len(stack)
    BY <1>1, <1>2, <1>3, AppendProperties
  <1>5. \A i \in 1 .. Len(stack) - 1 : Taken(n)[i] = stack[i]
    BY <1>1, <1>2, <1>3, AppendProperties
  <1>6. Taken(n)[Len(stack)] = r
    BY <1>1, <1>2, <1>3, AppendProperties
  <1> QED
    BY <1>2, <1>4, <1>5, <1>6 DEF C

LEMMA PathType == ASSUME TypeInv, FindPath PROVE TypeInv'
  <1> DEFINE D == DOMAIN adj
             P == Seq(D) \ {<<>>}
  <1>1. /\ stage = "path" /\ UNCHANGED <<adj, from, to, depth, roots, stack, recStack>>
        /\ stage' \in {"path", "found", "none"}
    BY DEF FindPath, PassOver, PathFound, Expand, NoPath, question, calls
  <1>2. Handles(D)
    BY <1>1 DEF TypeInv
  <1>3. Handles(D)'
    <2>1. CASE PassOver
      <3>1. queue \in Seq(P) /\ queue # <<>> /\ queue' = Tail(queue) /\ UNCHANGED <<visited, answer>>
        BY <1>2, <2>1 DEF PassOver, Handles
      <3>2. queue' \in Seq(P)
        <4> HIDE DEF P
        <4> QED
          BY <3>1, HeadTailProperties
      <3> QED
        BY <1>1, <1>2, <3>1, <3>2 DEF Handles
    <2>2. CASE PathFound
      <3>1. queue \in Seq(P) /\ queue # <<>> /\ answer' = Head(queue) /\ UNCHANGED <<queue, visited>>
        BY <1>2, <2>2 DEF PathFound, Handles
      <3>2. answer' \in P
        <4> HIDE DEF P
        <4> QED
          BY <3>1, HeadTailProperties
      <3> QED
        BY <1>1, <1>2, <3>1, <3>2 DEF Handles
    <2>3. CASE Expand
      <3>1. visited' \subseteq D /\ queue' \in Seq(P) /\ answer' = answer
        <4>1. /\ Last(queue[1]) \in D /\ visited' = visited \cup adj[Last(queue[1])]
              /\ queue' \in Seq(P)
          BY <2>3, ExpandEffect
        <4> QED
          BY <1>2, <2>3, <4>1, GraphFacts DEF Expand, Handles
      <3> QED
        BY <1>1, <1>2, <3>1 DEF Handles
    <2>4. CASE NoPath
      BY <1>1, <1>2, <2>4 DEF NoPath, Handles
    <2> QED
      BY <2>1, <2>2, <2>3, <2>4 DEF FindPath
  <1>4. passed' \in BOOLEAN
    BY DEF FindPath, PassOver, PathFound, Expand, NoPath, TypeInv
  <1>5. Handles(IF stage = "unknown" THEN Names ELSE D)'
    BY <1>1, <1>3
  <1> HIDE DEF D, P
  <1> QED
    BY <1>1, <1>4, <1>5 DEF TypeInv, Stages, D

LEMMA AskType == ASSUME TypeInv, AskPath \/ AskCycle PROVE TypeInv'
  <1>1. /\ stage = "idle" /\ adj' \in Graphs /\ answer = <<>> /\ answer' = <<>> /\ stack' = <<>>
        /\ roots = {} /\ recStack' = {} /\ passed' = FALSE /\ queue = <<>> /\ visited = {}
        /\ from \in Names /\ to \in Names /\ depth \in Int
    BY DEF AskPath, AskCycle, TypeInv, calls
  <1>2. CASE AskCycle
    <2>1. stage' = "cycle" /\ roots' = DOMAIN adj' /\ UNCHANGED <<from, to, depth, queue, visited>>
      BY <1>2 DEF AskCycle, question
    <2>2. Handles(DOMAIN adj)'
      BY <1>1, <2>1 DEF Handles
    <2>3. Handles(IF stage = "unknown" THEN Names ELSE DOMAIN adj)'
      BY <2>1, <2>2
    <2> QED
      BY <1>1, <2>1, <2>3 DEF TypeInv, Stages
  <1>3. CASE AskPath
    <2>1. /\ from' \in Names /\ to' \in Names /\ roots' = {} /\ queue' = <<<<from'>>>>
          /\ visited' = {from'} /\ stage' = IF {from', to'} \subseteq DOMAIN adj' THEN "path" ELSE "unknown"
      BY <1>1, <1>3 DEF AskPath, calls
    <2>2. depth' \in Int
      <3>1. PICK d \in Depths : depth' = DepthOf(d)
        BY <1>3 DEF AskPath
      <3> QED
        BY <3>1, DepthsAreIntegers DEF DepthOf
    <2>3. ASSUME NEW S, from' \in S PROVE Handles(S)'
      <3>1. <<from'>> \in Seq(S) \ {<<>>}
        BY <2>3
      <3>2. <<<<from'>>>> \in Seq(Seq(S) \ {<<>>})
        BY <3>1
      <3> QED
        BY <1>1, <2>1, <2>3, <3>2 DEF Handles
    <2>4. Handles(IF stage = "unknown" THEN Names ELSE DOMAIN adj)'
      BY <2>1, <2>3
    <2> QED
      BY <1>1, <2>1, <2>2, <2>4 DEF TypeInv, Stages
  <1> QED
    BY <1>2, <1>3

LEMMA CycleType == ASSUME TypeInv, HasCycle PROVE TypeInv'
  <1> DEFINE D == DOMAIN adj
  <1>1. /\ stage = "cycle" /\ UNCHANGED <<adj, from, to, depth, queue, passed>>
        /\ stage' \in {"cycle", "cycleAnswered"}
    BY DEF HasCycle, NextRoot, NextNeighbor, Leave, NoCycle, question, calls
  <1>2. Handles(D) /\ stack \in Seq(Calls(D))
    BY <1>1 DEF TypeInv, Handles, Calls
  <1>3. /\ stack' \in Seq(Calls(D)) /\ visited' \subseteq D /\ roots' \subseteq D /\ recStack' \subseteq D
        /\ answer' \in Seq(D)
    <2>1. CASE NextRoot
      <3>1. PICK n \in roots : /\ roots' = roots \ {n}
                               /\ UNCHANGED <<stack, visited, recStack>> \/ Enter(stack, n)
        BY <2>1 DEF NextRoot
      <3>2. n \in D /\ answer' = answer
        BY <1>2, <2>1 DEF NextRoot, Handles
      <3>3. CASE Enter(stack, n)
        <4>1. stack' \in Seq(Calls(D)) /\ visited' = visited \cup {n} /\ recStack' = recStack \cup {n}
          BY <1>2, <3>2, <3>3, EnterEffect
        <4> QED
          BY <1>2, <3>1, <3>2, <4>1 DEF Handles
      <3> QED
        BY <1>2, <3>1, <3>2, <3>3 DEF Handles
    <2>2. CASE NextNeighbor
      <3>1. PICK n \in Top.rest :
               \/ Enter(Taken(n), n) /\ answer' = answer
               \/ answer' = <<n>> /\ UNCHANGED <<stack, visited, recStack>>
               \/ stack' = Taken(n) /\ UNCHANGED <<answer, visited, recStack>>
        BY <2>2 DEF NextNeighbor, Taken
      <3>2. stack # <<>> /\ roots' = roots
        BY <2>2 DEF NextNeighbor
      <3>3. n \in D /\ Taken(n) \in Seq(Calls(D))
        <4>1. Top \in Calls(D) /\ Taken(n) \in Seq(Calls(D))
          BY <1>2, <3>2, StackParts, TakenEffect DEF Top
        <4> QED
          BY <4>1 DEF Calls
      <3>4. CASE Enter(Taken(n), n) /\ answer' = answer
        <4>1. stack' \in Seq(Calls(D)) /\ visited' = visited \cup {n} /\ recStack' = recStack \cup {n}
          BY <3>3, <3>4, EnterEffect
        <4> QED
          BY <1>2, <3>2, <3>3, <3>4, <4>1 DEF Handles
      <3>5. CASE answer' = <<n>> /\ UNCHANGED <<stack, visited, recStack>>
        <4>1. answer' \in Seq(D)
          BY <3>3, <3>5
        <4> QED
          BY <1>2, <3>2, <3>5, <4>1 DEF Handles
      <3>6. CASE stack' = Taken(n) /\ UNCHANGED <<answer, visited, recStack>>
        BY <1>2, <3>2, <3>3, <3>6 DEF Handles
      <3> QED
        BY <3>1, <3>4, <3>5, <3>6
    <2>3. CASE Leave
      <3>1. stack' = Popped /\ stack # <<>> /\ recStack' \subseteq recStack /\ UNCHANGED <<visited, roots, answer>>
        BY <2>3 DEF Leave, Unmarked
      <3>2. Popped \in Seq(Calls(D))
        BY <1>2, <3>1, StackParts DEF Popped
      <3> QED
        BY <1>2, <3>1, <3>2 DEF Handles
    <2>4. CASE NoCycle
      <3>1. answer' = <<>> /\ UNCHANGED <<stack, visited, roots, recStack>>
        BY <2>4 DEF NoCycle, calls
      <3> QED
        BY <1>2, <3>1 DEF Handles
    <2> QED
      BY <2>1, <2>2, <2>3, <2>4 DEF HasCycle
  <1>4. Handles(D)'
    BY <1>1, <1>2, <1>3 DEF Handles, Calls
  <1>5. Handles(IF stage = "unknown" THEN Names ELSE D)'
    BY <1>1, <1>4
  <1> HIDE DEF D
  <1> QED
    BY <1>1, <1>5 DEF TypeInv, Stages, D

LEMMA RespondType == ASSUME Respond PROVE TypeInv'
  <1>1. NoName \in Names
    BY NamesAreFinite DEF NoName
  <1>2. Handles(DOMAIN adj)'
    BY DEF Respond, Handles
  <1>3. /\ stage' = "idle" /\ adj' = NoNodes /\ passed' = FALSE /\ from' = NoName /\ to' = NoName
        /\ depth' = 0 /\ queue' = <<>> /\ visited' = {} /\ roots' = {} /\ stack' = <<>>
        /\ recStack' = {} /\ answer' = <<>>
    BY DEF Respond
  <1>4. Handles(IF stage = "unknown" THEN Names ELSE DOMAIN adj)'
    BY <1>2, <1>3
  <1>5. 0 \in Int /\ FALSE \in BOOLEAN
    OBVIOUS
  <1> QED
    BY <1>1, <1>3, <1>4, <1>5 DEF TypeInv, Stages

LEMMA StutterType == ASSUME TypeInv, UNCHANGED vars PROVE TypeInv'
  <1>1. /\ UNCHANGED <<adj, stage, from, to, depth, queue, visited>>
        /\ UNCHANGED <<roots, stack, recStack, answer, passed>>
    BY DEF vars, question, calls
  <1>2. \A S : Handles(S) => Handles(S)'
    BY <1>1 DEF Handles
  <1>3. Handles(IF stage = "unknown" THEN Names ELSE DOMAIN adj)'
    BY <1>1, <1>2 DEF TypeInv
  <1> QED
    BY <1>1, <1>3 DEF TypeInv

LEMMA TypeStep == TypeInv /\ [Next]_vars => TypeInv'
  BY AskType, PathType, CycleType, RespondType, StutterType DEF Next

(* What a search handles are nodes of its graph.                           *)
THEOREM SearchTypeCorrect == Spec => []TypeOK
  BY TypeInit, TypeStep, TypeFollows, PTL DEF Spec

(***************************************************************************)
(* FindPath.                                                               *)
(***************************************************************************)
(* A path of the graph from the node the question names.                   *)
Trail(p) == p \in Seq(DOMAIN adj) /\ IsPath(p) /\ p[1] = from

LEMMA TrailFacts ==
    ASSUME NEW p, Trail(p)
    PROVE  /\ p # <<>> /\ Len(p) \in Nat /\ Len(p) >= 1 /\ Last(p) = p[Len(p)]
           /\ \A i \in 1 .. Len(p) : p[i] \in DOMAIN adj
           /\ Last(p) \in DOMAIN adj
  <1>1. Len(p) \in Nat /\ Len(p) >= 1
    BY DEF Trail, IsPath
  <1> QED
    BY <1>1 DEF Trail, IsPath, Last

LEMMA Longer ==
    ASSUME TypeInv, NEW p, Trail(p), NEW n \in adj[Last(p)]
    PROVE  Trail(Append(p, n)) /\ Last(Append(p, n)) = n /\ Len(Append(p, n)) = Len(p) + 1
  <1>1. /\ Len(p) \in Nat /\ Len(p) >= 1 /\ Last(p) = p[Len(p)] /\ Last(p) \in DOMAIN adj
        /\ p \in Seq(DOMAIN adj) /\ \A i \in 1 .. Len(p) : p[i] \in DOMAIN adj
    BY TrailFacts DEF Trail
  <1>2. n \in DOMAIN adj
    BY <1>1, GraphFacts
  <1>3. PICK q : q = Append(p, n)
    OBVIOUS
  <1>4. /\ q \in Seq(DOMAIN adj) /\ Len(q) = Len(p) + 1 /\ q[Len(p) + 1] = n
        /\ \A i \in 1 .. Len(p) : q[i] = p[i]
    BY <1>1, <1>2, <1>3, AppendProperties
  <1>5. q[1] = from
    BY <1>1, <1>4 DEF Trail
  <1>6. ASSUME NEW i \in 1 .. Len(q) - 1 PROVE q[i + 1] \in adj[q[i]]
    <2>1. CASE i = Len(p)
      BY <1>1, <1>4, <2>1
    <2>2. CASE i \in 1 .. Len(p) - 1
      <3>1. q[i] = p[i] /\ q[i + 1] = p[i + 1]
        BY <1>1, <1>4, <2>2
      <3> QED
        BY <2>2, <3>1 DEF Trail, IsPath
    <2> QED
      BY <1>1, <1>4, <1>6, <2>1, <2>2
  <1>7. \A i \in 1 .. Len(q) : q[i] \in DOMAIN adj
    BY <1>4
  <1>8. IsPath(q)
    BY <1>1, <1>4, <1>6, <1>7 DEF IsPath
  <1> QED
    BY <1>3, <1>4, <1>5, <1>8 DEF Trail, Last

LEMMA Shorter ==
    ASSUME TypeInv, NEW p, Trail(p), Len(p) > 1
    PROVE  \E q : Trail(q) /\ Len(q) = Len(p) - 1 /\ Last(p) \in adj[Last(q)]
  <1>1. Len(p) \in Nat /\ \A i \in 1 .. Len(p) : p[i] \in DOMAIN adj
    BY TrailFacts
  <1>2. PICK k \in Nat : k = Len(p) - 1 /\ k >= 1
    BY <1>1
  <1>3. 1 \in Int /\ k \in Int /\ \A i \in 1 .. k : p[i] \in DOMAIN adj
    BY <1>1, <1>2
  <1>4. PICK q : q = SubSeq(p, 1, k)
    OBVIOUS
  <1>5. /\ q \in Seq(DOMAIN adj) /\ Len(q) = IF 1 <= k THEN k - 1 + 1 ELSE 0
        /\ \A i \in 1 .. k - 1 + 1 : q[i] = p[1 + i - 1]
    BY <1>3, <1>4, SubSeqProperties
  <1>6. Len(q) = k /\ \A i \in 1 .. k : q[i] = p[i]
    BY <1>2, <1>5
  <1>7. ASSUME NEW i \in 1 .. k - 1 PROVE q[i + 1] \in adj[q[i]]
    <2>1. q[i] = p[i] /\ q[i + 1] = p[i + 1] /\ i \in 1 .. Len(p) - 1
      BY <1>1, <1>2, <1>6
    <2> QED
      BY <2>1 DEF Trail, IsPath
  <1>8. \A i \in 1 .. k : q[i] \in DOMAIN adj
    BY <1>3, <1>6
  <1>9. Trail(q)
    BY <1>2, <1>5, <1>6, <1>7, <1>8 DEF Trail, IsPath
  <1>10. Last(q) = p[k] /\ Last(p) = p[k + 1] /\ k \in 1 .. Len(p) - 1
    BY <1>1, <1>2, <1>6 DEF Last
  <1>11. \A i \in 1 .. Len(p) - 1 : p[i + 1] \in adj[p[i]]
    BY DEF Trail, IsPath
  <1>12. Last(p) \in adj[Last(q)]
    BY <1>10, <1>11
  <1>13. Len(q) = Len(p) - 1
    BY <1>2, <1>6
  <1> QED
    BY <1>9, <1>12, <1>13

LEMMA AskedIsTrail ==
    ASSUME NEW n \in Nat, n >= 1, NEW p \in Paths(n)
    PROVE  Trail(p) /\ Len(p) = n /\ Last(p) = to
  <1>1. p \in [1 .. n -> DOMAIN adj] /\ IsPath(p) /\ p[1] = from /\ p[n] = to
    BY DEF Paths
  <1>2. p \in Seq(DOMAIN adj) /\ Len(p) = n
    BY <1>1
  <1> QED
    BY <1>1, <1>2 DEF Trail, Last

(* No path leaves a set that no edge leaves.                               *)
LEMMA Stays ==
    ASSUME NEW s, from \in s, \A n \in s : adj[n] \subseteq s, NEW p, Trail(p)
    PROVE  Last(p) \in s
  <1> DEFINE S == {i \in 1 .. Len(p) : p[i] \in s}
  <1>1. Len(p) \in Nat /\ Len(p) >= 1 /\ Last(p) = p[Len(p)]
    BY TrailFacts
  <1>2. 1 \in S
    BY <1>1 DEF Trail
  <1>3. \A i \in 1 .. Len(p) - 1 : i \in S => i + 1 \in S
    BY <1>1 DEF Trail, IsPath
  <1>4. 1 .. Len(p) \subseteq S
    <2> HIDE DEF S
    <2> QED
      BY <1>1, <1>2, <1>3, UpTo
  <1> QED
    BY <1>1, <1>4

(* A node whose neighbors are all visited, and that is not looked for.     *)
Done(n) == n # to /\ adj[n] \subseteq visited

Queued(n, k) == \E i \in 1 .. Len(queue) : Last(queue[i]) = n /\ Len(queue[i]) = k

(* The queue holds paths in the order of their lengths, which differ by    *)
(* one at most; whoever is visited is done or at the end of one of them,   *)
(* and shorter paths than these lead to nodes that are done.               *)
PathInv ==
    /\ from \in visited
    /\ \A i \in 1 .. Len(queue) : Trail(queue[i]) /\ Last(queue[i]) \in visited
    /\ \A i, j \in 1 .. Len(queue) : i <= j => /\ Len(queue[i]) <= Len(queue[j])
                                            /\ Len(queue[j]) <= Len(queue[1]) + 1
    /\ passed => \A i \in 1 .. Len(queue) : Len(queue[i]) > depth
    /\ ~passed => \A n \in visited : Done(n) \/ \E k \in Nat : Queued(n, k)
    /\ \A p : Trail(p) /\ Len(p) <= depth =>
          /\ queue = <<>> \/ Len(p) < Len(queue[1]) => Done(Last(p))
          /\ queue # <<>> /\ Len(p) = Len(queue[1]) => Done(Last(p)) \/ Queued(Last(p), Len(p))

LEMMA QueueFacts ==
    ASSUME TypeInv, stage = "path", queue # <<>>
    PROVE  /\ Len(queue) \in Nat /\ Len(queue) >= 1 /\ Head(queue) = queue[1]
           /\ Len(Tail(queue)) = Len(queue) - 1
           /\ \A i \in 1 .. Len(queue) - 1 : Tail(queue)[i] = queue[i + 1]
  <1> DEFINE P == Seq(DOMAIN adj) \ {<<>>}
  <1>1. queue \in Seq(P)
    BY DEF TypeInv, Handles
  <1> HIDE DEF P
  <1> QED
    BY <1>1, QueueParts

LEMMA PathStarts == ASSUME TypeInv, AskPath, stage' = "path" PROVE PathInv'
  <1>1. /\ queue' = <<<<from'>>>> /\ visited' = {from'} /\ passed' = FALSE
        /\ {from', to'} \subseteq DOMAIN adj'
    BY DEF AskPath, TypeInv
  <1>2. Len(queue') = 1 /\ queue'[1] = <<from'>> /\ Len(queue'[1]) = 1
    BY <1>1
  <1>3. Trail(<<from>>)' /\ Last(<<from'>>) = from'
    BY <1>1 DEF Trail, IsPath, Last
  <1>4. \A i \in 1 .. Len(queue') : i = 1
    BY <1>2
  <1>5. Queued(from, 1)'
    BY <1>2, <1>3 DEF Queued
  <1>6. ASSUME NEW p, Trail(p)'
        PROVE  Len(p) >= 1 /\ Len(p) \in Nat /\ (Len(p) = 1 => Last(p) = from')
    <2>1. Len(p) \in Nat /\ Len(p) >= 1 /\ p[1] = from'
      BY <1>6 DEF Trail, IsPath
    <2> QED
      BY <2>1 DEF Last
  <1>7. \A i, j \in 1 .. Len(queue') : i <= j => /\ Len(queue'[i]) <= Len(queue'[j])
                                              /\ Len(queue'[j]) <= Len(queue'[1]) + 1
    <2> TAKE i, j \in 1 .. Len(queue')
    <2>1. Len(queue'[i]) = 1 /\ Len(queue'[j]) = 1 /\ Len(queue'[1]) = 1
      BY <1>2, <1>4
    <2> QED
      BY <2>1
  <1>8. \A p : Trail(p)' /\ Len(p) <= depth' =>
          /\ queue' = <<>> \/ Len(p) < Len(queue'[1]) => Done(Last(p))'
          /\ queue' # <<>> /\ Len(p) = Len(queue'[1]) => Done(Last(p))' \/ Queued(Last(p), Len(p))'
    <2> TAKE p
    <2> HAVE Trail(p)' /\ Len(p) <= depth'
    <2>1. ~(queue' = <<>> \/ Len(p) < Len(queue'[1]))
      BY <1>2, <1>6
    <2>2. Len(p) = Len(queue'[1]) => Queued(Last(p), Len(p))'
      BY <1>2, <1>3, <1>6 DEF Queued
    <2> QED
      BY <2>1, <2>2
  <1>9. \A i \in 1 .. Len(queue') : Trail(queue[i])' /\ Last(queue'[i]) \in visited'
    BY <1>1, <1>2, <1>3, <1>4
  <1>10. \A n \in visited' : \E k \in Nat : Queued(n, k)'
    BY <1>1, <1>5
  <1> QED
    BY <1>1, <1>7, <1>8, <1>9, <1>10 DEF PathInv

LEMMA PathPassed ==
    ASSUME TypeInv, PathInv, PassOver PROVE PathInv'
  <1>1. /\ Len(queue) \in Nat /\ Len(queue) >= 1 /\ queue # <<>> /\ Len(queue[1]) > depth
        /\ Len(queue') = Len(queue) - 1 /\ \A i \in 1 .. Len(queue') : queue'[i] = queue[i + 1]
        /\ passed' = TRUE /\ UNCHANGED <<adj, from, to, depth, visited>>
    BY QueueFacts DEF PassOver, TooDeep, question
  <1>2. \A p : Trail(p)' <=> Trail(p)
    BY <1>1 DEF Trail, IsPath
  <1>3. \A i \in 1 .. Len(queue') : i + 1 \in 1 .. Len(queue)
    BY <1>1
  <1>4. \A i \in 1 .. Len(queue) : Trail(queue[i]) /\ Len(queue[i]) \in Nat /\ Last(queue[i]) \in visited
    BY TrailFacts DEF PathInv
  <1>5. depth \in Int /\ 1 \in 1 .. Len(queue)
    BY <1>1 DEF TypeInv
  <1>6. \A i \in 1 .. Len(queue') : Trail(queue[i])' /\ Last(queue'[i]) \in visited'
    BY <1>1, <1>2, <1>3, <1>4
  <1>7. \A i \in 1 .. Len(queue) : Len(queue[i]) > depth
    <2> TAKE i \in 1 .. Len(queue)
    <2>1. Len(queue[1]) <= Len(queue[i])
      BY <1>5 DEF PathInv
    <2> QED
      BY <1>1, <1>4, <1>5, <2>1
  <1>8. \A i, j \in 1 .. Len(queue') : i <= j => /\ Len(queue'[i]) <= Len(queue'[j])
                                              /\ Len(queue'[j]) <= Len(queue'[1]) + 1
    <2> SUFFICES ASSUME NEW i \in 1 .. Len(queue'), NEW j \in 1 .. Len(queue'), i <= j
                 PROVE  /\ Len(queue'[i]) <= Len(queue'[j])
                        /\ Len(queue'[j]) <= Len(queue'[1]) + 1
      OBVIOUS
    <2>1. i + 1 \in 1 .. Len(queue) /\ j + 1 \in 1 .. Len(queue) /\ 2 \in 1 .. Len(queue)
          /\ i + 1 <= j + 1 /\ 1 \in 1 .. Len(queue') /\ queue'[1] = queue[2]
      BY <1>1
    <2>2. /\ Len(queue[i + 1]) <= Len(queue[j + 1])
          /\ Len(queue[j + 1]) <= Len(queue[1]) + 1 /\ Len(queue[1]) <= Len(queue[2])
      BY <1>5, <2>1 DEF PathInv
    <2>3. /\ queue'[i] = queue[i + 1] /\ queue'[j] = queue[j + 1]
          /\ Len(queue[1]) \in Nat /\ Len(queue[2]) \in Nat /\ Len(queue[j + 1]) \in Nat
      BY <1>1, <1>4, <1>5, <2>1
    <2>4. Len(queue'[i]) <= Len(queue'[j])
      BY <2>2, <2>3
    <2>5. Len(queue[j + 1]) <= Len(queue[2]) + 1
      <3>1. \A a, b, d \in Nat : a <= b + 1 /\ b <= d => a <= d + 1
        OBVIOUS
      <3> QED
        BY <2>2, <2>3, <3>1
    <2>6. Len(queue'[j]) <= Len(queue'[1]) + 1
      BY <2>1, <2>3, <2>5
    <2> QED
      BY <2>4, <2>6
  <1>9. \A p : Trail(p) /\ Len(p) <= depth => Done(Last(p))
    <2> TAKE p
    <2> HAVE Trail(p) /\ Len(p) <= depth
    <2>1. Len(p) < Len(queue[1])
      BY <1>1, <1>4, <1>5, TrailFacts
    <2> QED
      BY <2>1 DEF PathInv
  <1>10. \A n : Done(n)' <=> Done(n)
    BY <1>1 DEF Done
  <1>11. from' \in visited'
    BY <1>1 DEF PathInv
  <1> QED
    BY <1>1, <1>2, <1>3, <1>6, <1>7, <1>8, <1>9, <1>10, <1>11 DEF PathInv

LEMMA PathExpands ==
    ASSUME TypeInv, PathInv, Expand PROVE PathInv'
  <1>0. PICK m, L : m = Last(queue[1]) /\ L = Len(queue[1])
    OBVIOUS
  <1>1. /\ Len(queue) \in Nat /\ Len(queue) >= 1 /\ queue # <<>> /\ depth \in Int
        /\ passed' = passed /\ UNCHANGED <<adj, from, to, depth>>
    BY QueueFacts DEF Expand, question, TypeInv
  <1>2. /\ m \in DOMAIN adj /\ m # to /\ L <= depth /\ visited' = visited \cup adj[m]
        /\ queue' \in Seq(Seq(DOMAIN adj) \ {<<>>})
    BY <1>0, ExpandEffect
  <1>3. \A i \in 1 .. Len(queue') :
           \/ i + 1 \in 1 .. Len(queue) /\ queue'[i] = queue[i + 1]
           \/ i >= Len(queue) /\ \E n \in adj[m] \ visited : queue'[i] = Append(queue[1], n)
    BY <1>0, ExpandEffect
  <1>4. /\ \A j \in 2 .. Len(queue) : \E i \in 1 .. Len(queue') : queue'[i] = queue[j]
        /\ \A n \in adj[m] \ visited : \E i \in 1 .. Len(queue') : queue'[i] = Append(queue[1], n)
    BY <1>0, ExpandEffect
  <1>5. \A p : Trail(p)' <=> Trail(p)
    BY <1>1 DEF Trail, IsPath
  <1>6. /\ 1 \in 1 .. Len(queue)
        /\ \A i \in 1 .. Len(queue) : Trail(queue[i]) /\ Len(queue[i]) \in Nat /\ Last(queue[i]) \in visited
    BY <1>1, TrailFacts DEF PathInv
  <1>7. \A n \in adj[m] : /\ Trail(Append(queue[1], n)) /\ Last(Append(queue[1], n)) = n
                          /\ Len(Append(queue[1], n)) = L + 1
    BY <1>0, <1>6, Longer
  <1>8. \A n : Done(n) => Done(n)'
    BY <1>1, <1>2 DEF Done
  <1>9. Done(m)'
    BY <1>1, <1>2 DEF Done
  <1>10. Len(queue') \in Nat /\ (queue' = <<>> <=> Len(queue') = 0)
    <2> DEFINE P == Seq(DOMAIN adj) \ {<<>>}
    <2>1. queue' \in Seq(P)
      BY <1>2
    <2> HIDE DEF P
    <2> QED
      BY <2>1
  <1>11. \A i \in 1 .. Len(queue') : /\ Trail(queue'[i]) /\ Last(queue'[i]) \in visited'
                                    /\ Len(queue'[i]) \in Nat
    <2> TAKE i \in 1 .. Len(queue')
    <2>1. CASE i + 1 \in 1 .. Len(queue) /\ queue'[i] = queue[i + 1]
      BY <1>2, <1>6, <2>1
    <2>2. CASE \E n \in adj[m] \ visited : queue'[i] = Append(queue[1], n)
      BY <1>2, <1>7, <2>2, TrailFacts
    <2> QED
      BY <1>3, <2>1, <2>2
  <1>12. L \in Nat /\ L >= 1 /\ \A i \in 1 .. Len(queue') : L <= Len(queue'[i]) /\ Len(queue'[i]) <= L + 1
    <2>1. L \in Nat /\ L >= 1
      BY <1>0, <1>6, TrailFacts
    <2> SUFFICES ASSUME NEW i \in 1 .. Len(queue')
                 PROVE  L <= Len(queue'[i]) /\ Len(queue'[i]) <= L + 1
      BY <2>1
    <2>2. CASE i + 1 \in 1 .. Len(queue) /\ queue'[i] = queue[i + 1]
      <3>1. L <= Len(queue[i + 1]) /\ Len(queue[i + 1]) <= L + 1
        <4>1. 1 <= i + 1
          OBVIOUS
        <4> QED
          BY <1>0, <1>6, <2>2, <4>1 DEF PathInv
      <3> QED
        BY <2>2, <3>1
    <2>3. CASE \E n \in adj[m] \ visited : queue'[i] = Append(queue[1], n)
      BY <1>7, <2>1, <2>3
    <2> QED
      BY <1>3, <2>2, <2>3
  <1>13. ASSUME NEW i \in 1 .. Len(queue'), NEW j \in 1 .. Len(queue'), i <= j
         PROVE  Len(queue'[i]) <= Len(queue'[j]) /\ Len(queue'[j]) <= Len(queue'[1]) + 1
    <2>1. Len(queue'[j]) <= Len(queue'[1]) + 1
      <3>1. 1 \in 1 .. Len(queue')
        BY <1>10, <1>13
      <3>2. Len(queue'[j]) <= L + 1 /\ L <= Len(queue'[1])
        BY <1>12, <3>1
      <3> QED
        BY <1>11, <1>12, <3>1, <3>2
    <2>2. CASE j + 1 \in 1 .. Len(queue) /\ queue'[j] = queue[j + 1]
      <3>1. i + 1 \in 1 .. Len(queue) /\ queue'[i] = queue[i + 1] /\ i + 1 <= j + 1
        BY <1>1, <1>3, <1>13, <2>2
      <3>2. Len(queue[i + 1]) <= Len(queue[j + 1])
        BY <2>2, <3>1 DEF PathInv
      <3> QED
        BY <2>1, <2>2, <3>1, <3>2
    <2>3. CASE \E n \in adj[m] \ visited : queue'[j] = Append(queue[1], n)
      <3>1. Len(queue'[j]) = L + 1
        BY <1>7, <2>3
      <3> QED
        BY <1>12, <2>1, <3>1
    <2> QED
      BY <1>3, <2>2, <2>3
  <1>14. ~passed
    <2>1. L <= depth /\ L \in Nat
      BY <1>2, <1>12
    <2>2. ~(L > depth)
      BY <1>1, <2>1
    <2> QED
      BY <1>0, <1>6, <2>2 DEF PathInv
  <1>15. \A n \in visited' : Done(n)' \/ \E k \in Nat : Queued(n, k)'
    <2> TAKE n \in visited'
    <2>1. CASE n \in visited
      <3>1. CASE Done(n) \/ n = m
        BY <1>8, <1>9, <3>1
      <3>2. CASE ~Done(n) /\ n # m
        <4>1. PICK j \in 1 .. Len(queue) : Last(queue[j]) = n
          BY <1>14, <2>1, <3>2 DEF PathInv, Queued
        <4>2. j \in 2 .. Len(queue)
          BY <1>0, <1>1, <3>2, <4>1
        <4>3. PICK i \in 1 .. Len(queue') : queue'[i] = queue[j]
          BY <1>4, <4>2
        <4> QED
          BY <1>11, <4>1, <4>3 DEF Queued
      <3> QED
        BY <3>1, <3>2
    <2>2. CASE n \in adj[m] \ visited
      <3>1. PICK i \in 1 .. Len(queue') : queue'[i] = Append(queue[1], n)
        BY <1>4, <2>2
      <3>2. Last(queue'[i]) = n
        BY <1>7, <2>2, <3>1
      <3> QED
        BY <1>11, <3>2 DEF Queued
    <2> QED
      BY <1>2, <2>1, <2>2
  <1>16. ASSUME NEW p, Trail(p), Len(p) <= depth, Len(p) < L PROVE Done(Last(p))'
    BY <1>0, <1>8, <1>16 DEF PathInv
  <1>17. ASSUME NEW p, Trail(p), Len(p) <= depth, Len(p) = L
         PROVE  Done(Last(p))' \/ \E i \in 1 .. Len(queue') : Last(queue'[i]) = Last(p) /\ Len(queue'[i]) = L
    <2>1. Done(Last(p)) \/ Queued(Last(p), L)
      BY <1>0, <1>1, <1>17 DEF PathInv
    <2>2. CASE Queued(Last(p), L)
      <3>1. PICK j \in 1 .. Len(queue) : Last(queue[j]) = Last(p) /\ Len(queue[j]) = L
        BY <2>2 DEF Queued
      <3>2. CASE j = 1
        BY <1>0, <1>9, <3>1, <3>2
      <3>3. CASE j \in 2 .. Len(queue)
        BY <1>4, <3>1, <3>3
      <3> QED
        BY <1>1, <3>2, <3>3
    <2> QED
      BY <1>8, <2>1, <2>2
  <1>18. \A p : Trail(p) /\ Len(p) <= depth =>
           /\ queue' = <<>> \/ Len(p) < Len(queue'[1]) => Done(Last(p))'
           /\ queue' # <<>> /\ Len(p) = Len(queue'[1]) => Done(Last(p))' \/ Queued(Last(p), Len(p))'
    <2> SUFFICES ASSUME NEW p, Trail(p), Len(p) <= depth
                 PROVE  /\ queue' = <<>> \/ Len(p) < Len(queue'[1]) => Done(Last(p))'
                        /\ queue' # <<>> /\ Len(p) = Len(queue'[1]) =>
                              Done(Last(p))' \/ Queued(Last(p), Len(p))'
      OBVIOUS
    <2>1. Len(p) \in Nat /\ Len(p) >= 1
      BY TrailFacts
    <2>2. CASE queue' = <<>>
      <3>1. \A n \in visited' : Done(n)'
        BY <1>10, <1>15, <2>2 DEF Queued
      <3>2. from \in visited' /\ \A n \in visited' : adj[n] \subseteq visited'
        BY <1>1, <1>2, <3>1 DEF PathInv, Done
      <3>3. Last(p) \in visited'
        BY <3>2, Stays
      <3> QED
        BY <2>2, <3>1, <3>3
    <2>3. CASE queue' # <<>> /\ Len(queue'[1]) = L
      <3>1. Len(p) < L => Done(Last(p))'
        BY <1>16
      <3>2. Len(p) = L => Done(Last(p))' \/ Queued(Last(p), Len(p))'
        BY <1>17 DEF Queued
      <3> QED
        BY <2>3, <3>1, <3>2
    <2>4. CASE queue' # <<>> /\ Len(queue'[1]) = L + 1
      <3>0. 1 \in 1 .. Len(queue')
        BY <1>10, <2>4
      <3>1. \A i \in 1 .. Len(queue') : Len(queue'[i]) = L + 1
        <4> TAKE i \in 1 .. Len(queue')
        <4>1. Len(queue'[1]) <= Len(queue'[i]) /\ Len(queue'[i]) <= L + 1 /\ Len(queue'[i]) \in Nat
          BY <1>11, <1>12, <1>13, <3>0
        <4> QED
          BY <1>12, <2>4, <4>1
      <3>2. ASSUME NEW q, Trail(q), Len(q) <= depth, Len(q) <= L PROVE Done(Last(q))'
        <4>1. Len(q) < L \/ Len(q) = L
          BY <1>12, <3>2, TrailFacts
        <4>2. ~\E i \in 1 .. Len(queue') : Len(queue'[i]) = L
          BY <1>12, <3>1
        <4> QED
          BY <1>16, <1>17, <3>2, <4>1, <4>2
      <3>3. CASE Len(p) <= L
        <4>1. Done(Last(p))' /\ Len(p) # Len(queue'[1])
          BY <1>12, <2>1, <2>4, <3>2, <3>3
        <4> QED
          BY <4>1
      <3>4. CASE Len(p) = L + 1
        <4>1. PICK q : Trail(q) /\ Len(q) = Len(p) - 1 /\ Last(p) \in adj[Last(q)]
          BY <1>12, <2>1, <3>4, Shorter
        <4>2. Len(q) = L /\ Len(q) <= depth /\ Len(q) <= L
          BY <1>1, <1>2, <1>12, <3>4, <4>1
        <4>3. Last(p) \in visited'
          BY <1>1, <3>2, <4>1, <4>2 DEF Done
        <4>4. Done(Last(p))' \/ Queued(Last(p), L + 1)'
          BY <1>15, <3>1, <4>3 DEF Queued
        <4> QED
          BY <1>12, <2>4, <3>4, <4>4
      <3>5. CASE Len(p) > L + 1
        BY <1>12, <2>1, <2>4, <3>5
      <3> QED
        BY <1>12, <2>1, <3>3, <3>4, <3>5
    <2>5. queue' # <<>> => Len(queue'[1]) = L \/ Len(queue'[1]) = L + 1
      <3> HAVE queue' # <<>>
      <3>1. 1 \in 1 .. Len(queue')
        BY <1>10
      <3> QED
        BY <1>11, <1>12, <3>1
    <2> QED
      BY <2>2, <2>3, <2>4, <2>5
  <1>19. from' \in visited'
    BY <1>1, <1>2 DEF PathInv
  <1>20. passed' => \A i \in 1 .. Len(queue') : Len(queue'[i]) > depth'
    BY <1>1, <1>14
  <1> QED
    BY <1>1, <1>5, <1>11, <1>13, <1>15, <1>18, <1>19, <1>20 DEF PathInv

PathResults == PathsAreReal /\ PathsAreShortest /\ MissesAreReal /\ MissesAreFinal

PathSearch == (stage = "path" => PathInv) /\ PathResults

(* The path at the head of the queue is one of the shortest.               *)
LEMMA FoundIsShortest ==
    ASSUME TypeInv, PathInv, PathFound PROVE (PathsAreReal /\ PathsAreShortest)'
  <1>1. /\ 1 \in 1 .. Len(queue) /\ answer' = queue[1] /\ UNCHANGED <<adj, from, to, depth>>
        /\ queue # <<>> /\ Last(queue[1]) = to /\ ~(Len(queue[1]) > depth) /\ depth \in Int
    BY QueueFacts DEF PathFound, TooDeep, question, TypeInv
  <1>2. Trail(answer') /\ Len(answer') \in Nat
    BY <1>1, TrailFacts DEF PathInv
  <1>3. PathsAreReal'
    BY <1>1, <1>2 DEF PathsAreReal, Trail, IsPath
  <1>4. \A n \in 1 .. Len(answer') - 1 : Paths(n) = {}
    <2> SUFFICES ASSUME NEW n \in 1 .. Len(answer') - 1, NEW p \in Paths(n) PROVE FALSE
      OBVIOUS
    <2>1. n \in Nat /\ n >= 1 /\ n < Len(queue[1]) /\ n <= depth
      BY <1>1, <1>2
    <2>2. Trail(p) /\ Len(p) = n /\ Last(p) = to
      BY <2>1, AskedIsTrail
    <2> QED
      BY <2>1, <2>2 DEF PathInv, Done
  <1>5. \A n : Paths(n)' = Paths(n)
    BY <1>1 DEF Paths, IsPath
  <1> QED
    BY <1>3, <1>4, <1>5 DEF PathsAreShortest

(* An empty queue leaves no path.                                          *)
LEMMA MissIsReal ==
    ASSUME TypeInv, PathInv, NoPath PROVE (MissesAreReal /\ MissesAreFinal)'
  <1>1. queue = <<>> /\ UNCHANGED <<adj, from, to, depth, passed>> /\ depth \in Int
    BY DEF NoPath, question, TypeInv
  <1>2. \A n \in 1 .. depth : Paths(n) = {}
    <2> SUFFICES ASSUME NEW n \in 1 .. depth, NEW p \in Paths(n) PROVE FALSE
      OBVIOUS
    <2>1. n \in Nat /\ n >= 1 /\ n <= depth
      BY <1>1
    <2>2. Trail(p) /\ Len(p) = n /\ Last(p) = to
      BY <2>1, AskedIsTrail
    <2> QED
      BY <1>1, <2>1, <2>2 DEF PathInv, Done
  <1>3. \A n : Paths(n)' = Paths(n)
    BY <1>1 DEF Paths, IsPath
  <1>4. ASSUME ~passed
        PROVE  \E s \in SUBSET DOMAIN adj : from \in s /\ to \notin s /\ \A n \in s : adj[n] \subseteq s
    <2>1. \A n \in visited : Done(n)
      BY <1>1, <1>4 DEF PathInv, Queued
    <2>2. visited \subseteq DOMAIN adj /\ from \in visited
      BY DEF TypeInv, Handles, NoPath, PathInv
    <2> QED
      BY <2>1, <2>2 DEF Done
  <1>5. MissesAreReal'
    BY <1>1, <1>2, <1>3 DEF MissesAreReal
  <1> QED
    BY <1>1, <1>4, <1>5 DEF MissesAreFinal

LEMMA ResultsStay ==
    ASSUME PathResults, UNCHANGED <<adj, stage, from, to, depth, answer, passed>> PROVE PathResults'
  <1>1. \A n : Paths(n)' = Paths(n)
    BY DEF Paths, IsPath
  <1>2. (PathsAreReal /\ MissesAreFinal)'
    BY DEF PathResults, PathsAreReal, MissesAreFinal, IsPath
  <1> QED
    BY <1>1, <1>2 DEF PathResults, PathsAreShortest, MissesAreReal

LEMMA NoResults == stage' \notin {"found", "none"} => PathResults'
  BY DEF PathResults, PathsAreReal, PathsAreShortest, MissesAreReal, MissesAreFinal

LEMMA PathStep == TypeInv /\ PathSearch /\ [Next]_vars => PathSearch'
  <1> SUFFICES ASSUME TypeInv, PathSearch, [Next]_vars PROVE PathSearch'
    OBVIOUS
  <1>1. CASE AskPath
    <2>1. stage' \notin {"found", "none"}
      BY <1>1 DEF AskPath
    <2> QED
      BY <1>1, <2>1, NoResults, PathStarts DEF PathSearch
  <1>2. CASE PassOver \/ Expand
    <2>1. stage' = "path" /\ PathInv
      BY <1>2 DEF PassOver, Expand, PathSearch
    <2> QED
      BY <1>2, <2>1, NoResults, PathPassed, PathExpands DEF PathSearch
  <1>3. CASE PathFound
    <2>1. PathInv /\ stage' = "found"
      BY <1>3 DEF PathFound, PathSearch
    <2>2. MissesAreReal' /\ MissesAreFinal'
      BY <2>1 DEF MissesAreReal, MissesAreFinal
    <2> QED
      BY <1>3, <2>1, <2>2, FoundIsShortest DEF PathSearch, PathResults
  <1>4. CASE NoPath
    <2>1. PathInv /\ stage' = "none"
      BY <1>4 DEF NoPath, PathSearch
    <2>2. PathsAreReal' /\ PathsAreShortest'
      BY <2>1 DEF PathsAreReal, PathsAreShortest
    <2> QED
      BY <1>4, <2>1, <2>2, MissIsReal DEF PathSearch, PathResults
  <1>5. CASE AskCycle \/ HasCycle \/ Respond
    <2>1. stage' \notin {"path", "found", "none"}
      BY <1>5 DEF AskCycle, HasCycle, NextRoot, NextNeighbor, Leave, NoCycle, Respond
    <2> QED
      BY <2>1, NoResults DEF PathSearch
  <1>6. CASE UNCHANGED vars
    <2>1. UNCHANGED <<adj, stage, from, to, depth, queue, visited, answer, passed>>
      BY <1>6 DEF vars, question
    <2>2. PathInv => PathInv'
      BY <2>1 DEF PathInv, Trail, IsPath, Done, Queued
    <2> QED
      BY <2>1, <2>2, ResultsStay DEF PathSearch
  <1> QED
    BY <1>1, <1>2, <1>3, <1>4, <1>5, <1>6 DEF Next, FindPath

LEMMA PathInit == Init => PathSearch
  BY DEF Init, PathSearch, PathResults, PathsAreReal, PathsAreShortest, MissesAreReal, MissesAreFinal

(* FindPath finds a path of the graph from the one node to the other, no   *)
(* longer than asked for, than which none is shorter.                      *)
THEOREM FoundPathsAreShortest == Spec => []FindsShortest
  <1>1. PathSearch => FindsShortest
    BY DEF PathSearch, PathResults, FindsShortest
  <1> QED
    BY <1>1, TypeInit, PathInit, TypeStep, PathStep, PTL DEF Spec

(* Where it finds none, there is none of the length asked for; and none at *)
(* all, if it passed over none for its length.                             *)
THEOREM NoPathIsMissed == Spec => []MissesNothing
  <1>1. PathSearch => MissesNothing
    BY DEF PathSearch, PathResults, MissesNothing
  <1> QED
    BY <1>1, TypeInit, PathInit, TypeStep, PathStep, PTL DEF Spec

(***************************************************************************)
(* HasCycle.                                                               *)
(***************************************************************************)
Finished == visited \ recStack

Acyclic(s) == \A t \in SUBSET s : t # {} => \E n \in t : adj[n] \cap t = {}

(* The stack is a path of the graph and holds what recStack marks.  From   *)
(* nodes that are finished edges lead only to others, and not in circles.  *)
CycleInv ==
    /\ roots \cup visited = DOMAIN adj /\ recStack \subseteq visited
    /\ recStack = {stack[i].node : i \in 1 .. Len(stack)}
    /\ \A i, j \in 1 .. Len(stack) : stack[i].node = stack[j].node => i = j
    /\ \A i \in 1 .. Len(stack) - 1 : stack[i + 1].node \in adj[stack[i].node]
    /\ \A i \in 1 .. Len(stack) : stack[i].rest \subseteq adj[stack[i].node]
    /\ \A i \in 1 .. Len(stack) : \A n \in adj[stack[i].node] \ stack[i].rest :
          n \in Finished \/ (i < Len(stack) /\ n = stack[i + 1].node)
    /\ \A n \in Finished : adj[n] \subseteq Finished
    /\ Acyclic(Finished)

LEMMA CycleStarts == ASSUME TypeInv, AskCycle PROVE CycleInv'
  <1>1. /\ stack' = <<>> /\ visited' = {} /\ recStack' = {} /\ roots' = DOMAIN adj'
    BY DEF AskCycle, TypeInv
  <1>2. Len(stack') = 0 /\ Finished' = {} /\ \A i : i \notin 1 .. 0
    BY <1>1 DEF Finished
  <1>3. recStack' = {stack'[i].node : i \in 1 .. Len(stack')}
    BY <1>1, <1>2
  <1>4. Acyclic(Finished)'
    BY <1>2 DEF Acyclic
  <1>5. \A i : i \notin 1 .. Len(stack') /\ i \notin 1 .. Len(stack') - 1
    BY <1>2
  <1> QED
    BY <1>1, <1>2, <1>3, <1>4, <1>5 DEF CycleInv

LEMMA StackFacts ==
    ASSUME TypeInv, stage = "cycle"
    PROVE  /\ stack \in Seq(Calls(DOMAIN adj)) /\ Len(stack) \in Nat
           /\ stack = <<>> <=> Len(stack) = 0
           /\ \A i \in 1 .. Len(stack) : stack[i].node \in DOMAIN adj
           /\ stack # <<>> => Len(stack) \in 1 .. Len(stack) /\ Top = stack[Len(stack)]
  <1>1. stack \in Seq(Calls(DOMAIN adj))
    BY DEF TypeInv, Handles, Calls
  <1>2. \A c \in Calls(DOMAIN adj) : c.node \in DOMAIN adj
    BY DEF Calls
  <1> QED
    BY <1>1, <1>2 DEF Top

(* A node is entered from the call at the top, or from HasCycle.           *)
LEMMA CycleEnters ==
    ASSUME TypeInv, CycleInv, stage = "cycle", NEW n \in DOMAIN adj \ visited,
           NEW st \in Seq(Calls(DOMAIN adj)), Enter(st, n), adj' = adj,
           roots' \cup {n} = roots \cup {n},
           \/ st = <<>> /\ stack = <<>>
           \/ st = Taken(n) /\ stack # <<>> /\ n \in Top.rest
    PROVE  CycleInv'
  <1>1. /\ Len(stack) \in Nat /\ (stack = <<>> <=> Len(stack) = 0)
        /\ stack # <<>> => Len(stack) \in 1 .. Len(stack) /\ Top = stack[Len(stack)]
    BY StackFacts
  <1>2. PICK k \in Nat : k = Len(stack)
    BY <1>1
  <1>3. /\ Len(stack') = k + 1 /\ stack'[k + 1].node = n /\ stack'[k + 1].rest = adj[n]
        /\ \A i \in 1 .. k : stack'[i] = st[i]
        /\ visited' = visited \cup {n} /\ recStack' = recStack \cup {n}
    <2>1. Len(st) = k
      BY <1>1, <1>2, StackFacts, TakenEffect
    <2>2. /\ Len(stack') = Len(st) + 1 /\ \A i \in 1 .. Len(st) : stack'[i] = st[i]
          /\ stack'[Len(st) + 1] = [node |-> n, rest |-> adj[n]]
          /\ visited' = visited \cup {n} /\ recStack' = recStack \cup {n}
      BY EnterEffect
    <2> QED
      BY <2>1, <2>2
  <1>4. \A i \in 1 .. k : /\ stack'[i].node = stack[i].node
                          /\ stack'[i].rest = IF i = k THEN stack[i].rest \ {n} ELSE stack[i].rest
    <2>1. CASE k = 0
      BY <2>1
    <2>2. CASE k # 0
      <3>1. /\ st = Taken(n) /\ \A i \in 1 .. k - 1 : st[i] = stack[i]
            /\ st[k].node = stack[k].node /\ st[k].rest = stack[k].rest \ {n}
        BY <1>1, <1>2, <2>2, StackFacts, TakenEffect
      <3> TAKE i \in 1 .. k
      <3>2. stack'[i] = st[i] /\ (i \in 1 .. k - 1 \/ i = k)
        BY <1>3
      <3> QED
        BY <1>2, <3>1, <3>2
    <2> QED
      BY <2>1, <2>2
  <1>5. Finished' = Finished
    BY <1>3 DEF Finished, CycleInv
  <1>6. roots' \cup visited' = DOMAIN adj' /\ recStack' \subseteq visited'
    BY <1>3 DEF CycleInv
  <1>7. recStack' = {stack'[i].node : i \in 1 .. Len(stack')}
    <2>1. recStack = {stack[i].node : i \in 1 .. k}
      BY <1>2 DEF CycleInv
    <2>2. {stack'[i].node : i \in 1 .. k + 1} = {stack'[i].node : i \in 1 .. k} \cup {n}
      <3>1. 1 .. k + 1 = (1 .. k) \cup {k + 1}
        OBVIOUS
      <3> QED
        BY <1>3, <3>1
    <2>3. {stack'[i].node : i \in 1 .. k} = {stack[i].node : i \in 1 .. k}
      BY <1>4
    <2> QED
      BY <1>3, <2>1, <2>2, <2>3
  <1>8. \A i \in 1 .. k : stack[i].node # n
    BY <1>2 DEF CycleInv
  <1>9. \A i, j \in 1 .. Len(stack') : stack'[i].node = stack'[j].node => i = j
    <2> SUFFICES ASSUME NEW i \in 1 .. k + 1, NEW j \in 1 .. k + 1, stack'[i].node = stack'[j].node
                 PROVE  i = j
      BY <1>3
    <2>1. CASE i \in 1 .. k /\ j \in 1 .. k
      BY <1>2, <1>4, <2>1 DEF CycleInv
    <2>2. CASE i = k + 1 \/ j = k + 1
      <3>1. i \in 1 .. k \/ i = k + 1
        OBVIOUS
      <3>2. j \in 1 .. k \/ j = k + 1
        OBVIOUS
      <3> QED
        BY <1>3, <1>4, <1>8, <2>2, <3>1, <3>2
    <2> QED
      BY <2>1, <2>2
  <1>10. \A i \in 1 .. Len(stack') - 1 : stack'[i + 1].node \in adj'[stack'[i].node]
    <2> TAKE i \in 1 .. Len(stack') - 1
    <2>0. i \in 1 .. k
      BY <1>2, <1>3
    <2>3. stack'[i].node = stack[i].node
      BY <1>4, <2>0
    <2> SUFFICES stack'[i + 1].node \in adj[stack[i].node]
      BY <2>3
    <2>1. CASE i = k
      <3>1. stack # <<>> /\ n \in stack[k].rest /\ k \in 1 .. Len(stack)
        BY <1>1, <1>2, <2>1
      <3> QED
        BY <1>3, <2>1, <3>1 DEF CycleInv
    <2>2. CASE i # k
      <3>1. i + 1 \in 1 .. k /\ i \in 1 .. Len(stack) - 1
        BY <1>2, <2>0, <2>2
      <3> QED
        BY <1>4, <3>1 DEF CycleInv
    <2> QED
      BY <2>1, <2>2, <2>3
  <1>11. \A i \in 1 .. Len(stack') : i \in 1 .. k \/ i = k + 1
    BY <1>3
  <1>12. \A i \in 1 .. Len(stack') : stack'[i].rest \subseteq adj'[stack'[i].node]
    <2> TAKE i \in 1 .. Len(stack')
    <2>1. CASE i \in 1 .. k
      <3>1. stack'[i].node = stack[i].node /\ stack'[i].rest \subseteq stack[i].rest
        BY <1>4, <2>1
      <3>2. stack[i].rest \subseteq adj[stack[i].node]
        BY <1>2, <2>1 DEF CycleInv
      <3> QED
        BY <3>1, <3>2
    <2>2. CASE i = k + 1
      <3>1. stack'[i].rest = adj[stack'[i].node]
        BY <1>3, <2>2
      <3> QED
        BY <3>1
    <2> QED
      BY <1>11, <2>1, <2>2
  <1>13. \A i \in 1 .. Len(stack') : \A x \in adj'[stack'[i].node] \ stack'[i].rest :
            x \in Finished' \/ (i < Len(stack') /\ x = stack'[i + 1].node)
    <2> TAKE i \in 1 .. Len(stack')
    <2> TAKE x \in adj'[stack'[i].node] \ stack'[i].rest
    <2>0. i # k + 1
      BY <1>3
    <2>3. i \in 1 .. k /\ i < Len(stack') /\ x \in adj[stack[i].node] \ stack'[i].rest
      <3>1. i \in 1 .. k
        BY <1>11, <2>0
      <3>2. i < Len(stack')
        BY <1>2, <1>3, <3>1
      <3> QED
        BY <1>4, <3>1, <3>2
    <2> SUFFICES ASSUME x \notin Finished PROVE x = stack'[i + 1].node
      BY <1>5, <2>3
    <2>1. CASE x = n /\ i = k
      BY <1>3, <2>1
    <2>2. CASE x \notin stack[i].rest
      <3>1. i < Len(stack) /\ x = stack[i + 1].node
        BY <1>2, <2>2, <2>3 DEF CycleInv
      <3>2. i + 1 \in 1 .. k
        BY <1>2, <2>3, <3>1
      <3> QED
        BY <1>4, <3>1, <3>2
    <2> QED
      BY <1>4, <2>1, <2>2, <2>3
  <1>14. (\A x \in Finished' : adj'[x] \subseteq Finished') /\ Acyclic(Finished)'
    BY <1>5 DEF CycleInv, Acyclic
  <1> QED
    BY <1>6, <1>7, <1>9, <1>10, <1>12, <1>13, <1>14 DEF CycleInv

(* A neighbor that is finished is done with.                               *)
LEMMA CycleSkips ==
    ASSUME TypeInv, CycleInv, stage = "cycle", stack # <<>>, NEW n \in Finished,
           stack' = Taken(n), UNCHANGED <<adj, roots, visited, recStack>>
    PROVE  CycleInv'
  <1>1. PICK k \in Nat : k = Len(stack) /\ k \in 1 .. k /\ Top = stack[k]
    BY StackFacts
  <1>2. Len(stack') = k
    BY <1>1, StackFacts, TakenEffect
  <1>3. \A i \in 1 .. k : /\ stack'[i].node = stack[i].node
                          /\ stack'[i].rest = IF i = k THEN stack[i].rest \ {n} ELSE stack[i].rest
    <2>1. /\ \A i \in 1 .. k - 1 : stack'[i] = stack[i]
          /\ stack'[k].node = stack[k].node /\ stack'[k].rest = stack[k].rest \ {n}
      BY <1>1, StackFacts, TakenEffect
    <2> TAKE i \in 1 .. k
    <2>2. CASE i = k
      BY <2>1, <2>2
    <2>3. CASE i \in 1 .. k - 1
      BY <1>1, <2>1, <2>3
    <2> QED
      BY <1>1, <2>2, <2>3
  <1>4. Finished' = Finished
    BY DEF Finished
  <1>5. /\ roots' \cup visited' = DOMAIN adj' /\ recStack' \subseteq visited'
        /\ \A x \in Finished' : adj'[x] \subseteq Finished'
        /\ Acyclic(Finished)'
    BY <1>4 DEF CycleInv, Acyclic
  <1>6. recStack' = {stack'[i].node : i \in 1 .. Len(stack')}
    <2>1. {stack'[i].node : i \in 1 .. k} = {stack[i].node : i \in 1 .. k}
      BY <1>3
    <2> QED
      BY <1>1, <1>2, <2>1 DEF CycleInv
  <1>7. \A i, j \in 1 .. Len(stack') : stack'[i].node = stack'[j].node => i = j
    BY <1>1, <1>2, <1>3 DEF CycleInv
  <1>8. \A i \in 1 .. Len(stack') - 1 : stack'[i + 1].node \in adj'[stack'[i].node]
    <2> TAKE i \in 1 .. Len(stack') - 1
    <2>1. i \in 1 .. k /\ i + 1 \in 1 .. k /\ i \in 1 .. Len(stack) - 1
      BY <1>1, <1>2
    <2> QED
      BY <1>3, <2>1 DEF CycleInv
  <1>9. \A i \in 1 .. Len(stack') : stack'[i].rest \subseteq adj'[stack'[i].node]
    <2> TAKE i \in 1 .. Len(stack')
    <2>1. i \in 1 .. k
      BY <1>2
    <2>2. stack'[i].node = stack[i].node /\ stack'[i].rest \subseteq stack[i].rest
      BY <1>3, <2>1
    <2>3. stack[i].rest \subseteq adj[stack[i].node]
      BY <1>1, <2>1 DEF CycleInv
    <2> QED
      BY <2>2, <2>3
  <1>10. \A i \in 1 .. Len(stack') : \A x \in adj'[stack'[i].node] \ stack'[i].rest :
            x \in Finished' \/ (i < Len(stack') /\ x = stack'[i + 1].node)
    <2> TAKE i \in 1 .. Len(stack')
    <2> TAKE x \in adj'[stack'[i].node] \ stack'[i].rest
    <2>3. i \in 1 .. k /\ i \in 1 .. Len(stack)
      BY <1>1, <1>2
    <2>4. x \in adj[stack[i].node] /\ (x \in stack[i].rest => x = n)
      BY <1>3, <2>3
    <2> SUFFICES ASSUME x \notin Finished PROVE i < k /\ x = stack'[i + 1].node
      BY <1>2, <1>4
    <2>1. i < k /\ x = stack[i + 1].node
      BY <1>1, <2>3, <2>4 DEF CycleInv
    <2>2. i + 1 \in 1 .. k
      BY <2>1, <2>3
    <2> QED
      BY <1>3, <2>1, <2>2
  <1> QED
    BY <1>5, <1>6, <1>7, <1>8, <1>9, <1>10 DEF CycleInv

LEMMA AcyclicMore ==
    ASSUME NEW s, NEW m, Acyclic(s), \A n \in s : adj[n] \subseteq s, adj[m] \subseteq s, m \notin s
    PROVE  Acyclic(s \cup {m})
  <1> SUFFICES ASSUME NEW t \in SUBSET (s \cup {m}), t # {} PROVE \E n \in t : adj[n] \cap t = {}
    BY DEF Acyclic
  <1>1. CASE t \ {m} = {}
    BY <1>1
  <1>2. CASE t \ {m} # {}
    <2>1. t \ {m} \in SUBSET s
      OBVIOUS
    <2>2. PICK n \in t \ {m} : adj[n] \cap (t \ {m}) = {}
      BY <1>2, <2>1 DEF Acyclic
    <2> QED
      BY <2>1, <2>2
  <1> QED
    BY <1>1, <1>2

LEMMA CycleLeaves ==
    ASSUME TypeInv, CycleInv, Leave PROVE CycleInv'
  <1>1. /\ stage = "cycle" /\ stack # <<>> /\ Top.rest = {} /\ stack' = Popped
        /\ recStack' = recStack \ {Top.node} /\ UNCHANGED <<adj, roots, visited>>
    BY DEF Leave, Unmarked
  <1>2. PICK k \in Nat : k = Len(stack) /\ k \in 1 .. k /\ Top = stack[k]
    BY <1>1, StackFacts
  <1>3. Len(stack') = k - 1 /\ \A i \in 1 .. k - 1 : stack'[i] = stack[i]
    BY <1>1, <1>2, StackFacts, StackParts DEF Popped
  <1>4. PICK m : m = Top.node
    OBVIOUS
  <1>5. m \in recStack /\ adj[m] \subseteq Finished /\ m \notin Finished /\ m \in visited
    BY <1>1, <1>2, <1>4 DEF CycleInv, Finished
  <1>6. Finished' = Finished \cup {m}
    BY <1>1, <1>4, <1>5 DEF Finished
  <1>7. roots' \cup visited' = DOMAIN adj' /\ recStack' \subseteq visited'
    BY <1>1 DEF CycleInv
  <1>8. recStack' = {stack'[i].node : i \in 1 .. Len(stack')}
    <2>1. recStack = {stack[i].node : i \in 1 .. k}
      BY <1>2 DEF CycleInv
    <2>2. \A i \in 1 .. k - 1 : stack[i].node # m
      <3> TAKE i \in 1 .. k - 1
      <3>1. i \in 1 .. Len(stack) /\ k \in 1 .. Len(stack) /\ i # k
        BY <1>2
      <3> QED
        BY <1>2, <1>4, <3>1 DEF CycleInv
    <2>3. {stack'[i].node : i \in 1 .. k - 1} = {stack[i].node : i \in 1 .. k - 1}
      BY <1>3
    <2>4. 1 .. k = (1 .. k - 1) \cup {k}
      BY <1>2
    <2> QED
      BY <1>1, <1>2, <1>3, <1>4, <2>1, <2>2, <2>3, <2>4
  <1>9. \A i, j \in 1 .. Len(stack') : stack'[i].node = stack'[j].node => i = j
    BY <1>2, <1>3 DEF CycleInv
  <1>10. \A i \in 1 .. Len(stack') - 1 : stack'[i + 1].node \in adj'[stack'[i].node]
    <2> TAKE i \in 1 .. Len(stack') - 1
    <2>1. i \in 1 .. k - 1 /\ i + 1 \in 1 .. k - 1 /\ i \in 1 .. Len(stack) - 1
      BY <1>2, <1>3
    <2> QED
      BY <1>1, <1>3, <2>1 DEF CycleInv
  <1>11. \A i \in 1 .. Len(stack') : stack'[i].rest \subseteq adj'[stack'[i].node]
    BY <1>1, <1>2, <1>3 DEF CycleInv
  <1>12. \A i \in 1 .. Len(stack') : \A x \in adj'[stack'[i].node] \ stack'[i].rest :
            x \in Finished' \/ (i < Len(stack') /\ x = stack'[i + 1].node)
    <2> SUFFICES ASSUME NEW i \in 1 .. k - 1, NEW x \in adj[stack[i].node] \ stack[i].rest,
                        x \notin Finished, x # m
                 PROVE  i < k - 1 /\ x = stack'[i + 1].node
      BY <1>1, <1>3, <1>6
    <2>1. i \in 1 .. Len(stack)
      BY <1>2
    <2>2. x = stack[i + 1].node
      BY <2>1 DEF CycleInv
    <2>3. i + 1 # k
      BY <1>2, <1>4, <2>2
    <2>4. i + 1 \in 1 .. k - 1
      BY <1>2, <2>3
    <2> QED
      BY <1>3, <2>2, <2>4
  <1>13. \A x \in Finished' : adj'[x] \subseteq Finished'
    BY <1>1, <1>5, <1>6 DEF CycleInv
  <1>14. Acyclic(Finished)'
    <2>1. Acyclic(Finished \cup {m})
      BY <1>5, AcyclicMore DEF CycleInv
    <2> QED
      BY <1>1, <1>6, <2>1 DEF Acyclic
  <1> QED
    BY <1>7, <1>8, <1>9, <1>10, <1>11, <1>12, <1>13, <1>14 DEF CycleInv

(* A marked neighbor closes a cycle: the calls from its own upwards.       *)
LEMMA MarkedMeansCycle ==
    ASSUME TypeInv, CycleInv, stage = "cycle", stack # <<>>, NEW n \in Top.rest, n \in recStack
    PROVE  Cyclic
  <1>1. PICK k \in Nat : k = Len(stack) /\ k \in 1 .. k /\ Top = stack[k]
    BY StackFacts
  <1>2. PICK j \in 1 .. k : stack[j].node = n
    BY <1>1 DEF CycleInv
  <1> DEFINE s == {stack[i].node : i \in j .. k}
  <1>3. s \in SUBSET DOMAIN adj /\ n \in s
    BY <1>1, <1>2, StackFacts
  <1>4. ASSUME NEW i \in j .. k PROVE adj[stack[i].node] \cap s # {}
    <2>1. CASE i = k
      BY <1>1, <1>3, <2>1 DEF CycleInv
    <2>2. CASE i # k
      <3>1. i + 1 \in j .. k /\ i \in 1 .. Len(stack) - 1
        BY <1>1, <2>2
      <3>2. stack[i + 1].node \in s /\ stack[i + 1].node \in adj[stack[i].node]
        BY <3>1 DEF CycleInv
      <3> QED
        BY <3>2
    <2> QED
      BY <2>1, <2>2
  <1>5. \A m \in s : adj[m] \cap s # {}
    <2> TAKE m \in s
    <2>1. PICK i \in j .. k : m = stack[i].node
      OBVIOUS
    <2> HIDE DEF s
    <2> QED
      BY <1>4, <2>1
  <1> HIDE DEF s
  <1> QED
    BY <1>3, <1>5 DEF Cyclic

CycleSearch == (stage = "cycle" => CycleInv) /\ CyclesAreFound

LEMMA CycleStep == TypeInv /\ CycleSearch /\ [Next]_vars => CycleSearch'
  <1> SUFFICES ASSUME TypeInv, CycleSearch, [Next]_vars PROVE CycleSearch'
    OBVIOUS
  <1>1. CASE AskCycle
    <2>1. stage' = "cycle"
      BY <1>1 DEF AskCycle
    <2> QED
      BY <1>1, <2>1, CycleStarts DEF CycleSearch, CyclesAreFound
  <1>2. CASE AskPath \/ FindPath \/ Respond
    <2>1. stage' \notin {"cycle", "cycleAnswered"}
      BY <1>2 DEF AskPath, FindPath, PassOver, PathFound, Expand, NoPath, Respond
    <2> QED
      BY <2>1 DEF CycleSearch, CyclesAreFound
  <1>3. CASE NextRoot
    <2>1. PICK n \in roots : /\ roots' = roots \ {n}
                             /\ IF n \in visited THEN UNCHANGED <<stack, visited, recStack>>
                                                 ELSE Enter(stack, n)
      BY <1>3 DEF NextRoot
    <2>2. /\ stage = "cycle" /\ stage' = "cycle" /\ stack = <<>> /\ adj' = adj /\ CycleInv
          /\ n \in DOMAIN adj /\ stack \in Seq(Calls(DOMAIN adj))
      BY <1>3, StackFacts DEF NextRoot, CycleSearch, CycleInv
    <2>3. CASE n \in visited
      <3>1. roots' \cup visited = roots \cup visited /\ UNCHANGED <<adj, stack, visited, recStack>>
        BY <2>1, <2>2, <2>3
      <3>2. Finished' = Finished /\ Acyclic(Finished)' = Acyclic(Finished)
        BY <3>1 DEF Finished, Acyclic
      <3>3. roots' \cup visited' = DOMAIN adj' /\ recStack' \subseteq visited'
        BY <2>2, <3>1 DEF CycleInv
      <3>4. CycleInv'
        BY <2>2, <3>1, <3>2, <3>3 DEF CycleInv
      <3> QED
        BY <2>2, <3>4 DEF CycleSearch, CyclesAreFound
    <2>4. CASE n \notin visited
      <3>1. Enter(stack, n) /\ roots' \cup {n} = roots \cup {n}
        BY <2>1, <2>4
      <3>2. CycleInv'
        BY <2>2, <2>4, <3>1, CycleEnters
      <3> QED
        BY <2>2, <3>2 DEF CycleSearch, CyclesAreFound
    <2> QED
      BY <2>3, <2>4
  <1>4. CASE NextNeighbor
    <2>1. PICK n \in Top.rest :
             \/ n \notin visited /\ Enter(Taken(n), n) /\ stage' = stage
             \/ n \in visited \cap recStack /\ stage' = "cycleAnswered" /\ answer' = <<n>>
             \/ n \in visited \ recStack /\ stack' = Taken(n) /\ UNCHANGED <<stage, visited, recStack>>
      BY <1>4 DEF NextNeighbor, Taken
    <2>2. stage = "cycle" /\ stack # <<>> /\ adj' = adj /\ roots' = roots /\ CycleInv
      BY <1>4 DEF NextNeighbor, CycleSearch
    <2>3. n \in DOMAIN adj /\ Taken(n) \in Seq(Calls(DOMAIN adj))
      <3>1. stack \in Seq(Calls(DOMAIN adj)) /\ Top \in Calls(DOMAIN adj)
        BY <2>2, StackFacts, StackParts DEF Top
      <3> QED
        BY <2>2, <3>1, TakenEffect DEF Calls
    <2>4. CASE n \notin visited /\ Enter(Taken(n), n) /\ stage' = stage
      <3>1. CycleInv'
        BY <2>2, <2>3, <2>4, CycleEnters
      <3> QED
        BY <2>2, <2>4, <3>1 DEF CycleSearch, CyclesAreFound
    <2>5. CASE n \in visited \cap recStack /\ stage' = "cycleAnswered" /\ answer' = <<n>>
      <3>1. Cyclic /\ answer' # <<>>
        BY <2>2, <2>5, MarkedMeansCycle
      <3> QED
        BY <2>2, <2>5, <3>1 DEF CycleSearch, CyclesAreFound, Cyclic
    <2>6. CASE n \in visited \ recStack /\ stack' = Taken(n) /\ UNCHANGED <<stage, visited, recStack>>
      <3>1. CycleInv'
        BY <2>2, <2>6, CycleSkips DEF Finished
      <3> QED
        BY <2>2, <2>6, <3>1 DEF CycleSearch, CyclesAreFound
    <2> QED
      BY <2>1, <2>4, <2>5, <2>6
  <1>5. CASE Leave
    <2>1. stage = "cycle" /\ stage' = "cycle" /\ CycleInv
      BY <1>5 DEF Leave, CycleSearch
    <2> QED
      BY <1>5, <2>1, CycleLeaves DEF CycleSearch, CyclesAreFound
  <1>6. CASE NoCycle
    <2>1. stage' = "cycleAnswered" /\ answer' = <<>> /\ adj' = adj /\ stack = <<>> /\ roots = {} /\ CycleInv
      BY <1>6 DEF NoCycle, CycleSearch
    <2>2. Finished = DOMAIN adj
      BY <2>1 DEF CycleInv, Finished
    <2>3. ~Cyclic
      BY <2>1, <2>2 DEF CycleInv, Acyclic, Cyclic
    <2> QED
      BY <2>1, <2>3 DEF CycleSearch, CyclesAreFound, Cyclic
  <1>7. CASE UNCHANGED vars
    <2>1. UNCHANGED <<adj, stage, answer, roots, visited, stack, recStack>>
      BY <1>7 DEF vars, calls
    <2> QED
      BY <2>1 DEF CycleSearch, CycleInv, Finished, Acyclic, CyclesAreFound, Cyclic
  <1> QED
    BY <1>1, <1>2, <1>3, <1>4, <1>5, <1>6, <1>7 DEF Next, HasCycle

LEMMA CycleInit == Init => CycleSearch
  BY DEF Init, CycleSearch, CyclesAreFound

(* HasCycle is right.                                                      *)
THEOREM CyclesAreDecided == Spec => []CyclesAreFound
  <1>1. CycleSearch => CyclesAreFound
    BY DEF CycleSearch
  <1> QED
    BY <1>1, TypeInit, CycleInit, TypeStep, CycleStep, PTL DEF Spec

(***************************************************************************)
(* Progress.                                                               *)
(***************************************************************************)
(* A node that is new is one fewer to come across.                         *)
LEMMA Met ==
    ASSUME NEW n \in DOMAIN adj \ visited, n \in visited', visited \subseteq visited', adj' = adj
    PROVE  Fewer(Unseen', Unseen)
  BY DEF Fewer, Unseen

LEMMA PathNearer ==
    ASSUME TypeInv, FindPath, stage' = "path" PROVE adj' = adj /\ Nearer
  <1>1. stage = "path" /\ Handles(DOMAIN adj)
    BY DEF FindPath, PassOver, PathFound, Expand, NoPath, TypeInv
  <1>2. queue \in Seq(Seq(DOMAIN adj) \ {<<>>})
    BY <1>1 DEF Handles
  <1>3. CASE PassOver
    <2>1. queue' = Tail(queue) /\ queue # <<>> /\ UNCHANGED <<adj, visited>>
      BY <1>3 DEF PassOver
    <2>2. Len(queue') = Len(queue) - 1 /\ Len(queue) \in Nat
      BY <1>2, <2>1, QueueParts
    <2>3. Len(queue') < Len(queue)
      BY <2>2
    <2> QED
      BY <1>1, <2>1, <2>3 DEF Nearer, Unseen
  <1>4. CASE Expand
    <2> DEFINE m   == Last(queue[1])
               new == adj[m] \ visited
    <2>1. adj' = adj /\ m \in DOMAIN adj /\ visited' = visited \cup adj[m]
      BY <1>4, ExpandEffect DEF Expand
    <2>2. CASE new # {}
      <3>1. PICK n \in new : n \in DOMAIN adj
        BY <2>1, <2>2, GraphFacts
      <3> QED
        BY <2>1, <3>1, Met DEF Nearer
    <2>3. CASE new = {}
      <3>1. visited' = visited
        BY <2>1, <2>3
      <3>2. queue # <<>> /\ Head(queue) = queue[1] /\ Len(queue) \in Nat
            /\ Tail(queue) \in Seq(Seq(DOMAIN adj) \ {<<>>}) /\ Len(Tail(queue)) = Len(queue) - 1
        <4>1. queue # <<>>
          BY <1>4 DEF Expand
        <4> HIDE DEF m, new
        <4> QED
          BY <1>2, <4>1, QueueParts
      <3>3. PICK o \in Orders(new) : queue' = Tail(queue) \o Extended(queue[1], o)
        BY <1>4, <3>2 DEF Expand, Enqueued
      <3>4. Extended(queue[1], o) = <<>>
        <4>1. Cardinality(new) = 0
          BY <2>3, FS_EmptySet
        <4>2. DOMAIN o = {}
          BY <3>3, <4>1 DEF Orders
        <4> QED
          BY <4>2 DEF Extended
      <3>5. queue' = Tail(queue)
        BY <3>2, <3>3, <3>4
      <3> QED
        BY <1>1, <2>1, <3>1, <3>2, <3>5 DEF Nearer, Unseen
    <2> QED
      BY <2>2, <2>3
  <1> QED
    BY <1>3, <1>4 DEF FindPath, PathFound, NoPath

LEMMA CycleNearer ==
    ASSUME TypeInv, HasCycle, stage' = "cycle" PROVE adj' = adj /\ Nearer
  <1> DEFINE D == DOMAIN adj
  <1>1. stage = "cycle" /\ adj' = adj /\ Handles(D)
    BY DEF HasCycle, NextRoot, NextNeighbor, Leave, NoCycle, TypeInv
  <1>2. stack \in Seq(Calls(D)) /\ roots \subseteq D
    BY <1>1 DEF Handles, Calls
  <1>3. ASSUME NEW n \in D \ visited, NEW st \in Seq(Calls(D)), Enter(st, n) PROVE Nearer
    <2>1. visited' = visited \cup {n}
      BY <1>3 DEF Enter
    <2> QED
      BY <1>1, <2>1, Met DEF Nearer
  <1>4. CASE NextRoot
    <2>1. PICK n \in roots : /\ roots' = roots \ {n}
                             /\ IF n \in visited THEN UNCHANGED <<stack, visited, recStack>>
                                                 ELSE Enter(stack, n)
      BY <1>4 DEF NextRoot
    <2>2. CASE n \in visited
      <3>1. Fewer(roots', roots) /\ visited' = visited
        BY <2>1, <2>2 DEF Fewer
      <3> QED
        BY <1>1, <3>1 DEF Nearer, Unseen
    <2>3. CASE n \notin visited
      BY <1>1, <1>2, <1>3, <2>1, <2>3
    <2> QED
      BY <1>1, <2>2, <2>3
  <1>5. CASE NextNeighbor
    <2>1. PICK n \in Top.rest :
             \/ n \notin visited /\ Enter(Taken(n), n)
             \/ stage' = "cycleAnswered"
             \/ stack' = Taken(n) /\ visited' = visited
      BY <1>5 DEF NextNeighbor, Taken
    <2>2. stack # <<>> /\ roots' = roots
      BY <1>5 DEF NextNeighbor
    <2>3. /\ n \in D /\ Taken(n) \in Seq(Calls(D)) /\ Len(Taken(n)) = Len(stack)
          /\ Taken(n)[Len(stack)].rest = Top.rest \ {n}
      <3>1. Top \in Calls(D)
        BY <1>2, <2>2, StackParts DEF Top
      <3>2. n \in D
        BY <2>1, <3>1 DEF Calls
      <3> QED
        BY <1>2, <2>2, <3>2, TakenEffect
    <2>4. CASE n \notin visited /\ Enter(Taken(n), n)
      BY <1>1, <1>3, <2>3, <2>4
    <2>5. CASE stack' = Taken(n) /\ visited' = visited
      <3>1. Len(stack') = Len(stack) /\ Top'.rest = Top.rest \ {n}
        BY <2>3, <2>5 DEF Top
      <3>2. Fewer(Top'.rest, Top.rest)
        BY <2>1, <3>1 DEF Fewer
      <3> QED
        BY <1>1, <2>2, <2>5, <3>1, <3>2 DEF Nearer, Unseen
    <2> QED
      BY <1>1, <2>1, <2>4, <2>5
  <1>6. CASE Leave
    <2>1. stack # <<>> /\ stack' = Popped /\ UNCHANGED <<visited, roots>>
      BY <1>6 DEF Leave
    <2>2. Len(stack) \in Nat /\ Len(stack') = Len(stack) - 1
      BY <1>2, <2>1, StackParts DEF Popped
    <2>3. Len(stack') < Len(stack)
      BY <2>2
    <2> QED
      BY <1>1, <2>1, <2>3 DEF Nearer, Unseen
  <1> QED
    BY <1>1, <1>4, <1>5, <1>6 DEF HasCycle, NoCycle

LEMMA ProgressStep ==
    TypeInv /\ [Next]_vars =>
        [stage' = stage /\ stage \in {"path", "cycle"} => adj' = adj /\ Nearer]_vars
  <1> SUFFICES ASSUME TypeInv, Next, stage' = stage, stage \in {"path", "cycle"}
               PROVE  adj' = adj /\ Nearer
    OBVIOUS
  <1>1. CASE FindPath
    <2>1. stage = "path"
      BY <1>1 DEF FindPath, PassOver, PathFound, Expand, NoPath
    <2> QED
      BY <1>1, <2>1, PathNearer
  <1>2. CASE HasCycle
    <2>1. stage = "cycle"
      BY <1>2 DEF HasCycle, NextRoot, NextNeighbor, Leave, NoCycle
    <2> QED
      BY <1>2, <2>1, CycleNearer
  <1> QED
    BY <1>1, <1>2 DEF Next, AskPath, AskCycle, Respond

(* Every step of FindPath and of HasCycle brings the search nearer its     *)
(* end: all that SearchesEnd adds is that the goroutine goes on running.   *)
THEOREM SearchesComeNearer == Spec => SearchesProgress
  BY TypeInit, TypeStep, ProgressStep, PTL DEF Spec, SearchesProgress
==============================================================================
