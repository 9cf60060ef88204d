------------------------------ MODULE GraphFile ------------------------------
(***************************************************************************)
(* How IndexedGraph.Save replaces the graph's file: under the read lock,   *)
(* which any number of goroutines hold at once, it creates or truncates    *)
(* the one temporary file, writes the text of the graph through a          *)
(* bufio.Writer, buffer by buffer, and renames the file.  Every request    *)
(* that writes a document saves the graph, all of them to one path.        *)
(***************************************************************************)
EXTENDS Naturals, FiniteSets

CONSTANTS
    Savers,     \* goroutines that call Save
    Buffers,    \* how many buffers the text of the graph fills
    Inodes,     \* files the file system can hold
    NoInode,    \* the name does not exist
    Hole,       \* nothing was written here since the file was truncated
    MaxVersion  \* bound: how often the graph changes

ASSUME TextHasBuffers == Buffers \in Nat \ {0}

ASSUME NamesAndHoles == NoInode \notin Inodes /\ Hole \notin Nat \X Savers

ASSUME ChangesAreBounded == MaxVersion \in Nat

VARIABLES
    version,    \* which graph adjacency holds
    tmp, data,  \* what graph.data.tmp and graph.data name
    text,       \* per inode and buffer, whose text of which graph it holds
    pc,         \* per saver, the next step
    handle,     \* per saver, the file it has open
    pos,        \* per saver, the next buffer
    met         \* history: savers whose Save runs, or ran, beside another one

vars == <<version, tmp, data, text, pc, handle, pos, met>>

(* Two texts of one graph differ: each saver walks the maps in an order of *)
(* its own.                                                                *)
Texts == Nat \X Savers

Nothing == [b \in 1 .. Buffers |-> Hole]

TypeOK ==
    /\ version \in 0 .. MaxVersion
    /\ tmp \in Inodes \cup {NoInode} /\ data \in Inodes \cup {NoInode}
    /\ text \in [Inodes -> [1 .. Buffers -> Texts \cup {Hole}]]
    /\ pc \in [Savers -> {"idle", "create", "write", "rename"}]
    /\ handle \in [Savers -> Inodes \cup {NoInode}]
    /\ pos \in [Savers -> 1 .. Buffers + 1]
    /\ met \subseteq Savers
    /\ \A s \in Savers : pc[s] = "write" => handle[s] \in Inodes /\ pos[s] \in 1 .. Buffers

Init == /\ version = 0
        /\ tmp = NoInode /\ data = NoInode
        /\ text = [i \in Inodes |-> Nothing]
        /\ pc = [s \in Savers |-> "idle"]
        /\ handle = [s \in Savers |-> NoInode]
        /\ pos = [s \in Savers |-> 1]
        /\ met = {}

(* Files that have a name or are open.  The others are gone.               *)
Alive == {tmp, data} \cup {handle[s] : s \in Savers}

Collect == text' = [i \in Inodes |-> IF i \in Alive' THEN text[i] ELSE Nothing]

(* Fault: the graph changes while it is saved.                             *)
ChangeUnlocked == /\ version < MaxVersion
                  /\ version' = version + 1
                  /\ UNCHANGED <<tmp, data, text, pc, handle, pos, met>>

(* AddNode, AddEdge, RemoveNode and the like, under the write lock.        *)
Change == /\ version < MaxVersion
          /\ \A s \in Savers : pc[s] = "idle"
          /\ version' = version + 1
          /\ UNCHANGED <<tmp, data, text, pc, handle, pos, met>>

Busy == {s \in Savers : pc[s] # "idle"}

(* RLock, which lets any number of savers in.                              *)
Begin(s) == /\ pc[s] = "idle"
            /\ met' = IF Busy = {} THEN met \ {s} ELSE met \cup Busy \cup {s}
            /\ pc' = [pc EXCEPT ![s] = "create"]
            /\ UNCHANGED <<version, tmp, data, text, handle, pos>>

(* os.Create.                                                              *)
Create(s) ==
    /\ pc[s] = "create"
    /\ \E i \in IF tmp = NoInode THEN Inodes \ Alive ELSE {tmp} :
          /\ tmp' = i
          /\ text' = [text EXCEPT ![i] = Nothing]
          /\ handle' = [handle EXCEPT ![s] = i]
    /\ pc' = [pc EXCEPT ![s] = "write"]
    /\ UNCHANGED <<version, data, pos, met>>

(* Fault: the last buffer is not flushed before the rename.                *)
LastUnflushed == IF Buffers = 1 THEN 1 ELSE Buffers - 1

(* Fault: one buffer more than the text has.                               *)
OnePast == Buffers + 1

LastWritten == Buffers

(* The file takes a buffer, at the place this saver has reached.           *)
Write(s) ==
    /\ pc[s] = "write"
    /\ text' = [text EXCEPT ![handle[s]][pos[s]] = <<version, s>>]
    /\ IF pos[s] = LastWritten
       THEN pc' = [pc EXCEPT ![s] = "rename"] /\ UNCHANGED pos
       ELSE pos' = [pos EXCEPT ![s] = @ + 1] /\ UNCHANGED pc
    /\ UNCHANGED <<version, tmp, data, handle, met>>

Leave(s) == /\ pc' = [pc EXCEPT ![s] = "idle"]
            /\ handle' = [handle EXCEPT ![s] = NoInode]
            /\ pos' = [pos EXCEPT ![s] = 1]

(* os.Rename moves what bears the temporary name now; it fails when        *)
(* another Save has renamed it.  Then Close and RUnlock.                   *)
Rename(s) ==
    /\ pc[s] = "rename"
    /\ IF tmp = NoInode THEN UNCHANGED <<tmp, data>> ELSE data' = tmp /\ tmp' = NoInode
    /\ Leave(s)
    /\ Collect
    /\ UNCHANGED <<version, met>>

(* The file cannot be created, or the disk is full.                        *)
Fail(s) == /\ pc[s] \in {"create", "write"}
           /\ UNCHANGED <<version, tmp, data, met>>
           /\ Leave(s)
           /\ Collect

(* The process stops, os.Exit(0) after the shutdown's Save included.       *)
Crash == /\ pc' = [s \in Savers |-> "idle"]
         /\ handle' = [s \in Savers |-> NoInode]
         /\ pos' = [s \in Savers |-> 1]
         /\ UNCHANGED <<version, tmp, data, met>>
         /\ Collect

Next == \/ Change \/ Crash
        \/ \E s \in Savers : Begin(s) \/ Create(s) \/ Write(s) \/ Rename(s) \/ Fail(s)

Spec == Init /\ [][Next]_vars

(***************************************************************************)
(* What it promises.                                                       *)
(***************************************************************************)

(* No file mixes the texts of two graphs, however many Saves share the     *)
(* temporary file, fail or are cut short: who writes holds the read lock.  *)
OneVersion ==
    \A i \in Inodes : \A a, b \in 1 .. Buffers :
        text[i][a] # Hole /\ text[i][b] # Hole => text[i][a][1] = text[i][b][1]

(* A rename never publishes a graph that has changed since: a slow Save    *)
(* does not put an older graph over a newer one.                           *)
RenamesCurrent ==
    [][\A s \in Savers : Rename(s) /\ tmp # NoInode =>
         \A b \in 1 .. Buffers : text[tmp][b] = Hole \/ text[tmp][b][1] = version]_vars

(* A Save that meets no other publishes its whole text, whatever an        *)
(* earlier Save that failed, or a process that stopped, left behind.       *)
LoneSavesComplete ==
    [][\A s \in Savers : Rename(s) /\ s \notin met =>
         tmp # NoInode /\ \A b \in 1 .. Buffers : text[tmp][b] = <<version, s>>]_vars

(* The graph's file is the text that one Save wrote, from begin to end.    *)
FileComplete ==
    data # NoInode => /\ text[data][1] # Hole
                      /\ \A b \in 1 .. Buffers : text[data][b] = text[data][1]
==============================================================================
