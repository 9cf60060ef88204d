# A verification of olu in TLA+

olu is a REST server for JSON documents. It stores them in one of two backends,
keeps a graph of the references between them, and caches what it reads. This
directory holds TLA+ modules translated from the Go source, TLC configurations
that check them on small instances, and TLAPS proofs for every instance.
`PROJECT.json` ties them to the source: the lines each definition stands for,
the properties of each run, the mutants that show a property can fail, the
disagreements found and the hazards the properties are for. Paths below are
relative to the repository; line numbers are those of the commit modelled.

    tlc -workers 2 -config MCSQLiteStore_refines.cfg MCSQLiteStore
    tlapm SQLiteStoreProofs.tla

## 1. The system

### Components, their state and their operations

| component | state | operations that change it | called by |
|---|---|---|---|
| SQLite store (`pkg/storage/sqlite.go`) | tables `entities`, `graph_edges`, `entity_sequences`; an RWMutex | Create, Update, Patch, Delete, Save, RebuildGraph | handlers, migration |
| JSON file store (`pkg/storage/jsonfile.go`) | a file per document, `_next_id.json` per type; a mutex per type | NextID, Create, Update, Patch, Delete, Save | handlers, migration |
| indexed graph (`pkg/graph/graph.go`) | `adjacency`, `reverse`, `index`; an RWMutex | AddNode, AddEdge, RemoveNode, RemoveEdge, Clear, Load, UpdateFromEntity | handlers, main |
| graph file (same file) | `graph.data`, `graph.data.tmp` | Save | handlers, main |
| references (`pkg/models/models.go`) | none | IsReference | graph, embedding |
| HTTP server (`pkg/server`) | none of its own | one handler per route: storage, then graph, then cache | net/http, one goroutine per request |
| graph searches (same file) | none: they hold the read lock | FindPath, HasCycle | handlers |
| cache (`pkg/cache/cache.go`) | keys with a time to live, in memory or in Redis | Set, DeletePattern | handlers |
| validation (`pkg/validation`) | schemas by type; an RWMutex | LoadSchema | handlers, main |
| store factory (`pkg/storage/factory.go`) | registered backends | RegisterStore, WithTransaction | main, migration |
| migration (`cmd/olu-migrate`) | none | copies one store into another, then VerifyGraphIntegrity | command line |
| process (`cmd/olu`) | none | loads the graph, fills it from the store, saves it at shutdown | operating system |

A request that writes calls the store, then `UpdateFromEntity` or `RemoveNode`
on the graph, then `Save` of the graph, then `DeletePattern` on the cache. No
lock spans two of these calls, so requests interleave between any two of them.

### What is hard, and what makes each component correct

- *SQLite store.* A call is a sequence of statements under a mutex, inside a
  transaction. Any statement may fail: the database reports an error, or the
  request's context is cancelled. Ids come from a sequence that `Save` bypasses.
  `graph_edges` is derived from the documents by hand, in three places that
  decide differently what a reference is. Correct means: a call takes effect at
  once or not at all, no edge outlives its field, a created id is fresh, every
  lock is given back.
- *JSON file store.* Only `NextID` locks. Everything else is Stat, ReadFile,
  WriteFile (open with truncation, then write) and Remove in between those of
  other requests. A crash leaves whatever the last system call left. Correct
  would mean: what is stored parses, Create and Save write new documents only,
  Update and Patch old ones, and Patch loses nobody's change. Of these only part
  holds; section 4 says which.
- *Indexed graph.* Each method is atomic and `UpdateFromEntity` is not. Correct
  means: the two directions agree, the index names only nodes, no update loses
  an edge, a file saved is the graph loaded.
- *Graph file.* Saves run at the same time under a read lock and share one
  temporary file. Correct means: the file has the text of one graph, whole, and
  never goes back to an older one.
- *Graph searches.* The queue, the visited set and the marks of the recursion
  decide what a search never looks at again. Correct means: a path that is found
  is a shortest one of the length asked for, a path that is not found is not
  there, and a cycle is reported exactly where there is one.
- *Server.* A handler reads, writes, links and invalidates in separate calls;
  any of them may fail or panic, and the process may stop between them. Correct
  means: the graph has an edge for every reference and none of a deleted
  document, also after a restart; a stale answer in the cache has one of a few
  known reasons; nothing is stored that its schema forbids; a patch that nobody
  overtook loses nothing; the pages of a list cover it; every request ends.

## 2. Modules

| module | models | extends |
|---|---|---|
| `Maps` | tables and Go maps as functions | |
| `OluData` | documents, references, edges, the three reference scanners, Go and SQL integers | `Maps` |
| `StoreCalls` | the Store interface: calls, results, what reads answer, cursors that break | `OluData` |
| `DocStore` | abstract: what a store promises | `StoreCalls` |
| `SQLiteStore` | `sqlite.go`, statement by statement | `StoreCalls`; `DocStore` by INSTANCE |
| `SQLiteStoreProofs`, `SQLiteStoreRefinement` | its theorems | `SQLiteStore`, TLAPS |
| `JSONFileStore` | `jsonfile.go`, system call by system call | `OluData` |
| `JSONFileStoreProofs` | its theorems | `JSONFileStore`, TLAPS |
| `GraphData` | the three maps and their operations, the file format | `Maps` |
| `IndexedGraph` | `graph.go` at work, with restarts | `GraphData` |
| `IndexedGraphProofs` | its theorems | `IndexedGraph`, TLAPS |
| `GraphFile` | the system calls of the graph's Save | |
| `GraphFileProofs` | its theorems | `GraphFile`, TLAPS |
| `GraphSearch` | FindPath and HasCycle, loop by loop | |
| `GraphSearchProofs` | its theorems | `GraphSearch`, TLAPS |
| `Paging` | the arithmetic of handleList in a wrapping int, lists in any order | |
| `ServerData` | requests, configuration, schemas, patches, keys and answers of the cache | `OluData`, `GraphData`, `Paging` |
| `OluServer` | `pkg/server`, `pkg/cache`, `cmd/olu`: the handlers, main, restarts | `ServerData` |
| `OluServerProofs`, `OluServerCacheProofs` | its theorems | `OluServer`, TLAPS |
| `MC...` | small instances for TLC | the module after `MC` |

A definition whose comment begins with "Fault:" is not part of a model. It is
what the definition below it would be after a plausible bug; `PROJECT.json`
lists under `mutants` which property notices it.

### SQLiteStore

`db` holds the committed tables, `tx[c]` the tables as the open transaction of
client `c` sees them. `pc[c]` names the next statement:

    idle -Call-> lock -Lock-> [check] begin seq/merge row wipe link commit -> unlock -> idle
                      -RLock-> read -> unlock

`CheckExists` is the query Save makes before its transaction, `NextID` and
`BumpSequence` the sequence statements of Create and Save, `ReadAndMerge` the
read in Patch, `InsertRow`, `UpdateRow` and `DeleteRow` the statement on
`entities`, `WipeEdges` and `LinkEdges` those of `syncGraphEdges`, of Delete and
of RebuildGraph. `Fail` is an error of whichever statement is next: the deferred
Rollback and Unlock follow as steps of their own. `Auditors` run
`VerifyGraphIntegrity`, whose two queries take no lock. `Crash` forgets
everything but `db`.

What is abstracted: a document is a function from field names to values, a value
is plain, null or a reference; JSON text and SQL text are not modelled. Integers
run from `-MaxInt-1` to `MaxInt`. `id+1` in Go wraps; `next_id + 1` in SQL
becomes a REAL, which `Overflow` stands for. A reference's id may have a
fraction, which Go cuts off before one scanner tests it and after another.

`WipeEdges` and `LinkEdges` stand for several INSERTs and DELETEs each. They
work on the private tables of a transaction, nobody sees them one by one, and
failing after half of them ends in the same Rollback.

### JSONFileStore

`files` maps the keys that have a file to its text: the document it parses to,
or `Torn`, and its length. Length matters because a write starts at offset 0:
over a longer text that another writer has put there since the truncation, the
end of the longer text remains (`Written`). `Open` truncates or creates, `Write`
writes; `open` has the clients whose open file still has its name, for a file
that was removed is written in vain. `TakeId` is NextID up to the truncation of
`_next_id.json`, under the type's lock; `PutId` writes and unlocks. Patch is
`Read`, merge, then the steps of Update. List is `ReadDir` and one `ReadOne` per
file in any order.

`Faults` lets each system call fail, `Crashes` lets the process stop anywhere.
`issued`, `shaken` and `still` are history variables that no action reads for
its effect: the ids given out, the files whose writers overlapped, failed or
were stopped, the files nobody touched since a List read the directory, an
Update or Patch looked at its file, or a write truncated it. (`IdsLeft` reads
`issued` to bound the run.)

### GraphData and IndexedGraph

A node name is the sequence of its colon-free parts, `<<"users", "2">>` for
`users:2`, because all that Save and Load do to names is join and cut at colons.
`Files(adj)` is what Save may write, over all orders of a Go map; `Loads(lines)`
what Load may make of lines read in any order; `Readable` the lines it reads
when one is longer than a `bufio.Scanner` takes. The index keeps how often a
node is listed under a key.

`UpdateFromEntity` is the only operation of several steps: `BeginUpdate`,
`UpdateNode`, and one `UpdateEdge` per reference in any order. `Restart` is the
process stopping and `main` loading the file; the documents it then adds
(`loadEntitiesIntoGraph`) are updates some worker makes.

### GraphFile

`tmp` and `data` are what the two names refer to, `text[i]` the buffers of inode
`i`: each is a hole or was written by some saver from some version of the graph.
`Create` truncates the file the temporary name has, or makes a new one; `Rename`
moves whatever bears the temporary name by then. `Change` is any method with the
write lock, so it waits until no Save is running. `met` is a history variable:
the savers whose Save overlapped another one.

### GraphSearch

A search holds the read lock from its first line to its last, so `adj` does not
change while `stage` is `path` or `cycle`; `Respond` gives the lock back and the
next question may come over another graph. `Expand` is one round of FindPath's
loop: the new neighbors, in any order of a Go map, go to the end of the queue
and into `visited`. The recursion of hasCycleFrom is `stack`, a node with the
neighbors it has left; `recStack` is the set of marks the code keeps beside it.
`passed` is a history variable: whether a path was passed over for its length.

### OluServer

The composition: `docs` and `seq` are the store, `graph` the graph in memory
(with the operators of `GraphData`, without the index, which nobody reads),
`cache` the cache, `schemas` the validator. A call of the store is one step,
which is what `SQLiteStoreRefinement` proves of SQLite; overlapping calls of the
file store are the subject of `JSONFileStore`. What the handlers see of its
failures is here: `torn` has the keys with a file that does not parse, `NextIds`
begins at 1 again when the counter cannot be read, and `PassedOver` are the
files a List leaves out. `pc[c]` names the next call of the handler that serves
client `c`:

    create, update   validate -> store -> node -> edges -> invalidate [-> scan]
    patch            get -> validate -> store -> ...
    save             exists -> validate -> store -> ...
    delete           exists -> delete -> unlink -> invalidate [-> scan]
    get, list        cache -> get [-> embed] or list -> fill
    schema           schema

`UpdateNode` and `UpdateEdge` are UpdateFromEntity, a lock of the graph at a
time, for handlers and for main. `Accepts` is what stands between `validate` and
`store`: the schema, the size, and the nil map that the body `null` decodes to,
which Update and Save panic on. Create panics on it only after the document is
stored (SQLite) or its id used up (files): `NilMap`. A nil graph panics in every
handler that gets to it: `GraphPanics`. A memory cache drops the keys that begin
with the type's name in one step; Redis is scanned and deleted page by page, and
may fail (`ScanFails`). `Expire` is the end of an entry's time, or its eviction.
`EmbedOne` reads one referenced document; `Longest` makes the recursion go down
before it goes on.

A call of the store that fails changes nothing (`StoreFails`), but for an id
that NextID has used up, and for `WriteBreaks`: over JSON files `os.WriteFile`
has truncated the file when it fails, so that the old document is lost, and the
handler returns with neither graph nor cache told. Such a write is taken to fail
before it has written the whole text, as in `JSONFileStore`; that of a whole
text whose Close fails is left out. `WriteBreaks` followed by `Restart` is a
crash between the truncation and the write.

`SaveAtExit` is main after a signal; requests go on until the process stops.
`Restart` is that stop, or a crash anywhere, and the new main: it reads the
graph file with all that `Loads` allows, the schemas from their directory, and
lists the documents, of which `LoadNext` puts one after another into the graph
before `Serve` opens the port. It may get only a part of each: `LoadAllSchemas`
stops at the first file it cannot load, and main warns and serves (`NotLoaded`,
also at the first start); SQLite lists a type or fails to, and the file store
passes over single files (`NotListed`).

`still`, `cut`, `raced`, `rewritten`, `ungoverned` and `spoiled` are history
variables. `cut` has the documents that were deleted since the last start or
left out by it, `raced` those deleted while a request was linking them,
`rewritten` those stored over an earlier version, or broken, since the last
start, `ungoverned` the types whose schema ever was posted or not loaded,
`spoiled` the cached answers whose reader a write overtook or a List gave only a
part, or whose document was lost to a broken write, or whose invalidation
failed, panicked or was cut off.

## 3. Runs that pass

| run | bounds | states | shows |
|---|---|---|---|
| `sqlite_refines` | 2 clients, 13 calls of all ten kinds, 3-bit integers, failures, broken cursors, crashes | 347,000 | `TypeOK`, `CallInv`, `LocksAreHeld`, `EdgesSound`, `IdsAreFresh`; implements `DocStore` |
| `sqlite_audit` | 2 clients and an auditor, writing calls but Save, positive references | 90,000 | `LiveLinksPresent`, `AlarmMeansRace`, `CallsReturn` |
| `graph_workers` | 2 workers, two documents that refer to each other, removals, Clear, Save, Restart | | `TypeOK`, `MapsAgree`, `EdgesPersist`, `ReloadStable` |
| `file_shared` | 2 savers, texts of 2 buffers, 4 inodes, 2 changes | | `TypeOK`, `OneVersion`, `RenamesCurrent`, `LoneSavesComplete` |
| `json_calls` | 2 clients, every call but Save, ids to 3, no failures | 67,000 | `IdsAreNew`, `ListSeesStill`, `LoneWritesBuildOn` |
| `json_faults` | 2 clients, every call, failures and crashes | 188,000 | `TypeOK`, `TornIsExplained`, `LoneWritesLand`, `CallsEnd` |
| `graph_search` | all graphs of up to 3 nodes and four of 5, depths 1, 2 and 4 | 88,000 | `TypeOK`, `FindsShortest`, `MissesNothing`, `CyclesAreFound`, `SearchesProgress`, `SearchesEnd` |
| `server_graph` | 2 clients, SQLite, memory cache, a document that is created and one that is saved, null bodies, failures, one restart | 498,000 | `TypeOK`, `LiveRefsLinked`, `EdgesAreReferences`, `PagesCover` |
| `server_cache` | 2 clients, JSON files, Redis, a document that refers to itself, schemas that change or are not loaded, patches, embedding of depth 1, failures, writes that break | 136,000 | `StoredIsValid`, `StaleMeansOverlap`, `EmbeddingsNest`, `LonePatchKeeps`, `HandlersProgress`, `RequestsEnd` |

Why the bounds are enough:

- *Two clients.* Every race named in section 1 is between two calls; a third
  could only repeat one of them. The theorems of section 5 hold for any number.
- *Integers of three bits* (`MaxInt = 3`). Small enough that two Creates reach
  the end and Save can start next to it, large enough for a negative id, zero,
  one, an id in the middle and the last one.
- *One reference field* in the SQLite runs. The fields of a document are treated
  alike and independently; two fields change the size of the edge sets only.
  Where two fields interact (`MCIndexedGraph_two_fields.cfg`, the lengths of
  JSON texts) the instance has two.
- *`MaxListed = 1` or `2`.* Updates stop once a node is listed that often; a
  node listed again changes nothing but the count.
- *One type, one field, two ids* in the server runs: an edge needs two
  documents, a circle of references one that names itself. The two server runs
  divide the configuration between them (SQLite with a graph and a memory cache;
  files without a graph, with Redis), because graph and cache do not look at
  each other: what couples them is the order of the calls, which both runs have.
- *`NewIds`.* A create whose id would not be one of these fails. They are the
  ids of the documents a run is about; that ids run out, wrap or start again is
  the subject of the store runs.
- *One restart*, in `server_graph` alone; `server_cache` has none, and meets a
  schema that is not loaded at its first start. A restart comes from any
  reachable state, and what it leaves is again a state requests go on from;
  `stops` only bounds how often. The theorems have no bound.
- *`IntMax = 99`.* No list of the runs comes near it, but one requested page
  does: the start of page 52 wraps below zero, and the handler panics.
- *Three nodes, depth 4.* All ways to visit, pass over and come back that the
  two searches tell apart occur on three nodes, but for two ways of equal or of
  different length to one node, for which there are the graphs of five.
- *Four inodes* are more than two names and two open files need at once.
- *Symmetry* is used for clients, workers, savers and inodes in runs without
  liveness properties.

Each run was made to see what it claims: every action of the next-state relation
occurs in a passing run, and each property fails for the mutant listed with it.

### Fairness

`sqlite_audit` assumes weak fairness of each client's statements, and strong
fairness of taking the lock: Go's scheduler runs every goroutine, and a
`sync.RWMutex` lets no reader past a waiting writer, nor a second writer past
the readers that have waited. `json_faults` assumes the same of a client's
system calls and of `NextID`, whose `sync.Mutex` hands itself to a waiter it has
starved. New calls, failures and crashes are not assumed to happen or not to; a
call that ends in a crash has ended. Without the strong fairness a client could
wait for a lock forever while others take it in turn, which Go rules out.

`server_cache` assumes weak fairness of each handler and nothing of the arrival
of requests or the expiry of entries: at this level no call waits for another.
`graph_search` assumes that a search that has the lock goes on.

## 4. Where code and documentation disagree

Each configuration checks one statement of the repository's documentation or
tests, and TLC finds a short behaviour of the code against it. The first three
are runs of `PROJECT.json`. The others are further counterexamples kept beside
them, to be run by hand:

    tlc -config MCJSONFileStore_patch.cfg MCJSONFileStore

| configuration | property | statement | what happens |
|---|---|---|---|
| `MCSQLiteStore_delete_edges` | `GraphMatchesDocs` | edges always match documents (`sqlite.go:165`) | Delete removes edges whose REF fields stay |
| `MCIndexedGraph_roundtrip` | `LoadRestores` | the graph is kept in `graph.data` (`README.md:463`) | `users:2` is loaded as node `users` |
| `MCOluServer_cascade` | `CascadeCompletes` | all entities referencing it will also be deleted (`README.md:344`) | the list of what to delete never gets a second document |
| `MCSQLiteStore_audit_race` | `AuditsPass` | VerifyGraphIntegrity checks the tables (`sqlite.go:738`) | a Create between its two queries makes it complain of a consistent store |
| `MCSQLiteStore_negative_ref` | `GraphMatchesDocs` | same check (`sqlite.go:738`) | a negative reference is linked by writes and denied by verification |
| `MCSQLiteStore_rebuild` | `GraphMatchesDocs` | RebuildGraph rebuilds the edges (`sqlite.go:818`) | a cursor that fails part-way has its partial graph committed |
| `MCSQLiteStore_relink` | `LiveLinksPresent` | graph with transactional consistency (`README.md:464`) | Delete, then Save under the same id: live reference, no edge |
| `MCSQLiteStore_last_id` | `SeqBoundsIds` | Create counts on after Save (`sqlite_test.go:377`) | `id+1` wraps for the largest id |
| `MCIndexedGraph_stale` | `UpdateInstalls` | UpdateFromEntity updates the graph (`graph.go:405`) | edges to former targets stay |
| `MCIndexedGraph_two_fields` | `EveryFieldLinked` | the graph represents the relationships (`README.md:13`) | two fields to one target leave one relationship |
| `MCIndexedGraph_long_line` | `FailedLoadIsEmpty` | starting with an empty graph (`main.go:104`) | Load fails with the maps partly filled |
| `MCGraphFile_overlap` | `FileComplete` | thread-safe with proper locking (`README.md:76`) | one Save renames the file another has just truncated |
| `MCJSONFileStore_save_id` | `CreatesAreNew` | NextID gives an available id (`jsonfile.go:76`) | the counter reaches an id Save has used |
| `MCJSONFileStore_crash_id` | `CreatesAreNew` | Create makes a new document (`jsonfile.go:117`) | after a crash in NextID ids start at 1 again |
| `MCJSONFileStore_overlap` | `QuietIsWhole` | thread-safe with proper locking (`README.md:76`) | overlapping writes leave a file that does not parse |
| `MCJSONFileStore_resurrect` | `UpdatesAreOld` | Update of a missing document is an error (`storage_test.go:172`) | an Update undoes a Delete |
| `MCJSONFileStore_patch` | `PatchKeepsRest` | other fields remain (`storage_test.go:211`) | a Patch writes back a field another has changed |
| `MCOluServer_lost_patch` | `PatchKeepsRest` | other fields remain (`storage_test.go:211`) | handlePatch merges before it calls Update: two patches over an atomic store, one change |
| `MCOluServer_embed` | `EmbedsAsAsked` | entities with their references resolved (`README.md:297`) | the key of the cache has no depth: an answer without embedding serves both |
| `MCOluServer_cascade_failed` | `LiveRefsLinked` | references are automatically added to the graph (`README.md:462`) | an error of the cascade's Delete is passed over, and the node of the stored document removed |
| `MCOluServer_sqlite_restart` | `LiveRefsLinked` | same line | with SQLite main finds no directories (`main.go:227`) and loads no documents |
| `MCOluServer_schema_lost` | `SchemasStay` | the schema has been loaded (`handlers.go:340`) | it was kept in memory only (`validation.go:35`), and a restart forgets it |

`LiveLinksPresent`, `LiveRefsLinked`, `SeqBoundsIds` (in `IdsAreFresh`) and
`CreatesAreNew` (in `IdsAreNew`) also have a passing run and a theorem: the same
property holds once the one call or failure that breaks it is left out. Of
`GraphMatchesDocs` a theorem says so: the three configurations that break it are
all the ways there are. `LoneSavesComplete` is that counterpart of
`FileComplete`, `TornIsExplained` and `LoneWritesLand` those of `QuietIsWhole`,
`LoneWritesBuildOn` and `LonePatchKeeps` those of `UpdatesAreOld` and of the two
`PatchKeepsRest`, `EdgesAreReferences` that of `UpdateInstalls`, and
`EmbeddingsNest` bounds what `EmbedsAsAsked` gets wrong. `AlarmMeansRace` says
what a complaint of `VerifyGraphIntegrity` can still be trusted to mean,
`StaleMeansOverlap` why a cached answer can be stale.

## 5. Theorems

They hold for any clients, types, fields, documents and names, any width of the
integers and any size of the files. Assumptions on the constants are the named
ASSUMEs of the modules: special values differ from the ordinary ones, calls have
the shape of a call, documents have finitely many fields, and the integers go
beyond zero. TLC evaluates them in every run.

**SQLiteStore.** `CallInv` is the inductive invariant: while client `c` is
inside its transaction it holds the write lock (`ControlInv`), its locals are a
function of its call and of the committed tables (`LocalInv`), and `tx[c]` is
the committed tables with just the statements executed so far applied to them
(`TxInv`). It is needed because `EdgesSound` and `SeqBoundsIds` speak of `db`
only, which changes in one step, Commit, to a `tx[c]` that was built many steps
earlier. With it:

- `TypeCorrect`, `TransactionsCorrect`: types, and `CallInv` itself.
- `LocksAreGivenBack`: with `ControlInv` the locks are inductive. Besides the
  exclusion it says that who is in no call holds nothing, so that no path out of
  a method leaves the store locked: with it `CallsReturn` needs of the code only
  that goroutines run and the mutex is fair.
- `EdgesAreSound`: at a Commit the new edges are the old ones without those of
  the written document, plus its own.
- `SequenceCorrect`: if no Save brings the largest integer (`NoLastId`), then
  `IdsAreFresh`: the sequence bounds every id (`SeqBoundsIds`, the half that is
  inductive) and Create's INSERT meets no row (`FreshIdIsFree`).
  `MCSQLiteStore_last_id.cfg` shows that the assumption cannot be dropped.
- `LiveLinksArePresent`: if Create alone picks ids, and RebuildGraph, where it
  is called, meets neither a broken cursor nor a reference on which the scanners
  disagree, every reference between stored documents has its edge. Not
  inductive: Delete removes edges whose fields stay. `LinksInv` says what
  becomes of such a field: it names a deleted document whose id the sequence has
  passed, so that nothing is stored there again. Each excluded case has its
  counterexample (`relink`, `negative_ref`, `rebuild`).
- `AlarmsMeanRaces`: an action property, from `LinksInv` and `EdgesAreSound`: if
  no write came between the two queries of `VerifyGraphIntegrity`, what it
  reports is a field that names a deleted document.
- `GraphsMatch`: `GraphMatchesDocs` itself, if no call deletes (`NoDelete`), the
  scanners agree on every reference brought (`OpsAgreed`) and, where
  RebuildGraph is called, no cursor breaks. `InStep`, that every document has
  references of that kind and all its edges, is inductive; that there are no
  other edges is `EdgesAreSound`. Save may bring any id, and
  `MCSQLiteStore_delete_edges`, `_negative_ref` and `_rebuild` show that no
  hypothesis can be dropped.
- `ImplementsDocStore`: under `NoLastId` again `SQLiteStore` implements
  `DocStore`. Tables map to tables, the sequence to `floor`; Commit, the single
  query of a read and the statement that refuses are the steps of the abstract
  call, everything else stutters.

**JSONFileStore.** `TypeCorrect`: among the types, that a type's lock is held
exactly by the client between reading and writing its counter.
`TearsAreExplained`: a file that does not parse is being written, or its writers
overlapped, failed or were stopped. The inductive form says in addition that the
file of every client in `open` exists, and that the file of a single undisturbed
writer is still empty, so that its write leaves the whole text. `IdsAreFresh`:
without failures and crashes, NextID returns no id twice before the last one;
the inductive form says that the counter is above every id issued, or torn while
its lock holder has an id above them. `CreatesFindNoFile`: without Save in
addition `IdsAreNew`, that is, Create never meets a file under its id either;
the inductive form (`MadeInv`) says that every file has an id that was issued,
and that the file a Create is about to open is not there and nobody else's.
`crash_id` and `save_id` are the excluded cases. `ListsSeeWhatStays` and
`LoneWritesBuild`, without failures: `StillInv` follows a file that nobody
touches from the first look of a call at it to the last, and says that what the
call has read of it is what it still is. `LoneWritesMend`, whatever fails and
crashes: `EmptyInv` says that a file which nobody touched since a client
truncated it, and which it is about to write, is still there, empty and open
under its name.

**IndexedGraph.** `GraphMirrored` states `MapsAgree`, that is `Mirrored` and
`IndexSound`, and comes from an invariant of a graph, `GraphInv`, which each
operation and each Load preserves by a lemma of its own; that it holds after
Load needs nothing of the file. `UpdatesKeepEdges` uses the same lemmas.
`GraphTypeCorrect` needs that a line Save writes has at least the two parts Load
cuts it into. `ReloadIsStable` rests on `LoadInvertsSave`: for names of one part
the lines determine the graph.

**GraphFile.** `FileTypeCorrect`, `TextsDoNotMix`, `RenamesAreCurrent`. Their
invariant: if some Save is past Create, the file it has open, and what bears the
temporary name, hold only text of the present version. It holds because `Change`
excludes Saves and because Create truncates. `LoneSavesAreComplete` adds to it
(`LoneInv`): a saver that has met no other is the only one that is busy, the
temporary name is that of its own file, and the buffers before its position are
its own text.

**GraphSearch.** For every finite graph, depth and order of the maps.
`FoundPathsAreShortest` and `NoPathIsMissed` come from `PathInv`: the queue is
ordered by length, and its longest path has at most one node more than its
first; a visited node is done (all its neighbors are visited) or is the end of a
path in the queue; and every path that is shorter than the first of the queue
ends in a node that is done. The step that needs it is Expand: the node that
ends a path one longer than a done one has been visited. An induction along a
path is needed there, which is stated over `1..n` and proved by counting
(`UpTo`, from `FS_Injection`), for the library's induction takes an operator.
`CyclesAreDecided` comes from `CycleInv`: the stack is a path without
repetition, the marks are its nodes, what is visited and off it (`Finished`) has
no edge to anything else and contains no cycle. `SearchTypeCorrect` gives the
types. `SearchesComeNearer`: each step meets a node it had not seen, or else
shortens the queue, the nodes to begin from, the stack, or what is left of the
call on top of it, in this order. Each of these is finite, so that a search that
goes on ends; the last sentence is not a theorem, for it is about fairness.

**OluServer.** For any clients, types, fields, requests, schemas, configuration
and number of restarts. `TypeInv` ties the variables of a handler to its next
call; `TypeCorrect` is its visible part.

- `StoredDocumentsAreValid`: `ValidInv` adds that what a handler between its
  validation and its Update will store is valid under the schema of the type,
  unless somebody posted one or a start did not load that of the file: main goes
  on without (`main.go:121`), and what is stored then need not be valid ever
  after.
- `ReferencesAreLinked`: if main finds the directory of every type, and no
  cascade passes over a failing Delete, then `LiveRefsLinked`. `RefsInv` says
  that an edge is there, or due from the request that stored the reference, or
  its document is one that main has yet to load. It needs that a Create stores
  what it was sent, so that the body `null`, whose links are never made, has
  none (`BodyInv`), and that what a Delete is about to unlink has been deleted
  (`DeleteInv`). The two excluded cases are counterexamples (`sqlite_restart`,
  `cascade_failed`).
- `DeletedAreDetached`: `DetachInv` adds that what some process is linking is
  stored, or was deleted meanwhile (`raced`). A restart rests on `LoadedApart`:
  names read from the graph file have one part only, because `Load` cuts them at
  the colon, so that they name no document.
- `EdgesOfDocuments`: the edges of a document that was stored once since the
  start, and not deleted while it was linked, are references it has. `LinksInv`
  says that what a request or main has yet to link of such a document is what is
  stored of it; `DetachInv`, that a document which comes to the id of a deleted
  one finds no edges there. As `rewritten` is a set of documents that are
  there, whole or torn, `EdgesAreReferences` contains `DeletedIsDetached`, which
  no run checks besides.
- `PagesAreWhole`: `PagesCover`, without any assumption. The property speaks of
  lists of at most `IntMax + 1 - n` rows, for pages of `n`, so that
  `total + perPage - 1` (`server.go:220`) does not wrap, and nothing after it
  does; a list that did would not fit into memory. The rows before a document
  number the documents from 0 without a gap, for they are an injection of a
  finite set into one of its size; `Place` may be any order, by number as in
  SQLite or by file name as in `os.ReadDir`.
- `LonePatchesKeep`: from `ReadInv`, whose `StillInv` says that what an
  undisturbed patch has merged is the merge with the stored document.
- `StaleAnswersHaveReasons`: `CacheInv` says of every cached answer that is not
  current that it is `spoiled`, or that some request has stored and not yet
  invalidated (`Pending`), and, while Redis is scanned, that the key is among
  those the scan has left (`Covered`). It is needed because an answer goes stale
  in the store's step, and the key is removed many steps later. The reasons
  behind `spoiled` are all there are: a reader overtaken by a write or given a
  list with files passed over, a write that broke half-way, a panic, an end of
  the process, a failing Redis.
- `EmbeddingsAreNested`: `NestInv` adds that every path left to embed continues
  one that is in the answer by a field with a reference, and is no longer than
  the request allows.
- `HandlersGoForward`: `Stage` orders the calls of a handler, and the three
  loops (linking, embedding, deleting keys page by page) have less to do after
  each round. In embedding, what is left to do may grow; but each round takes a
  path from it that has not been embedded, and of paths of allowed length over
  finitely many fields there are finitely many. No other request can prolong a
  loop: whatever it caches or writes meanwhile is not added to `todo`.

## 6. Only model-checked

- Liveness (`CallsReturn`, `CallsEnd`, `RequestsEnd`, `SearchesEnd`): the prover
  does not handle fairness. What liveness needs of the code besides the
  scheduler is proved for three of them: `HandlersGoForward` and
  `SearchesComeNearer` say that no loop runs in place, `LocksAreGivenBack` that
  no lock is kept. Every other property of a passing run is a theorem.
- The configurations of section 4 are counterexamples and need no proof.
- What the recursive shape of `embedReferences` computes for any depth: it is
  modelled by its steps, whose end is checked for depth 1 and whose bound
  `EmbeddingsAreNested` proves for every depth.

## 7. Not modelled

- *Migration tool* (`cmd/olu-migrate`): a loop of List and Save in a process of
  its own, with nothing beside it; its calls are those of the store models.
- *Store factory and pseudo transactions* (`factory.go`): a table of
  constructors, filled once; `WithTransaction` hands the store itself to its
  function and has no caller.
- *Validation*: schemas are the sets of values they allow; the checks by type,
  length, range and enumeration are not spelled out. `SaveSchema` and the
  `NoOpValidator` have no caller.
- *SQLite store*: `Search`, `Exists`, `Info` and `ListEntities`, reads of one
  query without an interleaving of their own; a List whose cursor breaks; the
  SQL indexes.
- *Server*: requests that are turned away before the first call (malformed ids
  and names, bodies that are not JSON), health, version and the wording of
  responses. The node and neighbor queries are one look at a map under the lock.
  The graph file the handlers write in the working directory (`handlers.go:87`)
  is loaded by nobody; what concurrent Saves make of it is `GraphFile`.
- *Cache*: `Delete`, `Exists` and `Close` have no caller among the handlers;
  which entry an LRU evicts first does not matter to `Expire`, which may take
  any.
- *Configuration*: what the environment makes of the graph mode and the settings
  handlers look at are constants; the others are read field by field.
- *`SaveIndex` and `LoadIndex`* have no caller. A document whose `type` begins
  with `relationship:` would share an index key with a relationship; names do
  not hold blanks.
- *Time.* An entry of the cache may expire at any moment; deadlines of requests
  appear as statements that fail.
