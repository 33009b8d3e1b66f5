# A TLA+ model of AscendC CodeMap MCP

AscendC CodeMap compiles one AscendC operator (a directory of host and kernel
C++ sources) into a `.uo` file, a SQLite graph, and answers an agent's queries
from it over MCP. This directory holds TLA+ modules of the parts of the server
whose correctness depends on order: who may touch a product when, what is
reused between builds and between passes, what the passes of a build leave for
one another, what queries and server processes share, and how a long answer is
read page by page. TLC checks them on small instances and TLAPS proves most of
their safety properties for instances of any size.

All paths below are relative to `src/ascendc_codemap_mcp/` unless they start
with another top-level directory of the repository.

## 1. The system

```
 client ── MCP ──> mcp_adapter.py ──> service/control.py   index, update, status
                        │                    │  engine/codemap_engines.py,
                        │                    │  engine/update/apply.py
                        │                    v
                        │             engine/pilot_engines.py  prepare, extract_host
                        │             engine/build.py          analyze (compile)
                        │             engine/store/writer.py   commit ──> <op>.uo
                        │                                                   ^
                        └──────────> service/query.py ── service/cache.py ──┤
                                                         engine/store/reader.py
              gate: service/locks.py     flags: service/runtime.py
              freshness: service/freshness.py (git)   ids: service/identity.py
```

One process serves several clients. Index and update run in executor threads
and can be cancelled between steps; the MCP query tools run on the event-loop
thread, library callers on any thread. Everything between processes goes
through files: the product, `.ascendc-codemap/cache`, and the registry.

| Component | State | Operations | Hard because | Correct when |
| --- | --- | --- | --- | --- |
| Snapshot gate `service/locks.py` | per id: reader count, writer flag, condition | `try_read`, `release_read`, `acquire_write`, `release_write` | three kinds of waiter on one condition; readers never wait, writers do | a writer is alone; counts are exact; nobody sleeps for ever; writers get in |
| Control plane `service/control.py`, `runtime.py`, `engine/update/apply.py` | flags `_BUILDING`, `_BLOCKED` | index, update, their plans, steps and answers; status, discover, doctor | flags and gate are separate, ids are bound more than once, every step may fail or be cancelled | one builder; flags owned; answers truthful |
| Query gate and answer `service/query.py` | none of its own | bind, gate, meta, rows | file is replaced in steps while ids change | a query reads one product |
| Product file `engine/store/writer.py` | `.uo`, `.uo.tmp` | write tmp, unlink, replace, stamp | crash or disk error between steps | never half visible; never goes back |
| Build pipeline `engine/codemap_engines.py`, `pilot_engines.py`, `build.py`, `runtime.py`, `tu_cache.py` | `_STORE`, `_COMPILE_MEM`; on disk the IR pickle, the compile cache, the kernel walks | prepare, extract_host, analyze, commit | four caches at three levels, each with its own key or none; a call may stop anywhere and the next one meets what is left | a product is of exactly the sources it claims |
| Fingerprint and update planning `engine/extract_cache.py`, `engine/update/*` | stored fingerprint, change set, manifest | detect changes, skip re-extraction, reuse a change set, align | the plan compares with the last extraction, not with the product | nothing changed means nothing to do |
| Freshness `service/freshness.py` | two-second probe cache | `compute` | HEAD, work tree and product move separately | fresh means made of these sources |
| Facade cache `service/cache.py` | entries with mtime and use count | acquire, release, drop, evict | evicted, dropped and counted by different threads | use counts exact; caches of one version |
| Connection pool `engine/store/reader.py` | idle list, live count, timer generation | checkout, checkin, close, mark in use / idle | timer, eviction and builds close the pool under a query | no stale connection; no query waits for nobody |
| Identity, registry `service/identity.py` | per process: id map and alias index; shared: `registry.json` | bind, resolve, put, load, persist | several processes rewrite one file from maps of different ages; directories go and come | a returned id survives restarts; an alias two projects share is never answered by one |
| Query surface `service/query.py`, `models.py`, `evidence.py` | none: a walk's state is in the client's cursor | validation, cursors, pages | engine and service both cut and count; a cursor outlives a snapshot | pages of one result set, each row once; `exhaustive` is true |
| Kernel passes `engine/passes/kernel_*`, `tiling_*` | the graph under construction, `codemap.meta` | bind call sites, resolve frontiers, boundaries, reads, writes, truth, verdict | ten passes take the same call sites over from one another; sites merge on one edge in text order | no site lost, no callee invented, "strict" is sound |
| Source text cache `engine/passes/source_text_cache.py` | texts by path, masks by path and by object id | read, mask, clear | outlives passes and compiles; an id outlives its object | masks are of the text asked for; texts are current |
| Source facts cache `engine/source_index/*` | facts by path while a compile runs; pickles under a hash of the bytes, for ever | look up, scan, reset | hash, text and facts are of three moments; the key has no path, the facts do | the facts taken for a file are of its bytes and name it |
| Query engine `engine/query/*` | per-facade caches | typed queries, explore, closure, slice | size | read-only over one product |
| Clang frontend `engine/clang_walk.py`, `host_ir.py`, `kernel_ir.py`, ... | TU and walk caches | extract an IR | libclang, include healing | a function of the sources |
| Graph `engine/ir/*`, the other passes, semantics | the graph under construction | some thirty passes in a fixed order | size | deterministic; identities never rewritten |
| Scope and layout `engine/scope_scan.py`, `source_layout.py`, ... | scope files | confirm, validate | directory contents | confirmed sources are the inputs |
| MCP, CLI, installers, CANN extraction | none that lasts | transport, one-shot scripts | - | - |
| Query daemon `engine/query/daemon.py`, `query_client.py` | endpoint file | - | - | unused: nothing calls it, and it would spawn a module (`uo_init.query.daemon`) the repository does not contain |

`PROJECT.json` lists every component with its status, and every hazard at its
line with the properties that watch it.

## 2. Modules

| Module | Lines of code it stands for | Role |
| --- | --- | --- |
| `SnapshotAccess` | - | abstract: one writer or any readers; `SnapshotLocks` implements it, `CodemapService` and `QueryPool` stay within it |
| `SnapshotLocks` (+ `_proofs`, `MC`) | `service/locks.py` | the gate, one critical section a step |
| `AtomicProduct` | - | abstract: one product that changes only between queries; `CodemapService` and `QueryPool` implement it |
| `CodemapService` (+ `_proofs`, `MC`) | `control.py`, `query.py`, `runtime.py`, `writer.py`, `apply.py`, `freshness.py` | the service over one operator |
| `BuildPipeline` (+ `_proofs`, `MC`) | `codemap_engines.py`, `pilot_engines.py`, `build.py`, `extract_cache.py`, `tu_cache.py`, `update/*` | what a product is made of |
| `QueryPool` (+ `_proofs`, `MC`) | `cache.py`, `reader.py` | what queries of one product share |
| `QueryPages` (+ `_proofs`, `MC`) | `service/query.py` 229-597, `engine/query/sql.py` 11289-11502, 11622 | walks over a long answer |
| `Registry` (+ `_proofs`, `MC`) | `service/identity.py` | several servers and one `registry.json` |
| `KernelClosure` (+ `_proofs`, `MC`) | nine files of `engine/passes/` | from call sites to the strict verdict |
| `SourceText` (+ `_proofs`, `MC`) | `source_text_cache.py`, the phases of `build.py` | texts and masks shared by passes and compiles |
| `SourceFacts` (+ `MC`; proofs in `SourceText_proofs`) | `engine/source_index/*`, the phases of `build.py` | facts shared by compiles and processes |

The modules meet at the product. `SnapshotLocks` is the gate that
`CodemapService` and `QueryPool` assume: it is proved to implement
`SnapshotAccess`, and they to use it in no other way. These two also have
`AtomicProduct` in common, seen from the replaced file in one and from the
cached connections in the other, and `QueryPages` uses the consequence
(a page is read from one product). `BuildPipeline` says what the product is made
of that `CodemapService` publishes; in it a compile reads the current sources,
and `SourceText`, `SourceFacts` and `KernelClosure` look inside that compile
(`SourceFacts` has its own, coarser copy of the text cache). `Registry` gives
the ids that everything else is keyed by.

### SnapshotLocks

Each step is a critical section under the condition's lock, from the entry (or
a wake-up) to the exit (or the next `wait()`). `asleep[k]` is the condition's
wait set: a sleeping thread takes no step until `NotifyAll` has removed it, so
a missing notification is a thread left behind and not an unfair scheduler.
`TryRead`, `ReleaseRead` and `ReleaseWrite` are the methods; `AcquireWrite` is
its first critical section, `WakeQueued` and `WakeDraining` those after a
`wait()` of its first and its second loop. `ImplementsAccess` maps the readers
and writers inside their bodies to `SnapshotAccess`.

### CodemapService

Threads run index, update and query calls on one operator directory. The gate
is not a variable: by `FlagOwned` and `ReadersCounted`, which are proved of
`SnapshotLocks`, its flag is set exactly while a thread is draining or inside,
and its count is exactly the queries inside, so `IsWriting` and `Drained` read
both from `pc`. An id is computed from the operator's name, which comes from the
directory until there is a product and from the product afterwards; `SameName`
says whether these agree. `gate[t]` is the id whose gate the call takes, `ref[t]`
the one it is bound to after it rebinds inside. A builder's `pc` walks through
`begin`, `plan` (update), `prepare`, `extract`, `analyze`, `commit`, `swap`,
`replace`, `stamp`, `finish`; each of the first ones looks at `should_stop`
(`Halt`), may fail (`StepFails`: an index ends, an update goes on with its next
action and says `failed` at the end) and the disk may refuse (`DiskFails`).
A product is `[ver, rev, stamped]`: which write made it, HEAD at that time, and
whether `_stamp_completeness` has written into it. `Crash` keeps the disk only.
`ImplementsAtomicProduct` takes the file as the store and the rows of the answers
that are out as what was read. `ImplementsAccess` takes, for each id, the queries
between the gate and their rows as holders and the builder in its body as owner.
`AnswersInOrder` and `PublishedInOrder` are what the product keeps to even where
one CodeMap has two ids.

Not modelled: `status`, `discover` and `doctor`, which change no state;
resolution by id; the race of a `stat` in `bind` with the unlink (it raises);
the two-second cache of the git probe, which is taken as exact; and
`freshness=dirty` and `incompatible` (`freshness.py:173`, `193`), which only name
in other words that the product is not of the sources. A query's freshness is
computed after its rows in the code (`query.py:399`), and with its meta or its rows
here; no property compares it with them.

### BuildPipeline

Calls come one at a time (the gate's business) on one operator. A *content*
stands for the bytes of all confirmed sources and for their fingerprint, and two
contents differ in a kernel unit. An IR is the content it was extracted from; a
graph the content of its IR, the content its source passes read, the set of
contents whose kernel walks it took call sites, types and guards from, and the
mark it has when this may not be all of them. The variables are the things that
outlive a call:

| Variable | Code |
| --- | --- |
| `hostIr` | the IR pickle under `cache/` |
| `fp` | the stored extraction fingerprint |
| `cache`, `mem` | the compile cache on disk and `_COMPILE_MEM` |
| `store` | `_STORE["bundle"]` with its key |
| `walks` | the pickles in `cache/tu` |
| `manifest`, `changes` | the manifest's base revision, the saved change set |
| `product` | the `.uo`: `ir`, `src`, `walked`, `partial` (`clang_walk_cache_partial` or `budget_expired` is in it), and `rev`, HEAD when it was committed |

The actions are the engine steps in order, each with the failures it has. What
may go wrong besides calls, commits and checkouts is chosen by `Hazards`:
`dirty` (edits without a commit), `during` (the tree moves while a call runs),
`cancel`, `crash`, `fail` (a step fails), `persist` (a cache file cannot be
written; the code swallows that), `unread` (a confirmed source cannot be read for
a moment: `compute_extract_fingerprint` raises, and each of its callers does
something else then), `slow` (`UO_KERNEL_ROOT_TRACE_BUDGET_S` is set and used up).
Three variables are history: `steady` (the tree stood still since the call began),
`neat` (every edit so far was a commit) and `known` (no analyze took the stored
fingerprint of other sources for one it could not compute).

A pass reads at most `WalkLimit` of the walks in `cache/tu` (48 in the code), the
first in the order of their file names. These are hashes, and walks of former
contents are never deleted, so which ones it gets is any choice (`Listed`); when it
got as many as the limit, the graph is marked (`Partial`). `LoadWalks` stands for
`collect_call_sites_from_walks` as the root trace calls it.

Abstracted: golden-role plans, which sources confirmed by Clang never reach;
files out of scope and the blocked plan, which are in `CodemapService`; torn writes
of the manifest and the change set; the in-memory copy of the walks, which every
extraction clears; a content has one walk, where an operator has one per kernel
unit and variant, so that 48 of the code may be few contents; a walk pickle that
cannot be read, which is left out of the list and noted in a file beside it; the other
readings of the same list (`walk_cited_kernel_files` and the guarded calls with 48,
others with 64 and 96), of which the guarded calls stop after a fixed 30 seconds
(`guarded_calls.py:318`) and leave no mark. `Inputs`
reads bundle and fingerprint in one step. A missing IR is a gap the engine
reports in the graph, not an error (`codemap_engines.py:158`).

### QueryPool

Threads run queries of one product and builds that replace it. A version stands
for the product's bytes and its mtime; a connection is the version of the file
it was opened on, since an unlinked file lives on in it; a facade the version
its caches were filled from. The pool is the LIFO list of idle connections and
`live`, the count that `_pool_checkout` compares with its limit. The timer's
generation is abstracted to `armed` (a timer of the current generation is
pending), `fresh[t]` (the generation `t` read is still current) and `firing`
(timers past their look at the generation, which close the pool whatever has
happened since). `Evict` is a query of another product that needs the facade's
slot, `Remove` a user who deletes `.ascendc-codemap`. A wait that ends every
second and looks again is a step that is not enabled. A stamp counts as a new
version since it changes the mtime. `ImplementsAtomicProduct` takes the version
written last as the store, whether or not the file has since been deleted, and the
version of its connection as what a query has read: from outside there is neither
a facade nor a pool. `SomebodyMoves` says that the two waits, for the gate and
for a connection, close no circle.

Not modelled: an idle delay of zero (with it the last user may close the pool
before an earlier user has given its connection back, which then stays open
until the next query), nested leases, the thread-local connection of callers
that never lease, `_META_CACHE`.

### QueryPages

One client walks one answer at a time while builds replace the product. A row is
its position in the ranked result of a query in a product, so what an operation
lists, and what a page cuts out of it, are intervals. `Listed` and `Hinted` say
for search, find and entry how many rows the engine hands to `paginate` and what
total it claims; `Sliced` is the general cut of `paginate`, `EnginePaged` the
answer that search has cut itself. `Refusal` is the chain of refusals of
`_run_query` in its order. `Ask` begins a walk, `NextPage` sends the cursor on
with any limit, `Stray` is a call with a garbled cursor, a bare offset, or
somebody else's cursor; a refused call ends or leaves a walk as the client sees
it. `walk.got` and `walk.twice` are what the client has been shown.
`MixedFilters` lets a client change kind, layer or role between two pages.

### Registry

Processes start, read the file once, bind ids for status, discover and index
calls, and rewrite the whole file from their own map at each `put` that changes
it. A write is two steps, as `write_text` empties the file first; what a process
reads between them is an empty map. `byId` and `alias` are the registry's two
dictionaries, `"bare"` a ref without a product. `Begin`, `Bind` and `FindAgain`
are the reads of the disk before the lock, `PutAgain`, `Put`, `Persist` and
`PersistFails` the locked part. `Mount` and `Delete` move a directory or a
product away. `told`, `stale` and `disturbed` are history: ids that calls have
returned, processes whose map is older than the file, and whether one of the
accidents has happened that the code does not guard against (a write from an
older map, a death in a write or a read during one, a refused write, a directory
that was away when the file was read). Not modelled: the last id remembered for
calls without arguments; the hash in a workspace token, which is taken as unique.

### KernelClosure

A call site is a record of what the patterns and type tables of
`kernel_tiling_closure.py` find there, so the module has the rules of binding,
not the text. `BindSite` is `kernel_call_read_refine` for one site, in any
order; `ResolveFrontier` is `kernel_call_resolution` for one it left over;
`ClassifyBoundaries`, `RebuildReads`, `ScanWrites`, `NormalizeTruth` and
`Metrics` are the later passes, whole. The graph is `status`, `prov`, `trust`
and `sites` of each edge, and `Link` is what `CodeMap.link` does to an edge that
is there already. `Program` is the set of inputs a run builds. Each site has its own
entities here; in the code overloads of one file share one and are counted once
before the arity is looked at (`kernel_call_read_refine.py:434`), and unresolved
sites on one line with the same receiver and name share one ref (line 735).
`TextOrderIrrelevant` gives what the passes leave as a function of the program
alone (`GraphOfSites`, `VerdictOfProgram`): an edge's status, trust and binding,
the closure, the verdict and the certificate. The `sites` and the provenance of
an edge are not among these, since a guess met before a binding is recorded on
their edge and one met after it is not. Not modelled:
field branches, and the bodies of the first generation, which
`compile_codemap` never asks for (`rebuild_bodies=False`).

### SourceText

`text`, `masked` and `byId` are `_TEXT`, `_MASKED` and `_MASKED_BY_ID`. `heap`
has what was made last at each address; an address nobody refers to (`Live`) may
be given to a new text while `byId` still has an entry under it. A compile goes
through the phases early, source, key (`host_tiling_key`), late, refresh;
`ClearsAfter` has the two phases that `compile_codemap` clears the cache after.
`Miss` and `Store` are the two halves of a read with the file read in between;
`Fail` is a pass that raises, after which `analyze` calls `end_session`. A file
in `Expanding` has macros that make `expand_tpl_source` return a new string; the
key pass masks it, and it dies with the pass. `places` are the line and function
lists that the key pass keeps under object ids, in module state that the next
key pass clears before it begins. `masked_text` is one step. The list of lines
in `kernel_call_read_refine`, kept under ids of cached texts only and cleared
likewise, is not modelled.

`BuildPipeline` has a compile read the sources as they are: the texts kept from
an earlier compile are only in this module. Not modelled: `cached_snippet`,
which looks a line up by a path's tail and may take another work tree's.

### SourceFacts

A content stands for the bytes of a kernel file and for their hash; facts are
given by the content and the file they were made of. `cached` is the cache of
`SourceText` without its masks, `index` the facts by path, `store` the pickles,
one store standing for the folders of both spellings of the architecture.
`Indexed`, `Gone` and `Hashed` are one round of the loop of `get_or_build`, with
`missing` holding the key that was computed in it; `EndLookup` is its end, which
with `Deadlines` may come early; `Scan` makes the facts of one file from the
cached text, in the process itself or in one whose texts do not come back, and
writes the pickle, which may fail. `Answer` hands them to the root trace by
`facts_for`, which falls back on a file of the same name (`StandsFor`). `Stop` is
a pass that raises or a process that dies. Not modelled: what a scan finds, the
native scanner, two processes writing one pickle, a file that cannot be hashed
(`builder.py:694`: its hash is then empty, and all such files share one key). Names that `SourceText` has too
are spelled differently (`FactsSpec`, `Save`, `cached`, ...), so that one module
of proofs can extend both.

## 3. Runs

| Run | Instance | Shows |
| --- | --- | --- |
| `locks` | 4 threads, 2 ids | no lost wake-up; the gate implements shared-read/exclusive-write access; some waiting writer gets in |
| `service_safety` | 3 threads, 4 calls, 2 revisions, 1 crash, disk errors | queries see whole products, one builder, truthful answers, refinement of `AtomicProduct` |
| `service_liveness` | 2 threads, 4 calls | every call returns, every build ends unmarked, gates are held as `SnapshotAccess` allows |
| `build_safety` | 3 contents, 2 revisions, 2 walks read; dirty, cancel, crash, slow | `updated=true` means a whole graph of the current sources, with their walks or a mark; committed freshness is true |
| `build_hazards` | 2 contents, 2 revisions; crash, fail, persist, unread | cached graphs are under the right key and passes are current even then, until an analyze takes the stored fingerprint of other sources |
| `build_noop` | 3 revisions; cancel | *violated*: a noop over an old product |
| `pool` | 3 threads, 2 connections, 3 calls, 5 versions, 1 timer past its look, 1 lost connect | one version per query, exact use counts, nobody waits for nobody, refinement of `AtomicProduct`, calls return |
| `pages` | 2 products, 6 queries, 4 limits, 2 builds | rows in order and once, `exhaustive` is true, walks end |
| `registry` | 2 processes, 2 calls, 2 work trees, 6 events | aliases exact, returned ids are kept, a fresh map is the file |
| `compile` | 6 bodies, 2 classes, 2 fields, every set of up to 4 of 10 call sites | edges, closure and verdict are the same in any order of the text, no callee invented, no site lost, evidence grows, strict is sound |
| `text` | 1 builder, 2 files (one expands), 3 addresses, 2 versions | texts behind the first clear are current, masks exact up to the end of the key pass, lines and functions exact |
| `facts` | 2 files, 2 contents each; edits between compiles, failures, restarts, deadlines | the facts a compile takes are of the bytes there and name the file |

**Why the bounds are enough.** Three threads are a builder, a builder that
queues behind it and a query, or two queries and a builder; a fourth for the
gate adds a second queued writer, so that a notification can wake the wrong one;
two ids show that gates do not interfere. Four service calls allow an index, an
update, and two queries around them, with a restart in between. Two contents
suffice where a property asks whether something is of *these* sources or not;
where walks are cut there are three, so that two former ones fill the list. Two
revisions and checkouts allow a change and its undoing, three (`build_noop`) an
undoing under a new revision. In the pool
three threads against two connections exhaust it; five versions allow two
builds with their stamps; the timer past its look is the one that races.
The constants of the pages are small but ordered as in the code (page default 2,
maximum 3, fetch 5, cap 6 for 8, 32, 64 and 2048), and results of 0, 2, 3 and 7
rows are shorter than, equal to and longer than each of them; two builds allow a
product to be replaced and to come back. Six registry events are two processes
that start, two calls, and a directory that goes and comes. Four call sites let
a binding, a guess, a frontier and a boundary meet on one edge in every order;
what tiling facts add is independent of the sites, so it is enumerated over two
call graphs. Three addresses are one that dies, one that is pinned and one that
is new. Two contents a file let it be edited and put back, so that an old pickle
is found again. `facts` assumes what its properties need: files stand still while
a compile runs, and no two of them have the same bytes or the same name; what
happens otherwise is in section 4.
`TypeOK` is in the runs where it bounds something (lengths of pages, what facts are
of); elsewhere it is left to `TypeCorrect`, which is proved of every module.
Where a theorem covers a property, its run only guards the theorem's statement;
the properties that rest on the bounds alone are listed at the end of section 5.
The symmetry sets are sound: no action tells one thread, content, process or
address from another and no run that uses symmetry has a liveness property.
Deadlock is checked except in `pool`, `registry` and `compile`, which stop when
their calls, events or passes are used up.

**Fairness.** A thread inside a call is scheduled and every engine step returns:
weak fairness per thread, on the gate's wake-ups separately (`SnapshotLocks`) or
on the thread's steps together. Nothing forces a call to arrive, a client to
cancel, HEAD to move or a timer to fire. Python's `Condition` gives woken
threads no order, so there is no strong fairness, and starvation of one of
several queued writers is not excluded: `SomeWriterEnters` promises only that
some writer gets in. Calls are bounded, so `CallReturns` is about finitely many
contenders. In `QueryPages` the client asks on while it holds a cursor, which is
what `WalkEnds` is about, and a build that has begun ends.

## 4. What the runs found

Listed in `PROJECT.json` with its run:

1. *Noop over an old product* (`build_noop`). Update extracts, is cancelled; a
   commit with the same sources follows; the next update finds the fingerprint
   equal and answers noop, while the product is still the old one
   (skills/update-operator/SKILL.md:27 promises that the graph matches).

Further counterexamples, each from a configuration in this directory that is run
by hand (`tlc -config X.cfg M`, with `-continue` where it has two properties):

| Configuration (module) | Violates | What happens | What the repository says |
| --- | --- | --- | --- |
| `MCServiceUnanswered` (`MCCodemapService`) | `BuildingIsAnswered` | during a first index, and between unlink and replace of any commit, a query is told `CODEMAP_NOT_INDEXED` | README.md:112 and skills/index-operator/SKILL.md:24 promise `freshness=building` |
| `MCServiceSplitIds` (`MCCodemapService`) | `QueryConsistent` | a directory not named after its operator: an index holds one id's gate and publishes under another; a query reads a product that is being stamped (each gate stays exclusive and versions never go back: `ServiceUsesGates`, `ProductsNeverGoBack`) | `service/locks.py:2` |
| `MCServiceDone` (`MCCodemapService`) | `DoneIsNotBuilding` | a completed answer says `freshness=building`: it is computed inside the call's own gate | tests/test_mcp_protocol.py:257 |
| `MCBuildReverted` (`MCBuildPipeline`) | `FreshIsCurrent` | a dirty tree is indexed under the clean HEAD; after `git checkout` of the file the product is fresh | README.md:103 |
| `MCBuildWalks` (`MCBuildPipeline`) | `NoOldWalks` | `cache/tu` has a walk of each content a unit ever had, and all are read into the next graph | `build.py:213` |
| the same | `WalksThere` | once there are more walks than a pass reads, those of former contents may fill the list: the graph has no call sites of the units as they are. The root trace says so (`kernel_scan.py:735`), nothing else does, and the answer is still `updated=true` | `kernel_scan.py:299`, "the TU Clang actually saw" |
| `MCBuildUnread` (`MCBuildPipeline`) | `UpdatedIsOfSources` | A is indexed; an update to B crashes after its fingerprint was stored; in an update back to A a source cannot be read for a moment: extraction fails, `analyze` goes on (`apply.py:290`), compiles A's sources and keeps the graph under the stored fingerprint, B's (`pilot_engines.py:1336`), and the server dies before the commit or the call ends as `failed`; an update over B then skips the extraction, finds B's key and answers `updated=true` with a graph of A's sources | `build.py:139`, "only when extract identity still matches" |
| `MCCompileStrict` (`MCKernelClosure`) | `StrictIsUnambiguous` | a closure is strict with reachable ambiguous reads and unresolved setters: `tiling_unresolved_sites` has no reader, and the ambiguous writers are counted again by the truth pass, among entities that no pass makes, which gives zero | `kernel_tiling_metrics.py:3`, `kernel_tiling_truth.py:28` |
| `MCRegistryProject` (`MCRegistry`) | `ProjectIsHonoured` | `resolve` compares `project=` only if several projects share the alias; one other project that has it is answered | tests/test_runtime.py:189 |
| `MCPagesCursor` (`MCQueryPages`) | `CursorAdvances` | entry rows are cut to the first page before `paginate`; the cursor leads to an empty page and the rest is never shown | tests/test_result_set_completeness.py:89, README.md:333 |
| `MCPagesTotal` (`MCQueryPages`) | `TotalIsPopulation` | the total of a find grows from page to page, with the fetch | `service/query.py:309` |
| `MCPagesExhaustive` (`MCQueryPages`) | `ExhaustiveMeansAll` | a find that filters in Python says exhaustive of its first fetch | `service/query.py:309` |
| `MCPagesFilters` (`MCQueryPages`) | `PagesInOrder` | kind, layer and role are not in the cursor's fingerprint: a walk mixes rows of two results | `service/query.py:442` |
| `MCTextExpanded` (`MCSourceText`) | `MaskExact` | the mask of an expanded text stays under its id after `host_tiling_key`; the next text at that address gets it (reproduced on the code) | `source_text_cache.py:95`, "object identity of `read_text` hits" |
| `MCTextTwoBuilders` (`MCSourceText`) | `MaskExact` | two operators compile at once: the `clear()` of one unpins a text the other still masks | the same |
| `MCTextCurrent` (`MCSourceText`) | `AllReadsCurrent` | the analyze passes run before the first clear (line 267), the last `tpl_schema` pass after that of line 328, and nothing clears after a compile that succeeds: index, edit an included selection header, update in the same process, and the graph has the `ARGS_SEL` groups of both headers, a fresh process only the new ones (reproduced on the code) | `build.py:213`, "current source" |
| `MCTextTwoBuilders` (`MCSourceText`) | `PlacesExact` | two operators in the key pass at once: a text of one dies, the other gets its address and with it its line and function lists | nothing: the lists are cleared once a pass, which is enough for one |
| `MCFactsKey` (`MCSourceFacts`) | `KeyNamesContent` | the file is hashed as it is now (`builder.py:695`), the text scanned is one an earlier pass read (line 341): a file saved in between leaves the call sites of its old text under the hash of the new one, on disk, for every later compile of these bytes (reproduced on the code) | `cache.py:4`, the key is the file's bytes |
| `MCFactsCopies` (`MCSourceFacts`) | `FactsOfOwnFile` | two files with the same bytes, or one that is renamed: the call sites of one are given the path of the other (reproduced on the code) | nothing; the key leaves the path out on purpose, the facts keep it |
| `MCFactsNames` (`MCSourceFacts`) | `FactsOfOwnFile` | the deadline cuts the look-up short, and a file gets the facts of one of the same name in another directory | nothing |

Other divergences seen while modelling, without a configuration of their own:

- With failing steps the IR may be older than the passes even in a call that
  says `updated=true`: extraction fails, `analyze` restores the old pickle
  (`pilot_engines.py:1371`) and compiles old IR with new sources under the new
  fingerprint, commit fails; the next update reuses that graph and completes.
  This is why `CompletedIsCurrent` and `WholeGraph` are claimed without `fail`.
- An update whose extraction failed still commits (`apply.py:277`): it answers
  `failed`, the product has the old IR under the new HEAD and is `fresh`.
- If the pickle could not be written, the fingerprint is stamped all the same
  (`pilot_engines.py:1152`, `1257`), and the next extraction is skipped in
  favour of an older pickle: `persist` is excluded for the same properties, and
  `unread` because an extraction then fails like any other step.
- When the stamp delta cannot be computed, git's rows decide although there is a
  fingerprint (`changes.py:57`): sources that git has as changed and the last
  extraction had seen are then extracted again, which is only work.
- A checkout between extract and commit gives the new HEAD to a graph of the
  old sources (`codemap_engines.py:495`): `during` is excluded.
- An update cancelled after its commit answers `updated=false` (`apply.py:227`)
  though the product is new.
- If names differ, the building flag of the id an update came with may stay up
  (`control.py:590`).
- `writer.py:549` says "Overwrites atomically", lines 831-834 unlink and then
  replace; `ProductSurvives` says when the product can be away.
- `_STORE` is one dictionary for all operators: `_put_bundle` writes bundle, key
  and fingerprint one after the other, and a build of another operator that looks
  between the first two finds its own key beside a bundle that is not its own.
- With two builders a text read before an edit may be kept after another's
  `clear()`: `SourcePassesCurrent` too is stated for one compile at a time.
- `reach` in the closure's verdict counts bodies reached over partial edges,
  though `kernel_call_read_refine.py:8` says that an ambiguous call never
  contributes (`NoGuessInClosure`). A frontier edge that lands on a guess stays
  partial; guesses stay in the graph when their site becomes external; reads
  directly in a `__global__` body are dropped; host writes seen by clang only
  are no producers for the metrics.
- A registry ref without a product may replace the one with it
  (`identity.py:352`): the id answers `CODEMAP_NOT_INDEXED` until somebody binds
  it by project again.
- Evidence handles `ev:` are never found again (`service/evidence.py:96`).
- `close_uo_connections` forgets leased connections, so after an eviction
  or a timer during a query the pool may open more than its limit; and a connect
  that fails after the count was raised is counted for ever: after `PoolMax` of
  these every query waits for nobody. `NoWaitForNobody` and `CallReturns` are
  stated for fewer lost connects than places.

## 5. Proofs

All theorems hold for every value of the constants that the named `ASSUME`s
admit: any set of threads, contents, programs, files and rows, any bounds.

**SnapshotLocks_proofs.** `IInv` = types, `ReadersCounted`, `FlagOwned`, and
`Drained`: a writer inside means a count of zero. `WriterAlone` is not inductive:
that no reader is inside follows from the count, that no reader comes in from the
flag. `NoLostWakeup` is inductive with the types. `SleepersAreOwed` follows from the
three: whoever sleeps in a gate sleeps beside somebody inside it, or a drainer
that has been woken, and so never among sleepers only. `WriterPreferred` and
`Refinement` check steps: entering a section is `BeginRead`/`BeginWrite`, leaving
it `EndRead`/`EndWrite`, everything else stutters.

**CodemapService_proofs.** `TypeCorrect`, `ServiceUsesGates` and
`ProductsNeverGoBack` have no assumption; the other theorems assume `SameName`,
since they are false without it (`MCServiceSplitIds.cfg`).
`Inv` is `TypeOK`, `GateInv`, `FlagInv`, `QueryInv` and `FileInv`. `GateInv` says
that all calls use one id, that one thread holds the gate, and that no query is
inside together with a builder's body; one holder, and not one body, is what is
inductive, because `Enter` looks at the readers and not at the flag. `FlagInv`
says who owns the flag, `QueryInv` that the meta a query holds is the product
as it stands, and `FileInv` relates `built`, `last`, `tmp`, `product` and each
builder's `mine`. `ServiceImplements` maps every step to one of `AtomicProduct`
or to a stutter. `ProductStays` assumes no crash and no disk error besides: the
thread that has unlinked the file is the only one that can keep it away, since
by `FileInv` it has a `.tmp` to put there. `GatesApart` is `GateInv` for each id by
itself (one holder, no reader beside a body); with it every step is one of
`SnapshotAccess` or a stutter, so what split ids break is not the gate but who
goes through which. `AgeInv` is what is left of the file then: the `.tmp` has the
version written last, whoever wrote it, and nothing read is younger than `last`,
so neither a replace nor an answer goes back.

**BuildPipeline_proofs.** `TypeCorrect` holds under all hazards.
`CachesAreHonest` and `PassesAreCurrent` assume only that the tree stands still
during calls: steps, reads and writes may fail. They are about what holds as long
as `known` does, that is until an analyze that could not compute its fingerprint
has taken the stored one of other sources; without this they are false
(`MCBuildUnread`). A fingerprint taken so by a call in which nothing failed before
is the one its own extraction has just stored, which is why `PassInv` follows `fp`
from the stamp to the compile. `CompletedCurrent`, `GraphWhole` and `FreshIsTrue`
assume `NothingFails` (no `during`, `fail`, `persist`, `unread`; edits, cancels,
crashes and a budget are allowed), because with these they are false (section 4).
`BuildInv` has four parts: `KeptInv` (a kept graph is of the content it is kept
under), `StepInv` (what the call under way holds is of the sources now),
`SkipInv` (when extraction is to be skipped, the pickle is of the stored
fingerprint) and `WholeGraph`. `FreshInv` adds that while all edits are commits
the revision a product carries names the contents it was made of.
`WalksAreComplete` excludes only `persist` and has an invariant of its own,
`WalkInv`: every IR kept anywhere has its walks in `cache/tu`, and every graph
kept anywhere has those of its IR or the mark; for that, a list of walks that is
not marked must be the whole of them (`LoadWalksGood`), whatever the limit is.

**QueryPool_proofs.** No assumption but those on the constants. `GateInv` as
above; `UseInv` (the use count is the number of users); `FileInv`, `LeaseInv`
and `SeenInv`: what is idle, leased or cached is of the newest version, and
between the closing of the pool and the writing of the file the pool is empty.
`SnapshotOne` needs all five: a version is written only when nobody is inside,
so nothing leased can become old, and a facade in use cannot be replaced.
`WaitForSomebody` rests on `CountInv`: what is counted is idle, lost, leased or
being opened. The count may be too small, never too large. `SomebodyAlwaysMoves`
adds the gate: who drains waits for a query, and who waits for a connection, by
`WaitForSomebody`, for a query that has or opens one and waits for nothing.
`PoolIsTransparent` maps a read to `Answer`, a failed open or connect to
`Abandon`, a replacement and a stamp to `Write`, and the timer, the eviction and
the deletion to nothing. `PoolInGate` needs `GateInv` only.

**QueryPages_proofs.** `PagesKeepOrder` and `ExhaustiveIsTrue` assume that the
client keeps its filters (`~MixedFilters`), and that a page is shorter than the
least fetch, an assumption on the constants that the code satisfies (32 < 64).
The invariant: what has been shown is the first `n` rows of one result, the
cursor held stands at `n`, and `exhaustive` was said of `n` rows against the
total of that operation. The three operations are cases of one lemma about
`Paginate`. `EachPageLeadsOn` assumes nothing about filters: from any offset the
next one is further on, because a cursor is offered only behind a row that was cut.

**Registry_proofs.** `AliasIsExact` has an invariant of its own (the alias index
is a function of the map). `RegisteredIsSaved` and `FreshMapExact` rest on one
writer at a time, on "the map of a process that is not stale is the file", and on
the fact that a step that breaks either sets `disturbed`. `ReturnedIdsAreKnown` is
what the two say together.

**KernelClosure_proofs.** `BinderInv` follows a call site through the passes:
what a binding has confirmed stays confirmed (`Link` promotes only), a site the
binder left over is unresolved until the frontier pass takes it, and after the
boundary pass none is. `TextOrderMakesNoDifference` has two invariants. `OrderInv`
says of each edge what it is as a function of the sites the binder and the frontier
pass have met so far, and that the frontier pass is given exactly those the binder
left over; a step adds one site, in any order, which is where `Link` must promote
and never fall back. `VerdictInv` says what each later pass has put into the
verdict. `StrictIsSound` is a corollary: a reached body's certain read is a read in
the graph, reachability over confirmed edges is part of the one the verdict uses,
and every consumed field has a producer. `VerdictOfProgram` also shows what is not
among the verdict's conditions although the code tests it: unresolved calls and
ambiguous writers, of which there are none in any program by then.

**SourceText_proofs.** `TypeCorrect` has no assumption on the builders. The
others are about one builder at a time, and are false for two. `AgeInv`: behind
the first clear everything kept or pending was read since the compile began.
`MaskInv`: what has a mask under its id is pinned by `_TEXT` or held by the
pass, so that its address cannot be given away; the clause is conditional on the
key pass not having returned, or on nothing to expand (`MasksExact`). `PlaceInv`
is the same of the line and function lists, within a key pass: it needs no such
condition, because each key pass begins with none.

The same module proves `SourceFacts`. `FactsTypeCorrect` has no assumption.
`FactsAreCurrent` assumes that files stand still during compiles (`~EditsDuring`;
false otherwise, `MCFactsKey.cfg`) and that names differ; its invariant
`CurrentInv` says of each place a compile reads from that it is of the bytes now:
texts and facts by path behind the first clear (and none elsewhere), the keys of
what is to be scanned, the pickles under their hash (`StoreIsHonest`).
Without `NamesApart` the same invariant gives `FactsAreOfNamesakes`. It rests on
the place of the clears: an index kept past the second one would meet edited
files. `FactsNameTheirFile` needs names and bytes apart (false otherwise,
`MCFactsNames.cfg`, `MCFactsCopies.cfg`), but holds with edits at any time: it is
about which file a key leads to, not about which moment.

**Only model-checked:** liveness (`SomeWriterEnters`, `CallReturns`,
`BuildingEnds`, `WalkEnds`), which is out of the prover's reach. The safety behind
each is proved: `SleepersAreOwed`, `SomebodyAlwaysMoves`, `FlagHasOwner`,
`EachPageLeadsOn`.

## 6. Not modelled, and why

- *Query engine* (`engine/query/sql.py`, `explore.py`, `bundle.py`, ...): some
  20,000 lines of SQL, ranking and rendering over one committed product. They
  keep no state between calls but caches whose version `QueryPool` has, and
  nothing in them depends on an order of events; how the rows of search, find
  and entry are counted and cut is in `QueryPages`.
- *Clang frontend and IR extraction*: a function of the sources through libclang.
  In the models an IR is the content it was extracted from.
- *The other passes*, `kernel_root_trace.py` and `source_contract.py` among
  them: one thread, one fixed order, text patterns to entities. Their rules are
  about the text itself, of which the models keep nothing but version and file.
- *Scope and layout, semantics tables, diagnostics*: functions of directories,
  tables and a finished graph; their outcomes (in scope, blocked, failed) are
  choices of the models.
- *Status, discover, doctor*: reads only. Status reads the flags one after the
  other and may combine two moments; no document says it does not.
- *The probe cache of freshness* and *two operators built at once*: the first is
  a matter of seconds, which the models do not have; the second is modelled
  where state is shared by id (`SourceText`, two builders) and for gates and
  ids (`SnapshotLocks`, `Registry`), not for `_STORE`.
- *Transport, installers, CANN extraction, the query daemon*: no state that
  others rely on, or not called.
