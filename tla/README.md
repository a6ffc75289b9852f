# A verification project for jmeter-on-k8s

The repository holds two programs that share nothing but a directory:

* a **Kubernetes operator** in Python (`start.py`, `api/`, `utils/`, `consts/`), which keeps
  JMeter clusters: it creates the resources of a cluster, sizes its StatefulSet, sends load-test
  commands to its pods and reports its status;
* the beginnings of a **cache server** in C (`src/`): a hash table, a linked list, an integer set,
  a compact list, dynamic strings, an allocator, and one file of server logic. Its event loop,
  network and persistence files are absent, so it does not link, and `cache.c` and `ziplist.c` do
  not compile as they are. Each file that is there is modelled as written.

`upload/main.go` and `deploy/` complete the repository.

## Components

Paths are relative to the repository. `PROJECT.json` lists the same components with their status.

### Operator

| Component | State it keeps | Operations | Must be true |
|---|---|---|---|
| Creation, `start.py:87` `create_fn` | the resources of a cluster; kopf's record that it has returned | validate; find and create config map, two volumes, StatefulSet, nginx deployment, service; two events; first status | nothing is created for a bad spec; running it again after a restart completes it; what is missing is reported |
| Sizing, `start.py:182`, `api/statefulset_api.py` | `spec.replicas` of the StatefulSet; `spec.instances` as last handled | take the mutex, validate, patch the size or create the StatefulSet, status | the StatefulSet ends with the size asked for |
| Probe, `start.py:39` `on_timer` | - | count running pods, write status | the status settles on what is there |
| Deletion, `start.py:200` | volumes | delete both volumes asynchronously | nothing stays behind |
| Command dispatch, `start.py:168`, `api/crd.py:195`, `api/pod_api.py` | exec threads, scripts in pods, marks in the status | validate; list the pods; per pod mark, then start a thread; join all | a running script is marked, and no mark is taken back; two commands do not overlap unless something failed; the last command is handled in the end |
| Mutex, `api/cluster.py`, `utils/base_utils.py` | one key of an in-memory dict | `__enter__`, `__exit__` | held exactly inside the block, whatever leaves it |
| Status update, `api/crd.py:222` `set_status` | `status.cluster` in the API server | GET, merge, PATCH with the `resourceVersion` read | concurrent writers lose nothing |
| Templates, events, set-up, API clients | - | text, constants, client objects | only what the handlers depend on is modelled |

They interact through the object in the API server (spec, status, kopf's annotations), through the
mutex, and through the resources of the cluster. The hard behaviours: the timer and the handler
threads write one status; any API call may fail with or without effect; handlers that raise are
called again; the operator may die at any step and forgets its mutex and threads, while scripts in
pods and requests already sent go on; volumes are created and deleted in a thread pool that nobody
watches; pods come and go.

Facts about the code that shaped the models:

* `start.py:173` and `:186` log `Ignore ...` for a cluster that is not ready and ignore nothing: the
  handlers go on, and nothing writes the `createTime` that `ready` looks for.
* The pods mount both volumes whether or not the spec asks for them.
* `JmeterClusterSpec.load` does not read `spec.instances`: the parsed value is always 1.
* The getters answer `None` to every `ApiException`, not only to 404.

### Cache server

| Component | State | Operations | Must be true |
|---|---|---|---|
| `dict.c` | two tables, `rehashidx`, count of safe iterators, resize switch | add, replace, delete, find, random, expand, shrink, rehash, clear, iterate, scan | a map, whatever rehash is going on; exact counters |
| `adlist.c` | head, tail, length | push, insert, delete, iterate, rotate, release, copy | the links agree in both directions and with the ends; an iterator meets all that stays |
| `intset.c` | values by position, width | add, remove, search, upgrade | what a search concludes is so |
| `sds.c` | length and free of each string | grow, append, print, trim, range; split and quote arguments; split by a separator | no write beyond a block; nothing leaks; what is quoted is read back |
| `zmalloc.c` | used-memory counter | allocate, reallocate, free | what is allocated is freed; the counter follows the memory in use (it does not) |
| `ziplist.c` | bytes with back-lengths | push, insert, delete, cascade update | readable from both ends (not modelled) |
| `cache.c` | databases, expiries, children, clients, cron cursors, the command table | start-up, expiry cycle, database cron, client cron, command gates, propagation | files for all clients; every database and client is served; one child at a time; no write when there must be none; each change fed once |

Everything runs in one thread: what is hard is the interleaving of legal calls, not of threads.
A rehash that moves a bucket per call meets every other call between two buckets; counters are
trusted far from where they are kept; cron work is cut into slices, and around it child processes
end and clients come and go.

Facts about the code that shaped the models:

* `zmalloc.c:38` adds a size to the counter only when it has to be rounded up, and `:51` takes every
  size off. Usable sizes are multiples of 8, so the counter only goes down, and wraps (finding 4).
* `sdsMakeRoomFor` (`sds.c:638`) and `sdsRemoveFreeSpace` move a string and leave its header as it was. A string
  that starts empty and is appended to is given room once: `free` wraps, the block is never enlarged
  again, and what does not fit it is written beyond it. `sdsCatRepr` and `sdsSplitArgs` append so.
* `sdsSplitLen` compares with `memcpy`: a character that is no separator becomes one, and a separator of
  several characters is never found. Its index is not initialised.
* `listAddNodeTail` does not count. `listDup` dereferences the iterator 0, `listRelease` hands the free
  method of the list the wrong node, `listNext` is only declared (its body is called `listNode`).
* `intsetAdd` hands the *width* of its value to the search and to the upgrade. No set is ever wider than
  16 bits, and every add looks for 2. `insertRandom` divides by the length of an empty set.
* `cache.c` does not compile (`active_expire_enabled =;`, macros that are defined nowhere). The models
  take active expiry as enabled, `CACHE_CMD_SORT_LOADING` as `CACHE_CMD_LOADING`, and what is missing
  from how it is used.
* `CACHE_CMD_FAST` is 9192, not 8192: commands with `F` have the flag for loading, too, and four more. The row
  of `hscan` has flags of -3.
* `cache.c:1575` lets `SHUTDOWN` through a slow script if its argument begins with a newline; the reply it
  gives everyone else (`:826`) says that `SHUTDOWN NOSAVE` is what to send.
* `processCommand` ends behind its last gate: nothing is queued or called. `call` never assigns `dirty`.
* A forced file is lost: `call` ors `CACHE_FORCE_AOF`, a bit `propagate` does not look at.
* `serverCron` compares `pid` with what `wait3` returns and never assigns it: a child that ended may be lost, its
  pid kept for good. `saveparams` is a cursor that is never put back.

## Modules

```
KeyValueMap  <-- Dict  <-- MCDict
                 Dict  <-- DictWalk  <-- MCDictWalk, DictProofs
StatusStore  <-- StatusPatch  <-- MCStatusPatch, StatusPatchProofs
                 StatusPatch  <-- CommandDispatch  <-- MCCommandDispatch, CommandDispatchProofs
StatusStore  <-- ClusterLifecycle  <-- MCClusterLifecycle, ClusterLifecycleProofs

Zmalloc  <-- Sds
             Sds  <-- SdsArgs
             SdsArgs, SdsSplit  <-- SdsProofs
AdList, IntSet  <-- ContainersProofs
SdsArgs, SdsSplit, AdList, IntSet, Commands, Propagation  <-- MCParts
Startup, ServerCron, ClientsCron  <-- MCServer
Startup, ServerCron, Commands, Propagation  <-- ServerProofs

NaturalFacts  <-- DictProofs, SdsProofs, ContainersProofs, ServerProofs
```

MCParts and MCServer put side by side what shares no state, and a run follows one part: in MCParts a
string, the splitting of a line or that of a text, a list, a set, the gates in front of a command or the
propagation behind it; in MCServer, after a start, the cron of databases and children or that of clients.
The state spaces add up and are not multiplied.

**KeyValueMap** is what a caller of a hash table is promised: a function from keys to values and
the answer of the last call.

**Dict** is `src/src/dict.c`. `dict` holds `ht0`, `ht1`, `rehashidx`, `iterators` as in `struct
dict`; a chain is the set of its entries, since its order only decides which entry a walk meets
first. One call is one action, and a call that first makes a step of an incremental rehash makes it
inside the action. `RehashStops` gives where the walk of `dictRehash` stops: after n buckets, after
`n * EmptyVisits` empty ones, or when nothing is left. `dictEmpty` resets the count of safe
iterators as the code does, so the count may go negative when they are released. Integers are not
cut at a width: tables are far below `2^31`.

**DictWalk** adds the two walks that the file offers while a Dict is in use. A scan is a cursor that
outlives any calls between two `dictScan`s; the reversed-bit arithmetic is written out over words of
`Width` bits (the code's 64 act the same: what is proved of a scan holds of any width).
A safe iterator is its place, `nextEntry`, and what is chained behind. `seen`, `twice`, `stayed` are history.
The body of an iteration is taken to leave alone what the code cannot survive: deleting the entry that
`nextEntry` points to, `dictEmpty`, and `dictRehashMilliseconds`, which is the cron's.

**StatusStore** is an atomic merge of fields into `status.cluster`. **StatusPatch** is `set_status`
for any number of writers: `Get`, then `Patch` or `Refuse`; `Touch` is any other write of the
object. `resourceVersion` is only ever compared with the current one, so the set `fresh` of writers
whose copy is current stands for it.

**CommandDispatch** is one change of `spec.command` after the other. `h` is the kopf handler (its
place in the code, the command, the number of its attempt, the pods listed and still to do); a
script and the thread that waits for it are a task `[pod, attempt]`. Inside the mutex the cluster is
validated first (`valid`: its name, which never changes); what fails is retried for ever. A list of the pods that fails
comes back as `None` or raises, as the exception is. The two halves of `set_status`
are steps of their own, taken from StatusPatch, because the timer, kopf and users write between
them. `aborted` and `broken` are history: attempts that raised, streams that broke.

**ClusterLifecycle** is one cluster from its creation to its collection: every call of `create_fn`
with its failures, the handler of `spec.instances` with `update_size`, the timer, the delete
handler, and beside them Kubernetes, users, the pool of asynchronous requests and restarts. Here
`set_status` is one step, which StatusPatch shows it to be. `h` is the running change handler, `t`
the timer. `have` is the set of resources that exist.

**Zmalloc** is the counter, and a history of how many blocks are in use: operators on a record, composed by the calls of **Sds**, where one string
meets every call of `sds.c` that changes its length or its block. A block is known by its usable size,
a write by where its NUL lands. `len` and `free` wrap at `UInt`, sizes at `SizeT`. `stale` is history: a call
left the header untrue; what happens to such a string afterwards is modelled too, up to the first write beyond its block
(`corrupt`). `sdsCatVPrintf` is one iteration of its loop at a time.

**SdsArgs** is `sdsSplitArgs`, a character at a time, over classes of characters (quotes, backslash,
spaces, hex digits, one that is not printable), and `sdsCatRepr`, which writes such lines. It extends Sds
for what appends do to a string that starts empty: up to `Room` characters land in its block; the next one is
written beyond it, after which nothing is known (`wild`). **SdsSplit** is
`sdsSplitLen`, an iteration at a time, its index started anywhere, any allocation of a token failing.

**AdList** keeps both pointers of each node, the ends, the count modulo `ULong`, and one iterator. A NULL
that is dereferenced ends the process (`crashed`). `linked`, `lost` and `uncounted` are history.
**IntSet** keeps the values by position; a search is one iteration of its loop per step, and each
call ends with what it makes of the result (`AddFound`, `RemoveFound`, `FindFound`).

**Startup** is `initServer` up to the event loop, `adjustOpenFilesLimit` one `setrlimit` at a time, every
call of the system free to fail. `maxclients` is unsigned. **ServerCron** is a tick of `serverCron` in its parts, by
`pc`: expiry (`activeExpireCycle` visits any number of databases up to its quota and stops late only where
the code reads the clock), resizing, rehashing, the put-off rewrite, `wait3`, saving, growth; between two ticks
clients change the volatile keys of a database and ask for children, `SLAVEOF` turns the server round, children end, and
`beforeSleep` runs the fast cycle. The volatile keys of a database are
"empty", "dense" or "sparse"; the expiry passes over the last. Cursors wrap at `UInt`. **ClientsCron** is the list of clients by turns: idle
ones are closed, blocked ones answered, query buffers shrunk. New clients are taken to join at the head: at
the tail they would not be counted.

**Commands** is the table (one row per combination of letters and key positions), `populateCommandTable`
with the bits as defined, and `processCommand` as its gates in order; `srv` is the set of conditions they
look at. **Propagation** is `propagate`, `alsoPropagate`, `forceCommandPropagation` and `call`, for a client
and for its script. Command bodies, `multi.c` and `scripting.c` are not in the repository: MULTI, EXEC
and scripts are external steps.

Both operator modules take from kopf, which is external: change handlers of one object run one at a
time; a handler runs when its field differs from what was last handled, and again after it raised;
what was handled is stored when it returns; `create_fn` precedes the field handlers; plain functions
run in threads, coroutines in the event loop (`create_fn` and `on_timer` never await, so neither runs
inside the other). From Kubernetes: optimistic concurrency on `resourceVersion`, a StatefulSet
controller that starts and stops pods in any interleaving, collection of owned objects.

## Runs

| Run | Bounds | Distinct states | Shows |
|---|---|---|---|
| `dict` | 2 keys that collide in small tables, 2 values, sizes 1 to 8, batch of 2, 1 iterator | 38,112 | a Dict is a KeyValueMap (`MapSpec`), its counters are exact, lookups complete, random draws reach every entry |
| `dict_walk` | 3 keys, 1 value, sizes 1 to 8, words of 3 bits, one walk at a time | 121,426 | a scan and an iteration return every entry that stays, an iteration no such entry twice, and a scan ends |
| `status_patch` | 3 writers, 3 fields | 1,716 | concurrent `set_status` calls are atomic merges (`AtomicMerge`) |
| `command_dispatch` | 2 pods, 2 commands, 2 edits, 1 timer round, 1 fault | 456,423 | mutex, marks, threads and scripts agree; no mark is taken back (`MarksKept`); the last command is handled in the end |
| `cluster_lifecycle` | sizes 0 to 2, 1 edit, 1 failure or restart | 408,039 | creation, sizing, probe and deletion end where they should |
| `parts` | strings up to 8, words of 32 and 64 values; all lines up to 4 characters, lines of quotes and one letter up to 8, and what is quoted of 3; texts up to 6, separators of 1 and 2; 4 nodes, counts modulo 8; sets up to 5 of 8 values, narrow and wide; 2 conditions at a time; 2 operations, 2 calls | 331,820 | strings: a truthful header is safe (`BufferSafe`), no block is left behind (`BlocksAccounted`), quoting reads back (`RoundTrip`), bad lines leak nothing (`NothingLeaks`), the vector of tokens has room (`TokensFit`); containers: links agree (`Mirrored`), the count is off by the uncounted (`CountDrift`), iterators are complete (`IterComplete`), searches exact (`SearchExact`); commands: writes are held (`WritesHeld`), changes are fed once and in order (`FedOnce`) |
| `server` | 9 limits on files; 2 databases, cursors of 3 values, 1 database per tick; 3 clients, 1 looked at per tick | 148,201 | files for all clients (`FilesFit`), no database starves (`NoDbStarves`), one child (`OneChild`), sparse tables shrink (`SparseRecovers`), clients have their turn (`EveryClientsTurn`) |
| `event_truthful` | sizes 0 to 2, 1 failure | - | violated: see finding 1 |
| `size_applied` | sizes 0 to 2, 1 failure | - | violated: see finding 2 |
| `sized_despite_restarts` | sizes 0 and 1, 2 edits, 1 restart | - | violated: see finding 3 |
| `bytes_in_use` | as `parts` | - | violated: see finding 4 |
| `enough_files` | as `server` | - | violated: see finding 5 |

**Why the bounds are enough.** `dict`: hashes 1 and 5 collide in tables of 1, 2 and 4 buckets and part
in one of 8, so a rehash splits a chain, joins two and skips empty buckets; two entries suffice for a
load factor on either side of the limits (`ForceRatio` is 1 instead of 5, the initial size 1 instead
of 4, so that forced growth happens with two keys). `dict_walk`: the cursor needs a bit beyond the sizes
2 and 4 to be in the middle of a split, and keys on both sides of it; its VIEW leaves out `ret`, the answer of
the last call, which no action reads. `status_patch`: a lost update needs two writers and
one who read before both. `command_dispatch`: the interesting failure is a conflict on the second pod
while the first runs its script, and then an attempt with another command; that needs two pods, two
commands, two edits, and one write beside. `cluster_lifecycle`: sizes below, at and above the default
of one replica; a spec with both volumes and one that leaves one out; one fault at any call. With two
faults nothing new happens in the safety part: a second failure of the same handler leads to the
retry that the first has led to.
`parts`: words so small that lengths reach half of them, and pre-allocation below and above its limit;
four characters are an opening quote, a backslash, what it means and a closing quote; seven are the
room of an argument, so that lines of eight, and quoted strings, reach beyond it; six
characters fill a vector of two slots twice over; the list has a middle with neighbours on both sides, beside a node
that is inserted or deleted, and the set values below, at and above 2 of each width, and lengths that a
search halves twice; gates refuse alone or hide one
another, for which two conditions are enough: the first to refuse decides. `server`: limits below, at and above every sum that
`adjustOpenFilesLimit` compares; 3 is no multiple of 2, so the cursors wrap in the middle of a round;
more clients than a tick looks at (`Iterations` of three clients is one).

Deadlock is checked in `dict`, `dict_walk`, `status_patch` and `command_dispatch`. It is not where the
system may really stop: a cluster that is deleted and collected (`cluster_lifecycle`); a line or text that
has been split, a write beyond a block, a process that has crashed, a client that is to be closed, or a program
that read what was freed (`parts`); a process that has left `initServer` by `exit` (`server`).

**Fairness.** `Dict`, `DictWalk` and `StatusPatch` need none: that a scan
ends is an action property, the reversed cursor only goes up (`ScanAdvances`). In `CommandDispatch` kopf calls a handler until it
returns and its steps go on (`WF(Handler)`), the timer finishes what it began, and a load test ends
(`WF(ScriptEnds)`; the code has no timeout for one that does not, a hazard that no property covers). Faults, edits and timer
rounds are bounded: with a conflict at every attempt no retry would ever succeed. In
`ClusterLifecycle` the event loop takes its tasks in turn, so a handler that is ready time and again
starts although the timer may be busy at the moment (`SF(Start)`); handlers, timer, controllers and
the thread pool go on when they can (`WF`). Nothing is assumed of failures, edits, deletion and
restarts. In `ServerSpec` the event loop calls `serverCron` every `1000 / hz` milliseconds and with it
`clientsCron` (`WF` of both), and a process that writes a file ends (`WF(ChildEnds)`). Clients may do what
they like, but for one bound: they ask for a child or turn the server round (`SLAVEOF`) at most `MaxAsked` times, so what is shown of
`SparseRecovers` is that the switch comes back once they stop asking. The other modules of the cache server need no fairness.

**Properties of CommandDispatch.** `MutexTracksDispatch`, `MarkedBeforeRun`, `NoStrays`, `AllListedMarked` (safety).
`NoStrays` is about scripts, and lets those of an abandoned attempt go on: after a conflict on a later pod the
threads already started are not joined, and such a script may still run when the retry of the same command
counts as handled. `MarksKept` (a step may not): the mark of a pod is taken back by no one, not by a writer whose
copy is older than the mark. `CommandSettles`: the last command of a cluster that passes `validate` is handled
in the end, and the handler is idle; with a name too long it is retried for ever, which the model shows too. It is
stated under the fairness that scripts end.

**Properties of ClusterLifecycle.** `InvalidCreatesNothing`, `MissingIsReported`, `CreatedMeansWhole`,
`SizeAppliedCleanly` (safety; the volumes whose request failed in the pool or was forgotten by a restart are
left out, and reported nowhere); `StsAppears`: a StatefulSet that `create_fn` failed to create is created by
`update_size`; `StatusTracksPods`: the status settles on the pods there are, whatever handlers and timer
raced to write; `ScaledCleanly`: without failures replicas and pods reach `spec.instances`;
`GoneLeavesNothing`: after a deletion nothing stays, not even a volume whose creation was still under way.

**Properties of the cache server** that need a word. `FilesFit` leaves out a server whose limit is below what
it keeps for itself: the difference wraps, and the exit that is meant for it is not taken (finding 5). `NoDbStarves` bounds
the wait in visits, two rounds of the databases, because a cursor that wraps may repeat part of a round. `SparseRecovers`
holds unless a child is lost: then the pid stays and resizing never comes back. `BufferSafe` speaks of strings with a truthful
header; one that `sdsMakeRoomFor` has moved may be written beyond its block, which the model reaches, and so may
an argument or a quoted string longer than `Room`, which `RoundTrip` leaves out. `BlocksAccounted` counts blocks,
not bytes: the string and the buffer of `sdsCatVPrintf` are all there is, through every move. `CountDrift` states by how
much the count of a list is wrong, not that it is right. `SearchExact`
is not "the value is in the set": it says that an add is refused exactly when 2 is there, what the code
asks. `WritesHeld` speaks of rows with `w`; the gate for loading lets those with `F` through. That three gates do not flag
a transaction (read-only slave, subscriber, loading) is in the model and in no property: EXEC, which would look at the flag,
is not in the repository. `FedOnce` follows operations, not the command itself, and ends where freed memory is
read (`broken`).

Every property of a passing run has a mutant in `PROJECT.json`: an operator beside the definition it
replaces, named after it (`Conflict_KeepsMutex`), which is the code with a plausible bug.

## Findings

1. **An event that is not true** (`event_truthful`). The `except` at `start.py:154` posts
   `CreateResourceFailed` and falls through to the event of `start.py:159`, "Dependency resources
   created". `create_fn` then returns and kopf never calls it again; nginx and its service, unlike the
   StatefulSet, are never made.
2. **`update_size` without a StatefulSet** (`size_applied`). It logs `create stateful_set with
   replicas={size}` (`api/statefulset_api.py:34`) and creates one with the default of one replica.
3. **A size that is never applied** (`sized_despite_restarts`). The handler is driven by the difference
   to the value last handled. If the operator dies after its PATCH and before kopf stores the value, and
   the field is edited back meanwhile, there is no difference, and the StatefulSet keeps the size nobody
   asks for. `deploy/yaml/crd/crd.yaml:41` calls the field the number of instances of the cluster.

4. **Bytes in use that are not** (`bytes_in_use`). `serverCron` logs `zmalloc_used_memory()` as "%zu bytes in
   use" (`src/cache.c:697`) and keeps its highest value (`:671`). Allocations whose usable size is a
   multiple of 8, that is all, are not added (`src/zmalloc.c:41`), and each is subtracted when it is freed: the counter is 0
   until the first block goes, and wraps then.
5. **A server that should have exited** (`enough_files`). With no file left for a client `adjustOpenFilesLimit`
   says "Your current 'ulimit -n' of %llu is not enough for Cache to start. ... Exiting."
   (`src/cache.c:1074`). It looks whether `maxclients`, which is unsigned, is less than 1, and so exits only when
   the limit it ends with is exactly 32; below that the difference wraps, and the server comes up for some four thousand
   million clients.

What else the facts about the cache server list is a divergence from what a reader expects, but no text of
the repository states the contrary, or only a reply to clients does. Two disagreements of the hash table are of that kind:

* A call of `dictScan` that starts in the middle of a split bucket skips its lower parts (`dict.c:154` counts
  up, cursors count with reversed bits), so a scan that meets a table being shrunk may never return an
  entry that was there all the time. `WalkComplete` is stated without such scans (`midway`), and the run shows
  that nothing else makes a scan incomplete.
* `dictRehashMilliseconds` does not look at `iterators`. Allowed inside an iteration it breaks
  `IteratesOnce`.

## Proofs

All of them hold for every value of the constants under the named assumptions of the modules. Every
invariant and every action property that a passing run checks is stated by a theorem, but for `BufferSafe`, and so is the
refinement of KeyValueMap by Dict; that and liveness are left to TLC.

**NaturalFacts** is what the others need of numbers. Induction is stated with a *set* of numbers in
place of a predicate (`Induct`, `InductTo`), from the library's well-founded order; so recursion is
justified once, for functions given by their first value and a step (`RecursionExists`,
`RecursionStays`), and what a recursive definition computes can be proved for every length. The
models write such definitions as functions of an index for that reason (`TokenTotal`, `propagateAll`,
`Sifted`, `rev`, `Pow2`). Then division: quotient, rest, and what wraps.

**DictProofs** (from `DictAssumption`: finitely many keys, hashes are naturals, every request up to
`MaxSize` has a least table size, and the tables are large enough for twice the keys). The inductive
invariant is `TypeOK` with `RehashShape` (`ht1` exists exactly during a rehash, buckets below `rehashidx`
are empty), `Placed` (an entry lies in the chain of its hash), `OneEntryPerKey` and `Counted`. None of the
five properties is inductive alone: that a lookup misses nothing needs `Placed` in both tables; that it
finds *one* needs `OneEntryPerKey`; the end of a rehash is decided by the counter. Each call is proved to
preserve the invariant and to be a step of KeyValueMap or a stutter: `DictIsMap`.

The walks (from `WalkAssumption` besides: table sizes are powers of two that the cursor has bits for, as
`_dictNextPower` makes them). *Iterator*: every step of a walk is a step of the Dict (`WalkIsNext`), so
its invariant comes for free. The second half is that no call moves an entry while an iterator is
registered (`CallKeeps`, call by call: a rehash may begin, but does not go on). With it `WalkInv`
is inductive: what is chained behind the entry just returned lies in the bucket the iterator is at
and has not been returned, all else that was returned lies at or before that bucket, all that was
not lies beyond (`IteratesOnceAlways`). *Scan*: the bits of the cursor are the matter. `Reverses` unrolls
`rev`; the low bits reversed are the high ones (`RevTop`) and tell the low bits (`RevTells`); reversing
twice gives the number back (`RevRev`). Hence one step of the cursor passes over exactly the hashes
that agree with it below the size of the table (`AdvanceIs`, `OneBlock`), and it goes up
(`ScanAdvancesAlways`). `BlockScanned` says that a call not in the middle of a split returns all
entries of that block, from both tables. The invariant `ScanInv` is then that whatever stays and whose
hash, reversed, lies below the cursor, reversed, has been returned: it does not mention tables at
all, which is why they may change between two calls (`WalkCompleteAlways`).

**StatusPatchProofs** (from `StatusAssumption`). `FreshIsCurrent` with the types is inductive; with it a
patch merges into the status what it was computed from, so it is one merge: `SetStatusAtomic`.

**CommandDispatchProofs** (from `DispatchAssumption`). The invariant joins the types, the mutex,
`FreshIsCurrent` of StatusPatch, `ScriptsKnown` (threads belong to scripts, no task has an attempt yet to
come, a script without a thread lost it to a broken stream or an abandoned attempt) and `LoopSoFar` (a listed pod
is to do or marked; the pod whose thread is about to start is marked). `NoStrays` needs the first four: it speaks
of scripts, the joins only of threads. The marks survive the timer only because its copy, if accepted, was current:
`MarksKeptAlways` is proved step by step along with the invariant, from `FreshIsCurrent`.

**ClusterLifecycleProofs** (from `LifecycleAssumption`). `Loop` says which resources are there at each place
of `create_fn` (`Earlier` lists those before the one in hand) unless the failure has an event; `Clean` says
the same without that escape while no call has failed, and carries it past `create_fn` to the sizing, which
therefore finds the StatefulSet; `Sent` does it for the volumes, that a restart may lose; `Barren` keeps the
handlers of a rejected spec at the places where they create nothing; `Phases` keeps deletions out of a live
cluster. `CreatedMeansWhole` needs the places of the loop, `SizeAppliedCleanly` that `create_fn` came first.
The parts of this invariant were also model-checked, with two faults.

**SdsProofs** (from `SdsAssumption`, `SizeTAssumption`, `SplitAssumption`, `ArgsAssumption`). The blocks
(`BlocksAccountedAlways`): the buffer of `sdsCatVPrintf` is freed, by the branch that leaves it, exactly when it is
on the heap, and a string that is there has a block, so that `zre_alloc` moves one and never makes a second; the
counts are naturals, not words. Splitting: in the loop the vector has room for one token *more* than it holds, the
one behind the loop, and tokens and separators add up to where the next token starts
(`SplitInv`, `TokensFitAlways`). Arguments: `ArgsInv` counts the live blocks by the place in the code
(`NothingLeaksAlways`), up to a write beyond a block. That quoting reads back (`RoundTripAlways`) takes a history that
the program does not have: the line as `sdsCatRepr` had written it before each character (`Writes`). While the line is
read, the position is the end of one of these and `current` the string up to it (`Reading`); a character
written as itself, as a pair or as `\xhh` moves both by one. A line is never shorter than the string, so one that
fits its block has an argument that fits.

**ContainersProofs** (from `ListAssumption`, `IntSetAssumption`). *The list.* `Mirrored` is not inductive: it would allow a ring
beside the list, and deleting the last node of the list proper would leave it without a head. The invariant is
that the nodes stand in *some* order (`Line`: a function from the integers to nodes, NULL beyond both
ends), and that all pointers follow it. Three lemmas say how an order changes (`PutIn`, `TakenOut`,
`Turned`); the three ways to insert are instances of the first (`MirroredAlways`). For `IterComplete` the
invariant (`IInv`) also says where an iterator stands: at a place of the order with what it has yet to
return from there on and what it has returned before (`Going`), at the end with nothing left, or among
nodes that the list has lost, which keep their pointers and lead nowhere else (`Stray`). A node put in or
taken out shifts that place or leaves it (`PutGoing`, `TakeGoing`), `listNext` moves it by one
(`NextGoing`, `NextEnds`) and `IterCompleteAlways` follows. The count (`Drift`): `len`, the nodes it
missed and the nodes there are differ by a whole number of wraps, which every call preserves because it
changes both sides by the same (`CountDriftAlways`).

*The set.* It is not sorted, so the search is proved by what
parts it: `Apart`, values below 2 before values above 2, around at most one 2; and `Narrowing`, during a
search for 2 all that was cut off is on its side. Both rest on the set staying narrow: an upgrade is
handed a width, whose own width is 2 bytes (`SearchExactAlways`).

**ServerProofs** (from `StartAssumption`, `CronAssumption`, `PropagationAssumption`, `TroubleAssumption`).
`FilesFitAlways` needs `Raising`: where the loop of `adjustOpenFilesLimit` stops, `bestlimit` is the limit,
or the limit is below the reserve. `OneChildAlways` is inductive as it stands. `NoDbStarvesAlways` needs
more than the wait so far: `AllDue` says of each database that its wait and the number of visits until the
cursor meets it, together, stay below two rounds. The cursor is reduced by its width and then by the number of
databases; `WithinTwoRounds` is the arithmetic of the wrap (it is why `CronAssumption` has `dbnum <= UInt`: an
`int` of databases and an `unsigned int` of a cursor). `FedOnceAlways` keeps the types of what is
collected and `FedOnce` itself; the work is in the lemmas about `Sifted`, which picks
from a sequence and distributes over appending, and about the loop of `call`, which feeds what waits, in
order. `WritesHeldAlways` needs that the first gate that refuses exists (`Least`), and goes from the letters of a row
through the bits of its flags to each gate; for the gate of loading, that of the letters in rows that write only `F`
has bit 9 (`LoadingBit`).

The type invariants of StatusPatch, CommandDispatch, ClusterLifecycle and DictWalk and the end of the scan in
`dictRehash` (`RehashScanEnds`) are proved and no longer checked by runs.

Model-checked only: `BufferSafe`, and liveness (`CommandSettles`, `StsAppears`, `StatusTracksPods`, `ScaledCleanly`,
`GoneLeavesNothing`, `SparseRecovers`, `EveryClientsTurn`), which is out of the prover's reach.

Assumptions on constants that only the proofs need, and why the code justifies them: the nodes of a list
are finitely many (`ListAssumption`); a text is a sequence of characters (`SplitAssumption`,
`ArgsAssumption`; `"nul"`, which ends a line, and `"none"` are no characters in one); table sizes are
powers of two; `dbnum <= UInt`.

## Not modelled, and why

Texts: resource templates, event layout, log lines, hash functions, statistics (`dictPrintStats`, the samples
of `cache.c`), configuration defaults. `dictGetSomeKeys`, which promises nothing of
what it samples, and the unsafe iterator, which only asserts that nobody called. Pure I/O: the
upload service. Constants and client objects. List merging
and type errors of `merge_patch_object`: the status is a flat dict. Two operators at once during a rolling
update: the mutex cannot see the other, and kopf's peering would have to be modelled.

Of the cache server: `ziplist.c`, which uses types and macros that exist nowhere and assigns to
expressions, so that it means nothing to a compiler; headers whose implementation is not here (event loop, network,
persistence, cluster); byte order; reading calls without a decision (`intsetGet`, `sdsCmp`, case mapping);
`/proc` reports and the thread-safe mode of `zmalloc.c`; the bodies of commands, of which there are none.
The composition of the cron with `Dict`, `AdList` and `Sds` goes through what each promises: a table is
"sparse" or not, the list of clients rotates, a query buffer is too large or not.

## Plan

Done, in this order: StatusStore and StatusPatch; CommandDispatch; ClusterLifecycle; KeyValueMap and Dict;
DictWalk; the proofs of Dict; Zmalloc and Sds with SdsArgs and SdsSplit; AdList and IntSet; Startup, ServerCron and
ClientsCron; Commands and Propagation; the proofs of Sds, AdList, IntSet, Startup, ServerCron and
Commands; NaturalFacts, and with it the proofs of DictWalk, SdsArgs, SdsSplit, Propagation, the count of AdList and
the cursor of ServerCron.

What is left to prove: the safe parts of the liveness properties, the measures that only go down. For
`EveryClientsTurn`, that the clients between one client and the tail never become more, since new ones join at the
head and the rest rotate; for `GoneLeavesNothing`, that nothing is created any more once a cluster is gone and the
requests already sent have ended; for `CommandSettles`, that an attempt takes each listed pod once. Left to
model: ZipList, if the file ever compiles.
