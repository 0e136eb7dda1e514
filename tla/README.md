# Formal verification of autocomplete-rs

TLA+ models of the program under `src/`, the TLC runs that check them on small
instances, and theorems that hold for instances of any size, with proofs that
TLAPS checks. Paths below are relative to the repository (`engine.rs` is
`src/src/engine.rs`, the README is `src/README.md`).

## 1. The system

An in-memory autocomplete service. Each tenant has a compressed trie of terms
with frequencies. Reads are answered from the trie alone. A write changes the
trie at once, and a background task brings it to RocksDB; at boot RocksDB is
replayed into the tries.

| Component | State | Operations | Correct when |
|---|---|---|---|
| Tenant map (`engine.rs`) | DashMap of tries, a lock per shard, a lock per trie | get, get-or-create, walk of `stats` | one trie per tenant; no circular wait; reads miss nothing |
| Validation, keys (`engine.rs`, `rocks.rs`) | none | validate_tenant, validate_term, encode_key, decode_key, decode_frequency | pairs do not share rows; foreign rows do no harm |
| Engine (`engine.rs`) | tenant map, storage handle, writer handle | open, index, delete, query, query_fuzzy, stats, shutdown, drop | rows converge to the tries; a restart gives the tries back |
| Writer (`storage/writer.rs`) | mpsc channel, buffer, timer, task handle | spawn_with, submit, try_submit, join, flush | batches are whole and in order; nothing queued is forgotten; join ends |
| Storage (`storage/rocks.rs`) | RocksDB rows, directory lock | write_batch, scan_all, flush, get, put, delete | the last write to a key in a batch wins; keys decode to what was encoded |
| RadixTrie, Node (`trie/`) | nodes with edge, children, frequency, cached maximum; cached length | insert, set, remove, frequency, descend, stats | it is a map, its shape is canonical, its caches are exact |
| Search (`trie/radix_trie.rs`) | recursion, path, row, heap | prefix_search, fuzzy_search | the k best matches, whatever the order of the children |
| TopK (`scoring.rs`) | bounded heap | offer, cutoff, into_sorted_vec | keeps the k best of what it was offered |
| Levenshtein rows (`typo.rs`) | none | initial_row, next_row, row_min, distance | rows are edit distances |
| HTTP API (`api/`, `error.rs`) | none | index, delete, query, health; 2 s timeout | the answer says what happened |
| Entry point, configuration (`main.rs`, `engine.rs`) | none | read the environment, open, serve | limits are usable |

How they meet:

* A call to index or delete changes a trie under that trie's lock, lets go of
  the lock, and only then sends the row to the channel. Everything between the
  two belongs to the scheduler, and so does what happens when the channel is
  full: the call is parked, and the timeout layer may drop it there.
* `delete` and the queries keep the guard of the tenant's shard while they wait
  for the trie; `index` has let go of it by then; `stats` keeps it while it
  walks the shard.
* The writer task owns the receiving half. It ends when every sender is gone, or
  when it panics. In both cases the receiver goes with it.
* RocksDB holds a directory lock while any handle is alive: the engine's, or the
  detached task's after the engine was dropped.
* A search holds the trie's read lock from its first node to its answer.

What is hard here: two calls on one term between lock and channel; a full
channel and the timeout, and the caller's retry after it; first writes of one
tenant at the same time, and locks taken inside locks; batches that fail and are
dropped; a process that ends without shutdown (`main.rs` never calls it), on a
log that is not synced; rows that another program wrote; the cached maxima that
pruning trusts; removes that compact the trie; a search whose result must not
depend on the order of a HashMap. `PROJECT.json` lists each with its line.

## 2. The modules

| Module | Models | Notes |
|---|---|---|
| `Storage` | rows and `write_batch` | constants and operators only |
| `WriteLog` | abstract: what write-behind promises | one log; the oldest few writes take effect together |
| `Writer` | channel, buffer, task | actions without a `Next` of the whole system |
| `Engine` | calls and lifecycle, on top of `Writer` | implements `WriteLog` |
| `EngineLocks` | the locks of every call | tries are sets of terms here |
| `KeyCodec` | validation, keys and values as bytes | operators only |
| `Service` | the program as one caller sees it | answers, timeouts, restarts, power failures; uses `KeyCodec` |
| `TermMap` | abstract: what a trie promises | a map and its size |
| `RadixTrie` | the trie, node by node | implements `TermMap` |
| `Typo`, `TopK` | rows; the bounded heap | operators only |
| `TrieSearch` | both searches, over `RadixTrie` | one child of one node a step |
| `MCEngine`, `MCEngineLocks`, `MCService`, `MCRadixTrie`, `MCTrieSearch` | instances for TLC | |
| `EngineProofs`, `EngineLocksProofs`, `KeyCodecProofs`, `ServiceProofs`, `RadixTrieProofs`, `TypoProofs`, `TrieSearchProofs` | theorems | |
| `FoldProofs` | lemmas about folds and least elements | what the other proof modules share |

### Storage, Writer, Engine

A (tenant, term) pair is one key. `validate_tenant` keeps the separator byte out
of tenants, so two pairs never share a row (`PairsDoNotShareRows`) and nothing
is lost by this. A row or trie entry is a total frequency or `Absent`.

| Model | Code |
|---|---|
| `chan`, `txOpen` | the mpsc channel and whether the engine's `WriterHandle` exists |
| `buffer`, `task` | the locals of the task and how far it is; `doomed` is a task whose interval is 0 |
| `db` | the rows RocksDB serves to this or a later process |
| `lost` | history only: keys whose latest write was discarded |
| `phase`, `trie` | the `Engine` value, and what its tries map terms to |
| `status`, `op`, `waiters` | for each call where its future is suspended, what it holds, and the semaphore's queue |
| `Index`, `Delete`, `DeleteMissing` | the part of a call that runs without an await: lookup, change of the trie, release of the lock |
| `Deliver`, `Refused`, `Park`, `Abandon` | the ways `submit(..).await` goes: sent, no receiver, parked, dropped by the timeout or the caller |
| `Recv`, `Tick`, `Stop`, `Panic` | the branches of `select!`, the end of the loop, the panic in `interval` |
| `Open`, `Shutdown`, `JoinReturns`, `DropEngine`, `Crash` | the engine's life; `shutdown` and drop need the engine by value, so no call is in flight |

`Flush` is part of the action that calls it. `write_batch` is synchronous, so no
other branch of the task runs during it, and RocksDB applies a batch atomically.
With `FlushOutcomes = BOOLEAN` any batch may fail. A crash here is the end of
the process, which leaves RocksDB's log to the operating system; a power
failure, which may lose more of it, is in `Service`.

Of tokio, only what the code relies on is modelled: the channel is bounded, its
semaphore serves parked senders in order, permits of a dropped sender go to the
next, a send without a receiver fails. tokio may also make a task yield although
a permit is free; that is a delay before `Deliver` here.

### EngineLocks

`pc` says which lock a thread's call is at. Taking a lock is an action; letting
go of locks happens with the last thing done under them.

| Model | Code |
|---|---|
| `shardReaders`, `shardWriter` | the DashMap guards |
| `tenants`, `tries` | which trie a tenant has; every trie ever made, so that one that fell out of the map would be seen |
| `Get`, `GetNothing`, `Entry`, `OrInsert` | `tenants.get(..)`, then `entry(..).or_insert_with(..)` |
| `Announce`, `Change` | `trie.write()` in its two halves, then insert or remove |
| `Read`, `Search` | `trie.read()`, then the search |
| `NextShard`, `NextTenant`, `Counted`, `Listed` | the iterator in `stats` |

The two locks differ, and the model has both. In parking_lot a waiting writer
stops new readers, so a thread that read the same trie twice could block itself.
In DashMap readers pass a waiting writer. The iterator takes the guard of the
next shard before it lets go of the last one. `present` and `owed` are history:
what an answered call has left in a tenant, and what of that a reader may not
miss. `submit` needs none of these locks and is not here; a trie is the set of
its terms, since `TrieSearch` has what a search does with it.

### KeyCodec, Service

`KeyCodec` tells bytes apart only as the code does: the separator, those that
`validate_tenant` refuses, those that are no UTF-8, all others. A frequency is
`Width` digits in `Base`, the lowest first (8 and 256 in the code), so it is at
most `MaxFreq`.

`Service` has one caller, so nothing races, and asks what the answers are worth.

| Model | Code |
|---|---|
| `Index`, `Delete`, `DeleteMissing` | the handlers: 202, 204, 404; a pair that is not `Valid` is answered 400 and changes nothing |
| `queue` | channel and buffer together; how much of it the task has taken is left open, so between `MayBeFull` and `HasRoom` a call may be sent or parked |
| `parked`, `Resume`, `TimeOut` | a handler in `submit(..).await`, and the 408 |
| `Replayed`, `Open` | `scan_all` and the loop of `open` |
| `Persist` | `write_batch` |
| `images`, `Sync`, `PowerFailure` | the states a power failure may leave, since `write_opt` does not sync |
| `Shutdown`, `Stop` | `shutdown`: the queue drains, then `storage.flush()`, whose failure is only logged |
| `told` | history: what frequencies the caller has to expect |

202 and 204 are certain; after 408 the call may or may not have happened. What
404 says is `TrustNotFound`: "the term is not indexed", as the README has it, or
nothing at all. After a crash the caller starts a new account; a shutdown must
keep the old one. Failing batches, the dead task and its 503 are in `Engine`
only. `Shutdown` is the library's: `main.rs` does not call it.

### RadixTrie

A node is named by the bytes on the way from the root to it. The trie is a
function from these names to `[terminal, frequency, max]`, so an edge label is
the difference of two names, the children of a node are the nodes below it with
none between, and a merge or a split removes or adds one name. The operations
keep the passes of the recursion: `Split` on the way down, then one
`RecomputeMax` (and for a removal one `Compact`) for each node on the way up,
the deepest first, each from the children's cached values (`Put`, `Take`). These
are folds over all prefixes of the term; one that names no node is passed over.
Nothing of the cached
maximum is computed from the terms themselves, except in the property that says
what it should be. `frequency` goes through `Descend`, as in the code.

The empty term is included: `RadixTrie` is public and accepts it, though
`validate_term` does not let it through the engine. `stats` only counts and is
left out, as is the capacity of every allocation.

### TrieSearch, TopK, Typo

The recursion is a stack of frames: a node, the children its loop has not come
to, and for a fuzzy search the row at that node. `\E c \in Top.pending` is the
order of the HashMap, any order. `Prune`, `Abandon` and `Enter` are the ways a
turn of the loop ends. `Write` is a write that gets the lock between two
searches, so the tries searched are those the operations lead to. Terms are
`&str` when they are stored, so the UTF-8 check at a terminal node never fails
and is left out. What should be found is defined apart from all this: edit
distance by insertions, deletions and substitutions one at a time (`Near`), the
best k by counting better hits. `MaxBudget` bounds the budgets a query may have
(`u32::MAX` in the code). `Distance` is `distance`, which only tests call;
`DistanceExact` says that they compare with the right thing.

## 3. The runs

| Run | Instance | Shows |
|---|---|---|
| `serial` | 2 calls with a term each, channel 2, batch 2, weights 1 and 2, saturation at 2, intervals 0 and 1, batches may fail | `TypeOK`, `DrainConverges`, `RestartKeepsMemory`, `ImplementsLog` |
| `live` | 3 calls on one term, channel 1, batch 2, intervals 0 and 1, batches may fail, fair | `ShutdownReturns`, `SubmitResolves`, `QuietQueueDrains` |
| `race` | 2 calls on one term, no fault | violates `DrainConverges` |
| `stall` | no fault | violates `NeverStalls` |
| `abandon` | no failing batch, one writer per term | violates `WaitingLosesNothing` |
| `zero` | interval 0 only | violates `BackpressureMeansSaturated` |
| `locks` | 3 threads, 2 tenants in the last of 2 shards, 1 term, fair | `LocksTypeOK`, `OneTriePerTenant`, `QueriesSeeWrites`, `NoCircularWait`, `StatsListsTenants`, `CallsReturn` |
| `service` | tenants `a`, `b` and the invalid `a‖0‖b`, terms `a` and the invalid `b‖0‖a`, weight 2, saturation at 3, channel 1, batch 2, every fault, no foreign rows or six | `ServiceTypeOK`, `AnswersHold`, `ForeignRowsStay` |
| `retry` | 2 pairs, no fault but the timeout, 404 trusted | violates `AnswersHold` |
| `shape` | 7 terms, frequencies 0 to 2 | `TypeOK`, `CanonicalShape`, `MaximaExact`, `DescendCovers` |
| `map` | 5 terms, frequencies 0 to 2 | `ImplementsMap` |
| `search` | 6 terms, frequencies 1 and 2, 7 prefix queries, 5 fuzzy ones with budgets 0 to 2 | `SearchTypeOK`, `RowsAreDistances`, `AnswerIsTopK`, `CutoffOnlyRises`, `WalksEnd` |

Why the bounds are enough to be interesting:

* Channel 1 and 2 with two or three calls: it fills, calls are parked, and with
  three (`live`) there are two in line, so the order of the line matters. Batch
  2 flushes by filling and by timer: calls may stop with one write in the
  buffer, which then only the timer brings to the disk.
* Saturation at 2 with weights 1 and 2 is reached exactly by some sums and
  passed by others.
* Three threads can all be at one lock: one has it, one waits to write, one
  comes to read behind it. One thread indexes and deletes, one queries and
  lists, one indexes, queries and makes the second tenant, so two first writes
  of a tenant meet, and a tenant is made in a shard that others read. With a
  shard before the one in use, `stats` has one to let go of.
* In `service` the invalid pair (`a‖0‖b`, `a`) would have the row of the pair
  (`a`, `b‖0‖a`): a check that failed would mix them. The foreign rows have no
  separator, no UTF-8, a short value, a tenant that may not be requested, a
  second separator, and one is like our own, so it is served. All must stay but
  the one with a short value and the last: a request may name their keys, and
  so write or remove them (`LooksOurs`). Weight 2 and
  saturation at 3 (two bits) need both bytes of a value and pass the limit at
  the second call.
* The terms of `shape` contain a chain of prefixes, a node that branches in the
  middle of an edge, a root that branches, and the empty term. Every subset of
  them, with every assignment of three frequencies, is reached.
* The terms of the search runs give walks three levels deep with two children at
  the root and in the middle; two frequencies over six terms make ties at the
  cutoff the usual case. k from 0 to 3 leaves the heap not full, just full, and
  overfull. Queries end at the root, at a node, on an edge, nowhere.

`MaxImages` is the one bound that the code does not have: at most so many states
of the rows between two syncs. With 2, a power failure has a batch to take back
or to leave, and a later one. Everything else is bounded by the constants, as
the channel, the buffer, the calls and the frequencies are in the code; no run
needs a constraint. Deadlock is checked in every run: at rest an engine can
always be opened or called, and a trie written or searched.

Fairness (`live`): weak fairness of each call's submit, each branch of the
writer task, and the return of join. tokio polls every ready task, `select!`
picks among ready branches at random, and a parked sender is woken in its turn,
so no continuously ready step is passed over for ever. No fairness is assumed of
starting, abandoning, opening, shutting down or crashing.

Fairness (`locks`): weak fairness of each thread's next step, as the scheduler
runs every thread, and strong fairness of the two ways to get a trie's lock,
since parking_lot hands a lock over to the longest waiting thread from time to
time. `CallsReturn` does not speak of a call at `entry`: DashMap promises
nothing to a thread that needs a shard to itself, and under these assumptions
readers of the shard may keep it out for ever.

## 4. Where code and documentation part

* **race.** `index` and `delete` submit after letting go of the trie's lock. Two
  calls on one term can queue their totals in the other order, and RocksDB keeps
  the earlier one until the term is written again: after a restart a bump is
  gone, or a deleted term is back. `engine.rs:129` says that RocksDB catches up.
  `serial` and the theorem `Convergence` show that one writer per term is all it
  takes.
* **stall.** README line 273: "Backpressure surfaces as `503`, never as a
  stall". `submit` waits (its own comment says so), and `try_submit`, which
  would answer 503, is never called.
* **abandon.** The comment of `submit` says that waiting loses no data. The
  timeout layer drops the handler in that very await, after the change of the
  trie.
* **zero.** `from_env` raises batch size and capacity to at least 1 but accepts
  an interval of 0, on which the task panics. From then on every write changes
  the trie and is answered "write queue full".
* **retry.** A delete that timed out has taken the term out of the trie, and its
  row is still there. Tried again, as README line 106 advises for 503, it is
  answered 404, which line 205 explains as "not indexed", and submits nothing.
  The next start brings the term back. `service` shows that answers are kept
  when 404 is taken for no news.

Other differences noticed and not run: README line 278 says that a write for one
tenant never blocks queries for another, but the first write of a tenant has a
shard to itself for a moment, and waits there for queries of the tenants in it.
README line 281 leaves terms unrestricted while `validate_term` rejects NUL; the
comment at `rocks.rs:71` speaks of the fsync that `write_opt` with these options
does not do.

## 5. The theorems

For any sets of calls, threads, tenants, terms, queries, keys and bytes, any
number of shards, any capacities, batch size, weights and frequencies that
satisfy the named assumptions. They are in the `...Proofs` module of the module
they are about; those from `SearchTypeCorrect` on are about `TrieSearch`, the
last two about `Typo`.

| Theorem | States |
|---|---|
| `TypeCorrect` | `Spec => []TypeOK` |
| `Convergence` | with `SerialOwners`, `Spec => []DrainConverges` |
| `RestartCorrect` | with `SerialOwners`, `Spec => RestartKeepsMemory` |
| `LogRefined` | `Spec => ImplementsLog` |
| `LocksCorrect` | `Spec => []LocksTypeOK` |
| `FirstWritesAgree` | `Spec => []OneTriePerTenant` |
| `WritesAreVisible` | `Spec => []QueriesSeeWrites` |
| `LocksDoNotDeadlock` | `Spec => []NoCircularWait` |
| `StatsIsComplete` | `Spec => StatsListsTenants` |
| `RoundTrip` | `decode_key` undoes `encode_key` for a tenant without the separator and any term |
| `PairsDoNotShareRows` | pairs whose tenants pass `validate_tenant` have different keys |
| `FrequencyRoundTrip` | `decode_frequency` undoes `to_le_bytes` for every frequency |
| `ServiceTypeCorrect` | `Spec => []ServiceTypeOK` |
| `ForeignRowsKept` | `Spec => ForeignRowsStay` |
| `AnswersKept` | with `~TrustNotFound`, `Spec => []AnswersHold` |
| `TrieTypeCorrect` | `Spec => []TypeOK` |
| `ShapeKept` | `Spec => []CanonicalShape` |
| `MaximaKept` | `Spec => []MaximaExact` |
| `DescentCovers` | `Spec => []DescendCovers` |
| `MapImplemented` | `Spec => ImplementsMap` |
| `SearchTypeCorrect` | `SearchSpec => []SearchTypeOK` |
| `CutoffNeverFalls` | `SearchSpec => CutoffOnlyRises`, for both searches |
| `RowsRight` | `SearchSpec => []RowsAreDistances` |
| `AnswersRight` | `SearchSpec => []AnswerIsTopK`, for both searches |
| `WalksMustEnd` | `SearchSpec => WalksEnd` |
| `AnswersListed` | an answer lists every kept entry once, a better one first |
| `HitsMeasured` | a fuzzy hit is a stored term at the distance `Distance` gives, within the budget |
| `DistanceExact` | `Distance` to a word is at most n if and only if the word is in `Near` for n |
| `RowMinNeverFalls` | no entry of the next row is below the minimum of this one |

`DrainConverges` is not inductive by itself. It says nothing of the value a call
in flight carries, so delivering it could break it; and nothing of tasks that
have ended or engines that are closed, so reopening could. The invariant `IInv`
adds `CarriesTotal` (with one writer per term, a call in flight carries what the
trie says), `EndedIsEmpty` (an ended task has left an empty channel and buffer)
and `QuietUnlessOpen` (no call is in flight unless the engine is open). The
proof has one step for each action and under it one for each conjunct that the
action can disturb. `RestartCorrect` then follows from `IInv` at the step that
opens: the directory lock is free only when the task has ended, so by
`EndedIsEmpty` what is drained is what is on disk.

The first lemmas of `EngineProofs` say what `WriteBatch` does: what it gives for
keys that are and are not written (`BatchHit`, `BatchMiss`), that batching two
sequences after one another is batching their concatenation (`BatchConcat`),
which is why taking a write from the channel into the buffer does not change
what will be drained. That a key that is written has a last write (`MaxExists`,
`LastWriteExists`) comes from the library's theorem that strict inclusion is
well-founded on finite sets.

`EngineLocksProofs` has an invariant of its own (`IInv` there): types
(`Domains`), which calls come to which step (`AtStep`), the two parts of
`LocksTypeOK` about guards (`ShardGuards`, `TrieGuards`), how far a walk of
`stats` is (`Walks`: what it owes is listed, to do in this shard, or in a later
one), that no two tenants share a trie (`TriesApart`), and that a tenant's trie
holds what answered calls left (`Visible`). Each part has one lemma with a step
for each action. As a step moves one thread only (`OthersStay`), what is left to
show of the guards is about that thread (`ShardFrame`, `TrieFrame`).
`LocksDoNotDeadlock` follows by a rank: a thread at `get` or `entry` waits for
threads that hold a shard, these for threads with a trie's writer's place, these
for readers of the trie, and those wait for nobody (`WaitsUpwards`); so of any
set of threads one of the highest rank waits for none of the set.

`RoundTrip` rests on two lemmas: which byte is where in a key (`KeyBytes`), and
that the first separator of a key is the one behind the tenant
(`SplitsBehindTenant`), whatever the term contains. `PairsDoNotShareRows` is
what lets `Storage` and `Engine` take a pair for one abstract key.

What a caller expects has to be found again after the tries are gone, so
`AnswersHold` needs an invariant about the queue and the rows. Beside types
(`Types`), facts about the states a power failure may leave (`Images`) and that
each of them has the foreign rows as they were at first (`ForeignKept`), this is
`Told`: the last write of a pair in the queue writes what its caller expects
(`LastWritesTold`), the row of a pair with no write in the queue says so already
(`RowsTold`), and so does the trie, also after the call that waits
(`MemoryTold`). A batch keeps it because the rows of two valid pairs differ and
decode to what was encoded, by `RoundTrip` and `FrequencyRoundTrip`.
`AnswersKept` assumes `~TrustNotFound`, that is, 404 is no news; the run `retry`
shows that without this the property fails.

`RadixTrieProofs` does not speak of children and edges but of names: `Parts(N)`
says that where two names part there is a node, and from it follow all the facts
of descending, splitting and merging. The invariant `Inv` says of the trie that
it is a tree of such names, that each node is `Exact` (its maximum is that of
the terms below it) and `Placed` (on the way to a term, and terminal, branching
or the root), and of `len` that it counts the terms. An operation breaks this on
its way up and repairs it, so the folds of `Put` and `Take` are unrolled step by
step (`PutFolds`, `TakeFolds`) and have invariants of their own: `Rising`, in
which the maxima of the beginnings that are still to come are stale, and
`Unwinding`, in which these may also still have to be merged. `MapImplemented`
reads the map off the nodes and shows that insert and set write one entry of it,
remove takes one away, and no other is touched.

`FoldProofs` has what makes this possible without induction over data. The
library's induction theorems take an operator and cannot be used here, so a fold
is stated as its sequence of iterations, and a statement about all of them is
proved by its least counterexample (`LeastExists`).

`TrieSearchProofs` has three layers. `Better` is a strict total order of the
entries of different terms, from the place where two terms part (`PrecedesIs`,
`PrecedesOrder`); so a heap has one worst entry (`WorstIs`) and one sorted list
(`SortedIs`, by counting for each entry those ahead of it). Then the heap: what
`Offer` leaves out is outdone by k better entries, stays so whatever comes
later, and the cutoff does not fall (`OfferIs`). Then the walk: `SearchInv` adds
to `Inv` that the frames are a path (`Frames`), that what is still pending is
apart from all nodes entered and all terms kept, so that no term is offered
twice, that each frame has the row behind its node (`RowsFor`), and `Accounted`:
every term wanted is in the heap, or outdone by k better ones, or below a child
that is pending in some frame. Pruning keeps `Accounted` because maxima are
exact, which is why the proof needs the whole of `RadixTrieProofs`. Abandoning
keeps it because no term behind the child is wanted (`AbandonAccounts`). At the
end nothing is pending, and what the heap holds are the hits with fewer than k
better ones. `WalksMustEnd` counts the nodes at or below what is pending, twice,
and the open calls: a visit passes one node at least and opens one call at most.

`TypoProofs` relates two recursions, the row (`NextRow`, along the bytes of a
word) and the edits (`Near`, along their number). `RowOf(s, w)` is the row of
query s behind word w.

* Rows: an entry is at most one above the entry before it (`Smooth`). What
  every entry is at least, every entry of the next row is as well
  (`RowMinKept`), so behind a word out of reach there is none within it
  (`LongerCosts`). The loop over an edge may end early: then the child's name is
  out of reach; else the row is that of the whole name (`RowBehindIs`).
* No fewer edits than the row says: one edit anywhere in a word raises an entry
  of its row by at most one (`EditCost`), so n edits from the first j bytes of
  the query end at a word whose entry j is at most n (`NearCosts`).
* No more: along the bytes of the word, the minimum that `NextRow` takes names
  the last edit, or that there is none (`LedFurther`), so a word whose entry j
  is n is among the words n edits lead to (`LedToAll`).

Together this is `NearExact`, for words of the bytes that occur in terms and
queries. The names in a trie are such words (`WordsAre`), which gives
`RowsRight`, and that the distance a walk finds is the one a hit should have
(`MatchesAre`). The invariant says of a frame that its row is `RowOf` of its
node, whatever the budget; `RowsAreDistances` is that, read with `NearExact`.

Only model-checked: liveness (`ShutdownReturns`, `SubmitResolves`,
`QuietQueueDrains`, `CallsReturn`), since the prover has no ENABLED and these
need it. Every other property of the passing runs is proved.

## 6. Not modelled, and the plan

Left out for good: logging, tracing, JSON and its status codes, the limits that
the query handler puts on k and the typo budget, the sockets and routes, the
counts of `stats` and `/health`, reading the environment, allocation sizes,
`put`, `get` and `delete` of `Storage` (no caller), the tests and benchmarks.

Nothing of the plan is left. What could follow: that writes kept out of a shard
by readers get in, once DashMap promises something there.
