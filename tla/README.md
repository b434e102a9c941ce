# EyeDB: TLA+ models, checks and proofs

EyeDB is an object-oriented database. This directory models the parts of it in which
state is shared and the order of steps matters, checks them with TLC on small
instances, and proves the central invariants with TLAPS for every instance.

| Module | Models | Kind |
|---|---|---|
| `DatabaseClass` | class `Database` (open, close, transactions) over any lower layer | component |
| `Transaction` | one client connection: client handles, server, storage manager | composition |
| `DatabaseClassProofs`, `TransactionProofs`, `AtomicityProofs` | theorems about the two above | proofs |
| `SessionLog` | the memory-mapped list of connected clients; `eyedbctl status` and `stop` | component |
| `ValueCache` | the cache of pending changes of a collection | component |
| `Collection` | one collection: the client's object over `ValueCache`, and the stored collection | composition |
| `AbstractRelation` | what the manual promises of a relationship | abstract specification |
| `Relationship` | inverse attributes in the server, the object calls, the client's object cache | composition |
| `Realize` | the recursive store and remove of a graph of objects | component |
| `Index` | attribute indexes, unique and notnull, strings stored apart | component |
| `SessionLogProofs` | theorems about `SessionLog` | proofs |
| `RelationshipProofs`, `RelationshipCacheProofs` | theorems about `Relationship`: the server's side; the cache, the deletion marks and the refinement | proofs |
| `RealizeProofs` | theorems about `Realize` | proofs |
| `IndexProofs` | theorems about `Index` | proofs |
| `MCSessionLog`, `MCCollection`, `MCRelationship`, `MCRealize` | symmetry, cardinalities, views and graphs for TLC | model checking |

To run: `tlc -config X.cfg M` for a run of `PROJECT.json`, `tlapm M.tla` for a proof
module.

## 1. The system

### Processes

A client program links `libeyedb` and opens a connection to `eyedbd`. The server
serves each connection from a process of its own (a backend), in which the same
library runs over the storage manager `eyedbsm`. `eyedbctl` is the administrator's
command. `eyedbsm` and the RPC and mutex library `eyedblib` are not in this repository.

```
client process                     backend process of that client
 Database handles --- RPC (api.cc, serv.cc) ---> kernel.cc: IDB_*
                                                 back-end Database --> eyedbsm
                     session log (mmap) <--- every backend
                          ^--- eyedbctl status / stop
```

### Components, their state and operations

| Component | State | Operations | What makes it correct |
|---|---|---|---|
| Database, Transaction (`Database.cc`, `Transaction.cc`) | `dbh`, `sch`, `open_refcnt`, `curtrs`, `trs_cnt`, `dbopen_list` | open, shared open, close, begin/commit/abort | commit is all, abort is nothing; levels and references of client and server agree |
| Server entry points (`kernel.cc`, `serv.cc`, `api.cc`) | back-end `Database`s, quit data | `IDB_dbOpen`, `IDB_dbClose`, `IDB_transaction*`, `quit_handler` | no transaction outlives its client |
| Session log (`SessionLog.cc`) | header and linked entries in a mapped file, a mutex | add, suppress, display, stopServers | always a list; lists the connected; stop kills whom it should |
| Object store (`kernel.cc`) | objects, deletion and creation marks, class extents | objectCreate/Write/Delete/Read, objectDeletedManage | a removed object gives its space back at commit and is back after abort |
| Relationships (`Attribute_inv.cc`, `InvOidContext.cc`) | both ends of each link; a global list of the attributes touched by a call | inverse updates, release of the list | both ends agree; the client learns what changed |
| Object cache (`ObjCache.cc`, `Transaction.cc`) | oid -> object of the transaction | insert, get, delete, empty | never a stale object |
| Aggregates (`Agregat.cc`, `Attribute.cc`) | flags `Realizing`, `Removing`, `modify`; `realizedMap` | recursive store and remove | each object stored once, after what it refers to has its oid |
| Collections (`Collection.cc`, `Coll*.cc`, `ValueCache.cc`) | maps of items by value and by id, item states, count, read caches; two stored indexes | insert, suppress, insertAt, suppressAt, empty, reads, realize | answers and stored contents are what the calls said |
| Indexes and constraints (`Attribute.cc`, `AttrIdxContext`) | index entries, data objects of long strings | create, update and remove of entries, unique, notnull | the index is exact; a refused store changes nothing |
| gbx (`gbx.cc`) | reference counts, cycle contexts | incRef, release, garbage | each object freed once |
| Iterators and queues (`BEQueue.cc`, `IteratorBE*.cc`) | slots of back-end objects, windows | create, scanNext, delete | each result once |
| Schema (`Schema.cc`, `ClassConversion.cc`) | classes, modified flag | add, purge, convert | purge after abort restores the stored schema |
| OQL, ODL, Java, configuration, dates | no shared state | - | out of scope |

`PROJECT.json` lists all of them with their status.

### What is hard

* One class, two sides: `Database` keeps nested levels in the client *and* in the
  server, and all handles of a connection on one database share one server object
  (`open_realize`), hence one `trs_cnt` and one storage-manager transaction.
* Internal transactions: open() brackets schema loading with its own begin/commit,
  abort() of a schema change runs begin/purge/commit; their statuses are ignored.
* A client may die anywhere; its backend must abort every level and end.
* The session log is changed by many processes, and read by `eyedbctl stop` without
  the mutex.
* A store is several calls. The client creates oids, long strings, collections and
  then the object, each by a call that may fail or be refused; a constraint error
  leaves the transaction usable, any other makes it incoherent.
* The server changes objects the client did not name (the other ends of a
  relationship) and must tell the client which.
* A collection is changed in a cache first, that two maps index, and read through
  three further caches.

`hazards` in `PROJECT.json` gives these line by line.

## 2. Transactions

### The model

`DatabaseClass` is class `Database` with the layer below it as a parameter: `LBegin`,
`LCommit`, `LAbort`, `LEnd`, `LClose` are operators giving the *set of outcomes* of a
lower call, so a call that can fail is a set of (status, state) pairs. `Transaction`
instantiates it twice, `Be` over the storage manager and `Cl` over `Be`, which is how
the code itself is built.

| TLA+ | Code |
|---|---|
| `db[h]` | a client's `Database` object |
| `srv.be`, `srv.sm` | the back-end `Database`; the `eyedbsm` handle (level, pending and durable operations) |
| `cur`, `incoh`, `mod`, `trs`, `ref`, `listed` | `curtrs # 0`, `curtrs->incoherency`, `sch->isModify()`, `trs_cnt`, `open_refcnt`, membership in `dbopen_list` |
| `Open`, `OpenShared`, `Close`, `Begin`, `Commit`, `Abort` | the calls of that name |
| `Store` | `Agregat::realize`/`remove`: may be applied in part, then marks the transaction incoherent |
| `TouchSchema` | `Schema::addClass` |
| `ClientDies`, `CloseEntry`, `Release` | the connection ends: `connection_handler` (`serv_lib.cc`) closes every database the client has open, one after the other, and releases the process |
| `Killed`, `QuitStep` | SIGTERM, or no memory left (`new_handler`), with the databases still open; one turn of the abort loop of `quit_handler` |

A client call is one step: both processes are single-threaded and the call is
synchronous. `scope`, `fate` and `held` are history: which level-0 transaction
a handle is in, what the client was told of it, and which handles still owe the
server an end.

Abstractions: an operation is its owner, its level-0 transaction and whether it was
applied whole. Handles use the same flag, user and password, the case in which
`open_realize` shares. `commit` first stores registered objects: those are `Store`
steps before it. `IDB_objectDeletedManage` is part of the failures of commit and
abort. Constraint errors are reported without an effect (`Agregat.cc:336`) and are
left out, as is the reset of the schema's modified flag when it is stored: without
it `mod` stays set longer, so more purges happen than in the code. An open that fails
leaves a half-opened back-end `Database` behind in the code (`Database.cc:791`), which no list and
no handle leads to; the model drops it. The in-process
(local) open path, lock modes and transaction parameters are not modelled.

### Runs

| Run | Instance | Shows |
|---|---|---|
| `one_handle` | 1 handle opened twice, failing begin/store/load/open, 3 scopes | types, coherence, level counting across a close inside a transaction, atomicity of commit and abort, no commit of an incoherent transaction, only a commit stores |
| `two_handles` | 2 handles, nested transactions, `commit_on_close`, failing begin/commit/store/load/open | reference counts, no handle open on a closed database, no handle loses the transaction it holds; `QuitAborts`: whenever the client leaves or the process is told to end, in the middle of the closes of `connection_handler` too, the process ends and no transaction is left |
| `shared_commit` | 2 handles | *violation*: with a shared back end a successful commit may store nothing (and, in the same way, what a handle aborted may be stored) |

The violation is a disagreement between the code and the manual; `findings` quotes both
sides. Other behaviours of the code are left out by the constants of the passing
runs, and show when these are changed:

* close() inside a transaction ends the server's but keeps `curtrs` (`Database.cc:398`):
  a handle opened again believes that it is in a transaction. `one_handle` with
  `HeldInTransaction` shows it, which is why `two_handles` opens a handle once.
* open() ignores the status of its internal commit (`Database.cc:929`): with "commit" in
  `Faults` it leaves a level behind and `CommittedDurable` fails.
* close() with `commit_on_close` commits on the server without looking at the incoherency
  flag (`Database.cc:400`), so that half a failed store becomes durable, a commit that
  `Transaction::commit` refuses (`Transaction.cc:99`): `one_handle` with `CommitOnClose`
  violates `NoIncoherentCommit`.
* the quit handler stops at the first abort that fails (`kernel.cc:248`): with "abort" in
  `Faults` the storage manager's transaction is left open and `QuitAborts` fails. The
  invariants of `two_handles` hold with it too, by the theorems below.

Bounds. `MaxNest` = 2 distinguishes an outermost from an inner call, the only
distinction the code makes. `MaxScopes` (1 to 3) lets a transaction follow a
committed or aborted one. `MaxOpens` = 2 gives one reopen, `MaxRef` = 2 one shared
reference. Two handles suffice for sharing: the server only sees how many there are.
A failing close of the storage manager is in no run: with it a handle stays open on a
half-closed back end, and nothing below is claimed.

Fairness: the closes of `connection_handler`, the release and the turns of the quit handler
happen; a backend whose client is gone has nothing else to do. Nothing is assumed of clients.

### Proofs

`TypeCorrect`: every reachable state is well typed, for all constants, with all
failures. It is the statement that no level or counter becomes negative, on both
sides.

`ServerIsCoherent`, `ServerCountsHandles`, `ServerStaysOpen`: the invariants
`ServerCoherent`, `ServerRefCount` and `OpenOnServer` for every set of handles and all
bounds, under

    Reliable == "close" \notin Faults /\ (SchemaOps => "commit" \notin Faults)

Begin, abort, store, load and open may fail; commit may fail unless classes are
created (a failing commit of the purge in `Transaction::abort` really leaves a
storage-manager transaction open). None of the three is inductive. The inductive
invariant `ServerInv` is

* `TypeOK`, and
* no handle open: the back end is closed, the storage manager idle; and
* k > 0 handles open: `srv \in OpenSrv(k)`, that is, the back end is open and listed
  with `ref = k`, coherent with the storage manager, and safe to purge.

It is needed because a reference count is only meaningful together with openness (a
close at count 1 is the close of the database), and coherence at a close depends
on nobody else being open. The argument follows the layers: `DatabaseClassProofs`
characterises the outcomes of each call over an arbitrary lower layer (`BeginIs`,
`CommitIs`, `AbortIs`, `OpenIs`, `CloseIs`) and shows that calls keep the lower layer
in any set closed under its operations (`LowerClosed`); `TransactionProofs` shows for
the back end that each call keeps coherence, concludes that `OpenSrv(k)` is
closed under the server's transaction calls, and applies the closure lemmas to the
client side. `ServerInvNext` then has one step per action.

`AtomicityProofs` follows the same calls through the layers with what they do to the
level and to the stored operations: `At(k, n, P, D)` is an open server with k handles at
level n, P pending and D durable, and every call has its outcomes listed in these terms
(`BeginOutcome`, `CommitOutcome`, `AbortOutcome`, `OpenOutcome`, `CloseOutcome`). The
theorems, all under `Reliable`, for any other bounds and failures:

| Theorem | States | Further assumptions |
|---|---|---|
| `Held` | `HeldInTransaction`, any number of handles | `MaxOpens <= 1`: no object is reopened |
| `Scopes` | `ServerCountsScopes`, any number of handles | `Certain`; `MaxOpens <= 1` or `Alone` |
| `Stores` | `OnlyCommitStores`, any number of handles | `Certain`; `MaxOpens <= 1` or `Alone` |
| `Commits` | `CommittedDurable` | `Certain`, `Alone` |
| `Aborts` | `AbortedForgotten` | `Certain`, `Alone` |
| `WholeOnly` | `NoIncoherentCommit` | `Certain`, `Alone`, `~CommitOnClose` |

`Certain` says that the storage manager commits and aborts what it is asked to (begin,
store, load and open may still fail); `Alone` says that there is at most one handle. Each is
needed: a reopened object brings its old `trs_cnt` along, a failed abort leaves a level
behind that nobody holds, a second handle keeps a committed transaction pending (the run
`shared_commit`), and `close` with `commit_on_close` commits without looking at the
incoherency. The configurations of `one_handle` and `two_handles` satisfy them.

The two inductive invariants are `HeldInv` (`ServerInv`; the back end is never incoherent; a
holder is open and has a current transaction, and a handle that is open and not reopened
holds a level exactly then; the server's level is at least, and under `Certain` exactly,
the number of holders) and `AtomInv` (`HeldInv`; a holder's transaction has the fate "open";
under `Alone`, what is pending was stored by the open transaction of its holder and is whole
or leaves it incoherent, and what is durable belongs to a transaction told to be
committed). `HeldInv` is needed because atomicity fails exactly when a level is ended by
somebody who does not hold it.

Only model-checked: `QuitAborts`, which is liveness and out of the prover's reach.

## 3. The session log

### The model

Backends and `eyedbctl` processes each have a program counter; one load or store of a
shared word is one step, because `stop` reads without the mutex. `cell[c]` is a
`ClientInfo` entry (`conn_next`, `conn_prev`, `backend_pid`), `alloc` the entries
given out by `XMAlloc`, `first` and `nconns` the header. `XMFree` keeps the contents of an
entry; the `memset` of `add` clears them when the entry is used again. `order` is
history: the entries a correct list would hold.

| TLA+ | Code |
|---|---|
| `Alloc`, `AddLock` ... `AddUnlock` | `SessionLog::add` |
| `Quit`, `SupLock` ... `SupUnlock` | `IDB_releaseConn`, `SessionLog::suppress` |
| `DisplayLock` ... `DisplayUnlock` | `display` under the mutex (`status`) |
| `CountFirst`, `CountNconns`, `Forward`, `Backward`, `Previous` | `get_nb_clients` |
| `Decide`, `ScanFirst`, `KillOne`, `KillNext`, `KillMaster` | `stopServers` |
| `MasterQuit` | `_quit_handler` of `eyedbd`, `SessionLog::remove` |
| `Crash` | a backend ended by a fault (external) |

The second walk of `display`, which prints the entries `get_nb_clients` has counted, is
the set `seen` of the first: both are under the mutex, on the same list. A signalled
backend quits when it waits for its client: when exactly a signal is
delivered is up to `eyedblib`. Crashes with the mutex held, and the databases listed in
an entry, are not modelled. A backend may register whether or not the main process is still up, as
in `add`; whether the main process would still have started it is left open.

### Runs

| Run | Instance | Shows |
|---|---|---|
| `session_status` | 4 backends, room for 3, status; symmetric in the backends | `LogIsList`, `ClientsListed`, `StatusExact` |
| `session_stop` | 2 backends, room for 2, all three commands | the command ends although the list changes under it (`ToolEnds`); a backend that quits, or is signalled, gets the mutex, leaves the log and ends (`BackendsEnd`) |
| `stop_kills_clients` | 2 backends, stop | *violation*: stop without -f kills a connected client |

`stop -f`, too, walks a list that changes (`SessionLog.cc:764`): it can follow the link of an
entry that has just been freed and used again, and end before it has signalled a
connected backend.

Bounds. `MaxCells` = 3 with four backends gives a full log, a refused client, an entry
that is reused, and removal at the head, in the middle, at the tail and of the only
entry. A backend serves one client, as in the code. Symmetry (`MCSessionLog`) is used for
safety only; the liveness run has none.

Fairness: each backend and command that can step does; a signalled backend quits. A
weakly fair mutex suffices because every backend takes it at most twice and every
command once, so nobody can be overtaken for ever. The runs end when all
processes have ended, hence `CHECK_DEADLOCK FALSE`.

### Proofs

`List`, `Clients` and `Status` are the three invariants of `session_status` for any sets of
backends, entries and commands, and any mix of the commands; `ProcessAssumption` (processes
are distinct from each other and from the null entry) is all that is assumed. None of the three is
inductive: between the lock and the unlock of `add` or `suppress` the links, the header and
the count disagree. The inductive invariant says by how much:

* `Mutex`: who is in which critical section holds the mutex, so at most one process is in
  one; `Owners`: an entry that a backend has allocated is its own; `Distinct`: `order`
  repeats no entry.
* `Forwards`: `conn_first` and the `conn_next` of every entry are right at *every* step:
  `add` prepares the new entry before it is linked at the head, and `suppress` bypasses
  with one store.
* `Backwards`: `conn_prev` is right, but for the one entry that follows an entry under
  insertion or removal, between the two stores.
* `Counted`: `nconns` lags by one between the halves.
* `Walks`: where the walk of `status` is in `order`, and that `seen` and `nb` are what it has passed.

Each action is shown to keep each of them (`Forwards` under a removal is an argument about
sequences: `Drop` shifts what follows the entry). That `stop` reads without the mutex makes no difference to the
list, since it writes nothing; what it may see is not claimed. `ToolEnds` and `BackendsEnd` are
liveness and stay with TLC.


## 4. Collections

### The model

`ValueCache` is the client's cache of pending changes: the items of `val_map` and of
`id_map`, as two sets of the same item objects. `Collection` is one collection of references
(a set, a bag or an array) with that cache, and the collection as the server keeps it.

| TLA+ | Code |
|---|---|
| `coll` | the client's `Collection`: cache, `v_items_cnt`, `top`, oid, modify |
| `read`, `rarr` | `read_cache.oid_arr` with its state; `CollArray::read_arr_cache` |
| `srv` | the stored collection: `idx1` (item to index), `idx2` (index to item), the count and top |
| `Insert`, `SuppressItem` | `insert_p`, `suppress_p` of `CollSet` and `CollBag`, by oid and by pointer |
| `InsertAt`, `Append`, `SuppressAt`, `ArraySuppress`, `ReadAt` | the calls of `CollArray` |
| `Empty` | `Collection::empty`, whose loop advances an erased iterator (undefined) |
| `Realize` | `Collection::realize` and `IDB_collectionWrite`, which may fail half-way |
| `GetElements` | `getOidElementsRealize`: a scan merged with the cache |
| `RetrieveOid`, `RetrieveObject` | `CollArray::retrieveAt`, as the set of answers it can give |
| `card`, `CheckCardinality` | `card_bottom`, `card_top` and whether each is excluded; `checkCardinality` |
| `Reload`, `StoreObject` | the collection is loaded again; an item gets its oid |

An assertion that fails ends the process (`proc`). A read of an item after its release
(`ValueCache::suppress`) is taken to find the released bytes intact. `ref` is what the successful calls mean
to the client, and `saved` what they meant at the last successful realize: every
property compares an answer, or the store, with them.

### What the run shows

`collection`: a set, a bag and an array of two objects, two indexes, without a cardinality
constraint, with one that says "exactly one" by two excluded bounds, and with one that says
"exactly two" by two included ones.
`ServerAgree` holds for every client: whatever is sent, and wherever the write stops,
the count is the number of stored elements and the two indexes mirror each other. The
others hold for clients that avoid certain patterns of calls; `used` records the patterns a
behaviour has met, so that each property says which it excludes:

| Pattern | What the client does | What then happens |
|---|---|---|
| alias | names a pending object by oid and by pointer | two items for one object; set duplicates (`CollSet.cc:145`, against `Overview.tex:372`) |
| reinsert | inserts while a removal is pending | one of the two changes is lost |
| twice | puts an item twice in a bag | val_map holds only the last of the two |
| empty | empties a collection with pending changes | the erased iterator; removed items that were never stored |
| wild | suppresses an array's item by value while it is pending | `where` is uninitialized: any index (`CollArray.cc:158`) |
| replace | puts an item at a pending or stored index | the count is not exact, so the cardinality bound may be exceeded |
| unset | suppresses a pending index | `assert(0)` in `ValueCache::suppress` (`ValueCache.cc:109`) |
| stale | changes an index that was read before | `retrieveAt` returns the old object (`CollArray.cc:469`); `LookupExact` does not cover it |
| failed | a realize fails half-way | the cache is sent again from its start |

`retrieveAt` (`LookupExact`). An item that is pending was never encoded, but its oid is decoded all
the same (`CollArray.cc:421`, `493`): on a little-endian host (`LittleEndian`) its bytes are
swapped and it is the oid of something else (`Garbled`). A pending object that has no oid gives the
null oid. For a pending removal the `Object *&` is not assigned (`CollArray.cc:503`), so that any answer
is possible. The property therefore covers an index by oid when nothing is pending there, and as an object
when nothing is, or an object inserted by pointer is. No document says what retrieveAt owes
(`CollArray.h`: "Not yet documented").

`getElements` (`ElementsExact`). The comment at `Collection.cc:2243` says that it leaves the
cache out and returns "only the oids in database". Since `NEW_GET_ELEMENTS` the code merges the pending changes that are
known by oid, and `ElementsExact` states that. The comment
is out of date: an insert by oid before a getElements is in its answer.

Cardinality (`CardOK`). Overview.tex:411 says that "the count of this collection must follow this
cardinality constraint"; ODL.tex:360 calls the constraint "partially implemented" and "not
currently supported". What there is: the client compares `v_items_cnt` with the bounds when it
compiles the cache, and the server compares nothing. The run has each kind of
bound, included and excluded, and shows that a realize() changes the stored collection only to a number of elements within the bounds,
for clients without the patterns that spoil the count (alias, reinsert, twice, empty, wild, replace). It does not say
that a stored collection is always within them: `create_realize` creates the object before it
checks, so a refused first realize() leaves an empty one, below the lower bound.

Bounds: `MaxUsed` = 1 pattern a behaviour, so that what each one does is seen apart;
`MaxIds` = 2 and `MaxElems` = 2 let each index and each object be pending, stored or both, and
each bound of a cardinality be met and missed. With two objects an item can be the same as, or
other than, the one the code has in hand.

Nothing is proved of `Collection`. Its count is compared with sums over the items of a cache and
over bags, and what such a sum is after a change is an induction over data, which the prover
cannot do; the invariants stay with TLC.

## 5. Relationships and the object store

### The model

An object has one attribute with an inverse: a reference, or a literal collection known by
its owner. The relation is 1:1, 1:N or N:N. A client call is one step, because the client is
sequential and waits for the server; a failure leaves any subset of the objects it was to
write written (`Half`), for the code writes them one at a time in an order that no property
depends on.

| TLA+ | Code |
|---|---|
| `db`, `saved` | the objects as the transaction sees them, as committed |
| `Create_*`, `Update_*`, `Remove_*` | `inverse_1_1`, `inverse_1_N`, `inverse_N_1`, `inverse_N_N` by operation |
| `Insert_*`, `Suppress_*` | `inverse_coll_perform_N_1`, `inverse_coll_perform_N_N` |
| `ctx` | `inv_list` left set by a trigger's early return (`kernel.cc:2156`): the next replies are empty |
| `held` | the client's cached objects; `Patched` is `object_epilogue` |
| `created`, `deleted` | the marks of the back-end `Database`; `Commit` is with `IDB_objectDeletedManage` |
| `Store`, `Create`, `Remove`, `CollInsert`, `CollSuppress` | the calls, with storage errors, triggers and constraints that refuse |

`AbstractRelation` is the promise: a set of pairs in a transaction, one link made or broken,
or one object forgotten, at a time. `Relationship` implements it (`RelationSpec`), with the
pairs that the first end's attributes give, and no pair in an incoherent transaction. The
abstract steps are operators on the set before and the set after, so that TLC tests a step
without enumerating sets of pairs and the proof names the pair it is about.

### Runs

| Run | Instance | Shows |
|---|---|---|
| `relationship` | 2 + 2 objects, three relations, all faults but "ignored" | `RelIntegrity` both ends agree; `CacheFresh` and `StoreKeepsLinks` no stale cached object undoes a link; `RemovedShrunk`; the refinement |
| `nn_remove` | N:N | *violation*: a suppression or a removal takes a partner out of the collections of third objects at one end only |

The passing run leaves out what an application must not do if the properties are to
hold. Each is a constant (`Careless`, or the fault), and each breaks what the table says:

| Kind | The application | Breaks |
|---|---|---|
| gone | stores a reference to an object removed since it was set | `RelIntegrity` |
| early | stores an object it loaded before the server made its collection (`Attribute.cc:4110`; the comment at `Attribute_inv.cc:25` knows it) | `StoreKeepsLinks` |
| refused | creates an object that refers to another and violates notnull (`kernel.cc:6403`) | `RelIntegrity` |
| move | 1:N, inserts an object of another collection: all of that one's elements lose their owner | `RelationSpec` |
| shared | N:N, suppresses or removes what others hold too | `RelIntegrity` (run `nn_remove`) |
| collection | stores a collection by itself and commits although that failed | `RelIntegrity` |
| retry | commits again after a failed commit (`kernel.cc:1993`) | `RemovedShrunk` |
| fault "ignored" | - (an ignored storage error, `kernel.cc:4684`) | `RelIntegrity` |

Bounds: with two objects of each class an object can leave its partner for another one,
whose partner is a third. `MaxHeld` = 2 cached objects: a call is made on one, and
changes the other. The objects of a class are interchangeable (`Symmetry`), and an
incoherent transaction can only be aborted, so `View` identifies those on the same
committed objects; both leave the properties of the run alone, which are symmetric and say
nothing of an incoherent transaction's contents. `LeakBound` keeps one cached object where a
failed trigger has left `ctx` set: from then on no cached object is patched, so two of them do not
act on each other.

### Proofs

All six properties of the run are proved for any sets `A` and `B` of objects, every relation and
any bound on the cache. Each theorem excludes only what breaks it, as in the table above:

| Theorem | States | Excludes |
|---|---|---|
| `TypeCorrect` | `TypeOK` | nothing |
| `Shrunk` | `RemovedShrunk` | retry |
| `Fresh` | `CacheFresh` | ignored, refused, collection |
| `Integrity` | `RelIntegrity` | ignored, gone, refused, shared, collection |
| `PlainStores` | `StoreKeepsLinks` | these and early |
| `Refinement` | `RelationSpec` | these (not early) and move |

*Types and shape* (`TypeInv`). A database is `Formed`: the attribute of an object refers to the
other class, an object that is not there has no links, a reference's side has no collection. It
holds in failed transactions also, since a call that stops half-way leaves each object as
before or as after (`MixedFormed`).

*Both ends agree.* For each operator that translates a case of `Attribute_inv.cc` a lemma
(`Create_1_1Is`, `Update_1_1Is` ...) says object by object what it returns; from these, each call
either breaks the transaction or has one `Effect`: the links stay, an object is forgotten, one
object loses its link, or one object gets one. Each `Effect` keeps symmetry, so `Integrity` needs one
step per call and not one per case of relation, operation and previous partner.

*The cache.* A lemma for each call says that any object whose reference it changes is in
the list it returns, or is the object of the call; so `Patched` restores `CacheFresh`. The removal of an object
that is in the cache, and `ctx` (the list left set by a trigger), are the cases apart.

*Removed objects.* `RemovedShrunk` is inductive only with `Reaped`: in a transaction
that has not failed, what is flagged removed is marked deleted, so that the commit finds it.

*Refinement.* Initial states map to initial states, and each step of `Next` maps to a link made, a link
broken, an object forgotten, a commit, an abort or a failure of `AbstractRelation`, or to a stutter. It
uses `Integrity`: that the pairs seen from the second end are those seen from the first is what
makes a removal at either end one abstract step.

## 6. Recursive store and remove

`Realize` follows a call object by object: `stack` holds the activations of
`Agregat::realize` or `remove`, `ret` what the last of them returned, so that an error is seen to
go up through every activation. An object has a pointer and an oid for each
attribute, because the code keeps both and copies one to the other after each child
(`SetItemOid`). `mode` is the `RecMode`.

| Run | Instance | Shows |
|---|---|---|
| `realize` | 3 objects, 2 attributes, 7 graphs (chain, sharing, cycles), with and without recursion, writes that fail, constraints that refuse; 2 calls | `StoreComplete`, `RefsStored`, `VisitedOnce`, `RemoveComplete`, and every call returns |
| `store_lost` | the same without faults | *violation*: an object that two paths lead to keeps its `Realizing` flag, and later stores of it write nothing |

Fairness: `WF(Step)`, the steps of a call under way. It is sequential code that waits for
nobody. Calls are bounded, so behaviours end: `CHECK_DEADLOCK FALSE`.

Bounds: two calls, with one change by the application between or before them, are the least
that show what the first leaves behind; three objects are needed for two paths to a third. Longer
sequences, such as a store after a remove after a store, are covered by the theorems below, which
have no bound.

What the code does outside of these properties, all visible in the model: a refused create
keeps its oid, so that a later store of it succeeds and writes nothing or fails on the
server; the parent of a refused child stays reserved; a recursive remove of a shared
object meets it twice, fails with "already removed" and breaks the transaction; a store
of an object that was removed and has not been changed since succeeds and writes nothing, which is
why `StoreComplete` exempts removed objects; and `setValue` with a null pointer leaves the stored oid.

### Proofs

`Once`, `Stored`, `Removed` and `References` are the four invariants of the run for every set of
objects, number of attributes, initial graph, set of modes and faults, and all bounds; nothing is
assumed but the types of the constants. The inductive invariant describes a call in the middle:

* `Stack`: the activations are of different objects, and each is on the object that the current
  attribute of the one below points to.
* `Visits`: an object is counted at most once and then is `Known`: it has an activation, with its
  `Realizing` flag, or is in `realizedMap`, not both.
* `Storing`: if the call began clean and has met no error, the objects in `realizedMap` are written,
  and for their attributes, and those that an activation has passed, the reference is the
  oid of the pointer and the target is `Known` (`Linked`).
* `Sweeping`: there is a set of objects removed so far by this call, whose passed attributes
  lead into the set or to objects without oid. It is quantified, not a variable: the code keeps no such set.
* `Removals`, `Refs`, `Saved`: what the flags of the client's objects say about the stored ones.

When a call returns, the stack is empty, so `realizedMap` is closed under the pointers of the mode
and contains the root; `Reach`, the least such set, lies within it. This is why `Reach` is
defined as an intersection and not by recursion: the proof needs no induction over paths. It is the proof
that showed that `StoreComplete` has to exempt removed objects: that takes three calls. `CallReturns` is
liveness and stays with TLC.

## 7. Indexes and constraints

`Index` is a class with an indexed number and an indexed string, unique and notnull in
several combinations. A string longer than `VarsSz` is in a data object of its own, for which the
client makes calls of their own before it writes the object (`UpdateVD`: `AttrVD::update_realize`).
So the entry of one string is maintained by `updateIndexEntry` or by the `IDB_VDdata*` calls
according to where the old and the new string are, and each test has to agree with the
others. Keys start with a byte that tells null from not null, as in the code.

The index is a bag of entries, so that an entry inserted twice is seen. A call first collects, for each
attribute, the entry to remove and the entry to insert (`Queue`, `AttrIdxContext::addIdxOP`), and
applies them at its end (`Perform`, `RealizeIdxOP`: `realizeIdxOP`), where an entry that is not found is an
error that breaks the transaction.

`held` is the object in the client's hand with what its accessors note: the size has changed
(`chg`), the string is loaded, the bytes in the object were ever set (`ini`). `want` is history.

| Run | Instance | Shows |
|---|---|---|
| `index` | 2 objects, numbers 1 and 2 or null, strings of 1 to 4 bytes out of '1' and '2' with `VarsSz` = 2, three choices of notnull | the index is exactly one entry per attribute and live object, what was stored is read, no data object is lost or left, the constraints hold, a refused store changes nothing and has one of the code's reasons |

`Careless` again names what the passing run leaves out:

| Kind | The application | Breaks |
|---|---|---|
| duplicate | updates a string to one in use: the search lacks the key's first byte (`Attribute.cc:3393`, against `ODL.tex:389` "is unique in the collection of C objects") | `ConstraintsHold` |
| refused | stores an object with a long string that is refused: its string was already deleted, or its entry already inserted (`Attribute.cc:6263`, `kernel.cc:2958`) | `IndexExact`, `StoredExact`, `DataOwned`, `RefusedUnchanged`, `RefusalExplained` |
| resize | sets the size of a stored string to 0 alone, as an OQL assignment of a dimension does (`Attribute.cc:3366`) | `IndexExact` |

The unique test of an update searches the bare string (`Attribute.cc:3393`) among keys that begin with
'0' or '1' (`idxNull`, `idxNotNull`: `Attribute.cc:82`). It misses the string it looks for, and finds another: an
update to "1abc" is refused because some object, perhaps the same one, has "abc", and one to "0" because an object has none.
The notnull test of an update looks at the bytes in the object, where a string that has always
been long never was (`Attribute.cc:3322`), and refuses it. `RefusalExplained` lists the
reasons a refusal can have: those of the constraints, and these two misreadings. Both occur
in the run, each as the only reason of some refusal. What the property excludes is a refusal because of a stale entry, or, but for the
first misreading, because of the object's own.

Abstractions: one client in one transaction with one object in hand; it drops a new object
that is refused; an oid is not given out again while something refers
to it; an error other than a constraint's ends the behaviour.
Bounds: two lengths above and one at the boundary give every move between short and long
and every change of size of a long string; two data objects per object, the old and the new.

### Proofs

All six properties of the run are proved for every set of objects, numbers, characters and lengths,
every `VarsSz`, every choice of unique and notnull and at least two data objects, under
`Careless = {}`, which the run has too: each of the three kinds breaks what the table says.

| Theorem | States |
|---|---|
| `IndexIsExact` | `IndexExact` |
| `StoredIsExact` | `StoredExact` |
| `DataIsOwned` | `DataOwned` |
| `ConstraintsAreKept` | `ConstraintsHold` |
| `RefusedIsUnchanged` | `RefusedUnchanged` |
| `RefusalIsExplained` | `RefusalExplained` |

They follow from one inductive invariant, `IInv` (theorem `IndexInvariant`), because none of
them is inductive: that a store finds the entry it removes depends on where the stored
string is, on what the client believes of it, and on the keys of all other objects.

* `Kept`, `Gone`: a stored object refers to a data object exactly if its string is long, that
  data object holds the string, and there is no other one; an object that is not stored has nothing.
* `d.idx = SetToBag(Entries(d, d.live))`: the bag has each entry once.
* `NotNull`, `Alone`: the constraints.
* `HeldOK`: what the client knows of the object in hand. It has the oid of the stored data
  object, its string becomes empty only if the stored one is, and the size of a long string is
  that of the stored one unless `chg` is set. Without the last, `update_realize` would overwrite a data
  object of another size; with "resize" the second fails.

The argument follows a store through its calls. `UpdateVDIs` gives, in the five cases of
`AttrVD::update_realize` (nothing, create, delete, delete and create, write), the same result: the data objects
are those of the new string, and the index is what it was without the old string if that was long
and with the new one if that is (`Prepared`). From there `AgregatCreateIs` and `AgregatWriteIs` show
that the queue of each attribute turns the entries it finds into the entry of the new value (`Turns`,
`TurnsBoth`): this is where `skipInsert` and `skipRemove` have to complement what the first call did.
The two meet in `StoreOK`, and `StoredInv` shows that it keeps the invariant. The keys enter by
two lemmas: they are injective (`StrKeyInjective`, `NumKeyInjective`). For the search of `updateIndexEntry`, which
uses the bare string, nothing is assumed: strings may begin with '0' or '1', what it finds is some live object's key
(`KeyTaken`), and `StoreShortRefused` and `StoreLongRefused` give the reason of each refusal. The case of an object that `IDB_agregatCreate` puts and deletes again
(`CreateRefused`) needs that none of its entries is in the index, so that the removal stops at the first.

## 8. Not modelled, and the plan

The implementation is about 240,000 lines, most of them generated classes (`syscls.cc`,
`oqlctb.cc`, `DBM.cc`), the OQL and ODL translators, formatting, marshalling and bindings: they
keep no shared state, have no order of steps to get wrong, and a model of them would be a
transliteration. The models cover the core in which state is kept; of it these are left:

1. `Index` for references: `updateIndexForInverse`, which `Relationship` leaves out, and their
   composition; arrays, embedded aggregates, the propagation of an index to subclasses.
2. `BEQueue` and iterators; `gbx`; the hash table of `ObjCache`.
3. `SessionLog`: the databases of an entry with its bound of 8; a signal inside `add` or
   `suppress`, which needs the delivery rules of `eyedblib`.
4. `Relationship` and `Collection` together: a collection's pending changes over inverse
   attributes.
5. Proofs: the invariants of `Collection` count with bags and folds, whose proofs are inductions
   over data and out of the prover's reach, as is all liveness (`QuitAborts`, `ToolEnds`,
   `BackendsEnd`, `CallReturns`): these stay with TLC.

Authentication is a precondition of open. Locks, dataspaces, the local (in-process) open path,
loading with `RecMode`, collections of literal values and lists are not modelled. The
index structures and the log of the storage manager are not in this repository.
