# Verification of ECPPU (oppo_project)

ECPPU is an erasure-coded key-value store. A client sets and gets values; a
coordinator keeps the metadata; one proxy per availability zone (AZ) encodes,
decodes and moves the data; datanodes, each in front of a memcached, hold the
blocks. This directory holds TLA+ modules translated from the C++ under
`src/oppo_project`, TLC instances that check them, and TLAPS proofs.

## 1. The system

| Component | Code | State | Operations |
|---|---|---|---|
| Client | `client.cpp`, `run_cpp/run_client.cpp` | its acceptor; `key_values`, what it has set | `set`: upload RPC, connect to the proxy named in the reply, send key and value, `checkCommitAbort` RPC. `get`: `getValue` RPC, then wait in its own acceptor for a proxy to bring the value |
| Coordinator | `coordinator.cpp` | object tables `..._updating` and `..._commit`, `m_mutex` and `cv`, `m_next_stripe_id`, `m_Stripe_info`, `m_AZ_info`, `m_Node_info`, `cur_az`; for small objects the members `cur_stripe`, `cur_smallobj_proxy_*`, `az_id_for_cur_stripe`, `buf_rest`, `key_in_buffer`, set up once by the first small set | gRPC handlers `setParameter`, `uploadOriginKeyValue`, `getValue`, `reportCommitAbort`, `checkCommitAbort`, `requestRepair`, `updateGetLocation`; `generate_placement`, `generate_repair_plan`, `do_repair` |
| Proxy | `proxy.cpp` | one acceptor shared by all its threads; `proxy_buf`, `buf_offset`, `sem` | gRPC handlers that start a detached thread and return: `EncodeAndSetObject`, `WriteBufferAndEncode`, `decodeAndGetObject`, `getObjectFromBuffer`, `mainRepair`, `helpRepair` |
| Datanode | `datanode.cpp` | blocks by key `<stripe>_<shard>` | set, get; it exits when asked for a block it does not hold |
| Erasure codes | `azure_lrc.cpp` | none | `encode`, `decode`, `check_received_block`, `check_decodable_azure_lrc`; RS, OPPO_LRC, Azure_LRC_1 |
| Repair | `coordinator.cpp` `requestRepair`, `generate_repair_plan`, `do_repair`; `proxy.cpp` `mainRepair`, `helpRepair` | `m_Stripe_info`, `Node.stripes`; the buffers of a repair | for each stripe of the failed nodes a few jobs: blocks are read by the proxies of their AZs, sent to the main proxy, combined, written to spare nodes, and the list of nodes is changed |
| Update | `Client::update`, `updateGetLocation`, `split_update_length` | `m_next_update_opration_id` | splits an update into ranges of blocks, tells the client which proxy takes which range, makes out notices for the proxies. Nothing is sent to a proxy: its handlers are stubs |
| Utilities | `ToolBox.cpp`, `tinyxml2` | none | byte conversions, random keys, XML |

**How they interact.** gRPC calls run on threads of the server, so handlers of
the coordinator overlap; `m_mutex` protects the object tables and nothing
else. The value never passes through the coordinator: the proxy's detached
thread accepts the client's connection from an acceptor that all threads of the
proxy share. The proxy reports the commit by an RPC of its own; the client
learns of it through `checkCommitAbort`, which waits on `cv`.

**What is hard.** (1) Threads of concurrent sets take each other's connections.
(2) Commit, publication and the erasure of an older commit of the same key may
come in any order. (3) `m_next_stripe_id++` is not atomic. (4) Small objects
are counted by the coordinator and stored by the proxy, at offsets each keeps
for itself, while buffers are rolled and saved in the background. (5) A failed
block read or write is reported as a success. (6) A placement has to survive
the loss of an AZ, whatever k, l and g are and wherever the round of the AZs
stands. (7) Repair moves blocks while others read the same tables.

**What makes each part correct.**

* Large set and get: what is set is got; what is committed is stored; a set is
  answered by its own commit; every call returns.
* Small set and get: no committed byte is ever without a copy, no buffer is
  filled past its end, both sides' offsets agree, readers are sent to the copy
  of the last set; every call returns.
* Placement: blocks of a stripe are on different datanodes, one AZ can be lost,
  for Best_Placement one AZ and one more block, and repair of one block stays
  in its AZ; the random draws end.
* Repair: what a plan reads suffices to rebuild what is lost; whoever reads and
  sums, each block enters once; a block is on the node the list names, moved
  blocks are on nodes of their own and in their AZ; calls return.
* Update: the ranges cover the update exactly once, over blocks and stripes of
  different sizes; the client finds each in the slice of the proxy where it lies;
  the local parities of the updated blocks are named to a proxy, and with
  Azure_LRC_1 the global ones.

## 2. The modules

| Module | Models |
|---|---|
| `ObjectStore` | the promise to a client: a table of values, with set in the phases forget, store, return |
| `BigObjects` | objects larger than `small_file_upper`: client, coordinator, proxy threads, datanodes |
| `BigObjectsInv` | the inductive invariants of `BigObjects` |
| `BigObjects_proofs` | the theorems of `BigObjects`, with any number of clients and with one; the refinement of `ObjectStore` is among the second |
| `SmallObjects` | objects up to `small_file_upper`: buffers, rolling, background saving |
| `SmallObjectsInv` | the inductive invariants of `SmallObjects` |
| `SmallObjects_proofs` | the theorem of `SmallObjects` with any number of clients, and the bookkeeping with one |
| `SmallSingle_proofs` | the theorems about the bytes of `SmallObjects` with one client, the refinement of `ObjectStore` among them |
| `StripeCode` | a scheme's blocks and local groups, and the losses it survives |
| `Ordered` | sets walked in an order, as the code walks its maps and sorted vectors; operators only |
| `StripeFacts` | lemmas about `StripeCode`, about finite sets of numbers and about `Ordered`, which the proofs share |
| `Placement` | `generate_placement` |
| `Placement_proofs` | the theorems of `Placement` |
| `RepairPlan` | what `requestRepair` and `generate_repair_plan` work out for a stripe; operators only |
| `Repair` | `requestRepair` and `do_repair`, the proxies taken together: the abstract repair |
| `RepairTransfer` | `mainRepair` and `helpRepair`: connections, partial sums; implements `Repair` |
| `Repair_proofs` | the theorems of `Repair` |
| `RepairTransfer_proofs` | the theorems of `RepairTransfer`, the refinement of `Repair` among them |
| `Update` | `Client::update`, `updateGetLocation`, `split_update_length` |
| `Update_proofs` | the theorems of `Update` |
| `MCBigObjects`, `MCSmallObjects`, `MCPlacement`, `MCRepair`, `MCUpdate` | the instances TLC checks |

`StripeCode` is used by `Placement`, `RepairPlan` and `Update`, `Ordered` by the last
two; `ObjectStore` is refined by `BigObjects` and by `SmallObjects`, `Repair` by `RepairTransfer`.

**BigObjects.** A *job* is one call of `Client::set`: the upload handler
(`upc`), and the thread of `EncodeAndSetObject` (`tpc`). `UploadErase`
is the erasure under `m_mutex`; `UploadLoadStripeId` and `UploadStoreStripeId`
are the two halves of `m_next_stripe_id++`, the second with the placement and
the entry of `m_Stripe_info`, repeated for each stripe of the object;
`EncodeAndSetObject` is the RPC, `UploadPublish` the entry in the updating
table. The thread steps are `Accept`, `SetToMemcached` (one sender thread per
block) and `ReportCommitAbort`, after which the client's `CheckCommitAbort` can
return. A get is `Get`, one of `GetValueFound`, `GetValueMiss` (`.at` throws
with `m_mutex` held, which nobody unlocks), `GetValueEmpty` (`stripes[0]` of an
object that has none) or `GetFails`, then `GetFromMemcached` for each block,
`Decode` for each stripe, and `Deliver`. The K-th block that *arrives* closes
the set that is decoded, and a read that failed counts. A value is a token and
the blocks of its stripes carry that token; a mixture decodes to `Garbage`.
Datanodes may crash and stay down (`Crash`); proxies and the coordinator do
not crash, except where the code makes the coordinator die.

**SmallObjects.** Buffers hold units, so that a value is a sequence of units and
lost or misplaced bytes show. The coordinator's part of `uploadOriginKeyValue`
is `ChooseBuffer`, then `Roll`, `NewStripe` if nothing has room, `StartWrite`,
`RecordObject`, `UploadPublish`. At the proxy, `WriteBuffer` is the thread that
takes the value, `ReinitBuffers` the handler that waits for the semaphore and
wipes the buffers, `EncodeCopy` and `SetToMemcached` the thread that copies,
posts, and saves. `Route` is `getValue`'s choice between buffer and datanode.
Parity blocks are not read by this path and are left out. The members for
small objects start as the first small set leaves them (coordinator.cpp:246-279);
the proxy it takes is looked up with `az_id_for_cur_stripe` before that member is
assigned (line 263), and the model has the one proxy that came of it.

**Placement.** One step per accepted draw (`PlaceRandom`), a stuttering one per
rejected draw (`DrawAgain`), one step per AZ visited (`PlaceTurn`). The two
loops of Best_Placement are the operators `TurnOfGroup` (g / b whole groups
share an AZ) and `TurnOfPiece` (a larger group is cut into pieces of g + 1);
`curAz` and `curNode` last from call to call. `Recoverable` is what the best
matrix could recover (maximal recoverability), so a stripe it rejects is lost
whatever the matrix is, and one it accepts is recoverable if the matrix is as
`doc/核心设计文档.md` asks (the code's Vandermonde-based matrix is not examined).
It counts: of the lost data and global parity blocks, as many as there are local
groups with such a loss and a live local parity are made up for by those, and the
rest must be no more than the global parities can solve for.

**Repair.** A handler of `requestRepair` (`req[h]`) is at one of five points.
At `scan` it takes the next stripe of the failed nodes and either goes past it
(`SkipStripe`) or sorts the failed blocks into jobs (`ExamineStripe`), one job
per call of `do_repair`; with none left it answers (`Reply`). `PlanJob` is
`generate_repair_plan`, against the tables as they are now. `ReadBlock` is one
read by a proxy, `Combine` the sums and the decoding, `StoreBlock` one write,
and `Record` the change of the list of nodes when the RPCs have returned. `Fail`
takes a datanode down for good. A copy of a block is good or junk: a read from a
node that is down gives zeros and counts as the block, so what is combined from
it is junk and is written and recorded all the same. `Outcomes` says when the
equations that the code sets up have a solution.

**RepairTransfer** takes the proxies apart. `StartJob` sends the plan to every
AZ; a helper reads its blocks (`HelpRead`), connects and sends (`HelpSend`)
either the blocks or one sum per equation; the main proxy reads its own
(`MainRead`), accepts from the acceptor all its threads share (`Accept`), reads
each connection in a thread (`Receive`) and, when all are joined, sums and decodes
(`MainCombine`). A buffer is the set of blocks it is the sum of, and adding is
symmetric difference, so a block that is left out or counted twice shows:
`MainCombine` writes junk unless every equation holds exactly the blocks the plan
reads. `ImplementsRepair` maps what the main proxy and the helpers have read to
what `Repair` has read.

**Update.** A call goes from `Call` (the request as `Client::update` sends it,
with no field set) or `CallFilled` (a caller who sets them) through `Split`,
`TakeFirst` (only the stripe with the lowest id is gone on with), `FillReply`,
`MakeNotices` and `Number` to `ConnectProxy`, once per proxy, and `Return`. The data
blocks of an object are numbered through its stripes, so that the two loops of
`split_update_length` over the rest of the first stripe and over the stripes after it
are one list (`Following`). `slices` is what the client's loop reads of the list of
ranges for each proxy. It sends the proxies nothing: the three writes are commented out
(client.cpp:224-226), where `doc/OPPO项目文档.md:149` has the client send them the new
data; no property here says that it arrives. `Client::update`
leaves its request empty, and the repository has no caller that fills it, so
`CallFilled` models what the handler does with the request its message is declared
for; without it nothing is ever split. `SplitMissing` is a key that is not there: `operator[]` makes an object
without stripes, whose first stripe is read, and the coordinator dies.
`receive_client_shard_idx(idx)` reads past the end of the list it was meant to
grow; `OutOfRange` says whether that throws (`NoticesThrow`) or is let through. In a
build like the repository's (`-g`, no `NDEBUG`) the library's check of the index
probably always throws. In one without that check the read of memory that is not the
list's may also crash the coordinator, an outcome the model leaves out.
The collector of OPPO_LRC depends on two uninitialised variables and may be any
AZ these allow (`CollectorsOppo`). `doc/核心设计文档.md:212` takes as the collector the
AZ with the most updated data blocks or that with the most parity blocks, whichever
has more; the code works out the first and does not use it. The global parities of
OPPO_LRC and the last block of Azure_LRC_1, the local parity of the global ones, are
named to nobody.

### Assumptions that are constants

Where the code is right only under a condition, the condition is a constant. The
last column says what goes wrong without it, and names the run where one shows it.

| Constant | Meaning | Without it |
|---|---|---|
| `SerialAlloc` | increments of `m_next_stripe_id` do not overlap | `CommittedIsStored` fails: two objects take one stripe id |
| `KeysOf` disjoint | clients set keys of their own | `CommitIsOwn` fails: a commit answers the wrong set |
| `GetUnset` | FALSE: clients get only what they have set | a get of a missing key locks `m_mutex` for ever |
| `SemInit = 0` | the uninitialised semaphore happens to hold 0 | with 1, `NoByteLost` fails: the buffers are wiped before they are copied |
| `SerialUpload` | handlers of small uploads do not overlap | `SlotsFit` fails: one room is given twice |
| `ShortReads` | FALSE: `read_some` brings the whole value | `NoByteLost` fails: the tail is zeros |
| schemes of `MCPlacement` | RS has k <= g | `AzTolerant` fails: RS at Random allows k blocks in an AZ, of which g can be rebuilt; k = 3, g = 2, the usage in `readme.md:116` and of `run_client`, is outside it |
| `SerialRepair` | one call of `requestRepair` at a time | connections of two repairs get into each other's sums |
| `SparesAssumption` | each AZ has spare nodes that do not fail | `Restored` fails (repair does not find what it moved), or a vector is read past its end |
| `OutOfRange` | both outcomes are checked | |

The usage of `run_client` is meant here, not a run of it: its test of the number of
arguments (run_client.cpp:7) is true of every number, so the program always exits.

Two concurrent sets through one proxy break `ReadBack` even with all of them
(`MCBigSwap`); this is why the passing runs about values have one client, and
why those with two clients check what still holds.

## 3. The runs

Passing:

* **MCBigSingle**: one client, two keys, objects of one and two stripes, no
  failures. `ReadBack` (the test in `run_client.cpp`), `SetReturns`,
  `GetReturns`, and the refinement `KeepsPromise` of `ObjectStore`. Two sets
  and a get let a key be overwritten and then read, and the late block reads of
  one stripe arrive during the next.
* **MCBigPair**: two clients with a key each, three sets, two AZs, unrestricted
  stripe allocation, threads taking each other's connections. `AcceptBalance`
  (as many threads wait as connections come), `SetReturns`, `CommittedWhole`.
  Three sets are the fewest in which a client's second set meets the thread of
  the other's first.
* **MCBigFaults**: two clients, gets of missing keys allowed, a datanode that
  may crash at any time, three sets and two gets; RS with one data and one
  parity block, which is enough where nothing is decoded. The type invariant,
  `CommittedIsStored` and `CommitIsOwn`. The deadlock check is off because a get of a missing key
  does stop everything.
* **MCSmallSingle**: one client, two buffers of two units, values of one and two
  units, two AZs, four sets and two gets of any key that was set, at any time. Four
  sets fill both buffers and roll them once, to another proxy, and gets may come
  before the block they are sent for. `NoByteLost`, `SlotsFit`, `BookkeepingAgrees`,
  `BufferedIsCurrent`; `ReadsOrFails` (a get returns the last value, or fails because
  the datanode of the block is down, and never returns anything else); `SetReturns`;
  `OnlyEarlyGetsStop` (what a get brings down is the datanode of a block its thread
  has not sent yet, nothing else); and the refinement `KeepsPromise`, in the steps
  that leave all datanodes up. A second roll, which may begin while the first is being
  saved, needs a fifth set, too many for this instance; the proofs cover any number.
* **MCRepair**: each code with and without partial decoding, two calls one after
  the other. Azure_LRC_1 with a group per AZ (up to four failures, the last
  block of the stripe among them, which takes a job of its own); Azure_LRC_1
  with groups spread over AZs; OPPO_LRC with a block alone in its AZ; RS in two
  stripes that share a node, with nodes that fail while blocks are read and
  written. `OwnNodes`, `StaysTolerant`, `RecordedIsHeld`, `WritesWhole` (junk is
  written only when more was lost than repair is made for or a read failed),
  `Restored` (when the call returns nothing is left on a failed node),
  `RequestReturns`, and the refinement `ImplementsRepair`. `Handled` names the
  losses repair is made for: g blocks for RS and OPPO_LRC; for Azure_LRC_1 no
  more data blocks than live global parities with partial decoding, and without
  it at most two groups, because of the order in which blocks are taken.
* **MCUpdate**: objects of one, two and three stripes with blocks of two sizes
  and a small object; every offset and length up to one byte past the end; two
  calls at once in one of the five deployments. `SplitExact`, `SlicesMatchAzs`
  (the client takes the reply apart as it was put together), `ParitiesNamed`,
  `LeavesTables`, `UpdateReturns`. `SplitExact` leaves out an
  offset that is the first byte of a stripe after the first, which the code takes
  for the end of the stripe before (`Regular`).
* **MCPlacement**: schemes that take every branch, several calls in a row so
  that the round of the AZs starts anywhere; deployments have just enough AZs
  and datanodes. `DistinctNodes`, `AzTolerant`, `SmallGroupsTolerant`,
  `RepairIsLocal`, `Returns`.

Violated, each with a finding in `PROJECT.json`:

* **MCBigSwap** (`ReadBack`): a thread accepts another client's connection and
  commits a blank value.
* **MCBigLost** (`ReadBack`): the zeros of a failed read are decoded.
* **MCSmallRoll** (`ReadBack`): a reader is sent to a datanode that has not got
  the rolled block yet.
* **MCPlaceBest** (`BestTolerant`): groups larger than g are cut into pieces one
  block larger than the design document says, and an AZ and one more block
  are more than the stripe can lose.
* **MCRepairRows** (`RepairsRecoverable`): partial decoding takes the equations by
  their number; that of a group without a lost block makes the matrix singular,
  and garbage is recorded as repaired.

**Fairness.** Handlers and threads run on operating-system threads, and what a
step waits for (mutex, `cv`, semaphore, a connection) wakes it up: every step of
a handler or thread gets weak fairness. Calls of clients and crashes have none.
Mutex-protected sections are single steps, so strong fairness for the mutex is
not needed. In `RepairTransfer` and `Update` it is stated for all the steps of
one handler together (`Work(h)`, `Go(u)`): a call that can go on does, and
nothing is assumed of which of its threads is next. In `Placement` weak fairness of the accepted draw says that a random
draw of a free node, which has positive probability every time, happens.

**Bounds.** `MaxSets` and `MaxGets` bound the calls, `MaxStripes` the size of an
object. Where reads are checked, blocks are k = 2 and one parity, so that one
loss is survivable and two are not, and datanodes are as many as blocks, so that all objects share them.
`MaxRepairs` is 2, the fewest with which a repair meets what an earlier one has
moved; the schemes have two groups, the fewest with which an equation of
another group can be taken; `MaxUpdates` is 2, `Excess` one byte.

## 4. The proofs

`BigObjects_proofs` proves, for every number of clients, keys, AZs, datanodes,
blocks, sets, gets and stripes:

* `TypeCorrect`: `Spec => []TypeOK`, with no assumption but those the module
  states about its constants.
* `CommitSafe`: `SerialAlloc` and keys of their own imply
  `[]CommittedIsStored`; datanodes may crash at any time.
* `CommitOwnSafe`: under the same assumptions `[]CommitIsOwn`.

The argument. `TypeOK` is not inductive: that a published stripe has a
placement, say, depends on where its handler stands. `ShapeInv` adds, in five
named parts, which fields of a job are set at which `upc` and `tpc`, what a
client inside a call refers to, and that every stripe anything refers to is in
`m_Stripe_info`. `SafeInv` adds

* `AllocInv`: one handler is between load and store, what it loaded is current,
  and stripes below the counter keep the placement the proxy was sent;
* `OwnInv`: no two jobs have a stripe in common;
* `SaveInv`: what a thread owes no more is stored wherever the datanode is up;
* `OwnerInv`: an unfinished job is the current set of a client, so no two
  unfinished jobs are for one key (lemma `OneJobPerKey`), and once it has erased
  the key, only its own thread can commit it;
* `TableInv`: every table entry is a default object or the plan of a job for the
  key, finished if the table is the commit table.

A commit then names the stripes of a finished job, whose blocks are stored where
`m_Stripe_info` says. Each part has a lemma that every step preserves it, with a
step per action; `ShapeStep` and `SafeStep` combine them. TLC checks `SafeInv`
on the instance of `MCBigFaults` as well.

Three theorems need more than `SafeInv`:

* `ConnectionsMatched`: `[]AcceptBalance`, with no assumption. `BalanceInv`
  counts, for each proxy, the threads in accept and the connections that have come
  or will come; the two are equal, and each step that adds to or takes from one
  side does so to the other.
* `DatanodesStay`: `OnlyCrashes`, under the assumptions of `CommitSafe`: a
  datanode stops by a crash of its own and never because a get asks it for a block
  it does not hold. `ReadInv`: reads are of stripes of jobs whose thread is done.
* `CommitWhole`: `CommittedWhole`, under these assumptions and without crashes.

It also proves, for one client (`Setting`: `OneClient`, no datanode
crashes, gets only of keys that were set) and for every number of keys, values,
stripes, blocks, proxies, datanodes, sets and gets:

* `ReadsItsWrites`: `[]ReadBack`.
* `NothingStops`: the coordinator stays up, its mutex is free between handlers, and
  every datanode stays up.
* `PromiseKept`: `KeepsPromise`, the refinement of `ObjectStore`: the initial state
  maps to its initial state, every step to one of its steps or a stutter.

Each part of `Setting` is needed: `MCBigSwap` reads back a wrong value with two
clients, `MCBigLost` with a crash, and a get of a missing key leaves the mutex
locked. `OneInv` follows the one call under way: `CourseInv` (the connection the
thread takes is its own and brings its own value, and its plan is the one it was
sent), `DataInv` (a stripe's blocks, once owed no more, hold the value of its
job), `ValueInv` (the commit table names a finished job that wrote the current
value, unless the key is being reset), `GetInv` (what a get has read of a stripe
are blocks of that job, each once, so the first K decode to its value) and
`RoundInv` (every read of an earlier stripe is answered into a set nobody looks at
any more). TLC checks `OneInv` on the instance of `MCBigSingle`. For the refinement
`SpelledAlways` says that the table `ObjectStore` is given, which is made from the
commit table and the blocks, is the client's own account of what it set; the
phases of a call follow from `cpc`, `upc` and `tpc`.

`Repair_proofs` proves, for every deployment, code, placement, sequence of
failures and number of calls:

* `RecordedHeld`: `[]RecordedIsHeld`, with calls that overlap as they like.
* `Tolerant`: `[]StaysTolerant`, with calls that overlap as they like.
* `NodesOwned`: `SerialRepair => []OwnNodes`. With overlapping calls two plans
  for one stripe can choose one spare node, so the assumption is needed.
* `TypeCorrect`: `SerialRepair => []TypeOK`, which includes that
  `generate_repair_plan` finds a spare node for every block it rebuilds. The code
  takes the first element of a list it never finds empty; with calls one at a time
  and the spares of `SparesAssumption` it is right to.

The argument. None of the first three is inductive, because a plan is made long
before it is recorded. `Inv` adds what is true of the plans under way:
`WrittenIsHeld` (what a handler has written and not recorded is where it wrote it,
whatever others write meanwhile), `AzInv` (a plan moves a block to a node that the
stripe did not use, in the AZ of the block, and no two blocks to one node), and for
serial calls `PlanIsCurrent` (the list of nodes is still what the plan was made
from). That a plan is good rests on `RanksDiffer` of `StripeFacts`: the r-th lost
block goes to the r-th free node, and of a finite set of numbers two have different
ranks. `StaysTolerant` follows from `AzInv`, which keeps every block in the AZ it
was placed in. For `TypeCorrect`, `SparesSuffice` counts the nodes of an AZ: those
the stripe uses are one per block there (`OwnNodes`), the failed ones are used by
blocks that are lost or not used at all, so at least as many are free and up as
blocks are lost.

It also proves, with one call at a time (`SerialRepair`), the two theorems that say
that repair repairs:

* `WholeWritten`: `SerialRepair => WritesWhole`. Junk is written where there was none
  only for a loss repair is not made for (`Handled`), or when a block that was read
  had gone or was junk itself.
* `AllRestored`: `SerialRepair => Restored`. When a call returns no block of a stripe
  repair is made for is left on a node the call was told of.

`Inv` says where blocks are and nothing of why the ones a plan reads are enough, so
they need a second invariant, `WholeInv`: `index` (what `find_block` scans) is as it
was when the stripes were placed; every block is where it was placed or has been moved
off a node that may fail to one that does not (`Settled`, from `PlacesStay`, which
counts the spare nodes of `SparesAssumption` again); and what a handler knows of its
call (`Known`). The jobs left and the one at work rebuild all that is lost of the
stripe, a job of several blocks has only blocks still lost and none of the job at
work (a job of one block may be done twice: the global parities of Azure_LRC_1
are); the plan reads what `ReadsOf` says of the loss it was made for; and every other
stripe is still to be examined, or has nothing lost, or is not one repair is made for.
That what is read suffices is a statement about the codes, by the cases of
`generate_repair_plan`: `JobsCover` (the jobs it splits a loss into cover it),
`FirstSorted` and `TakenBlocks` (blocks and rows are taken in ascending order until
there are enough, each with what is lost before it), `RowsSuffice`, `TakenSuffice` and
`AzureReads` (for a handled loss the rows taken determine the lost blocks), together
`HandledIsSound`. TLC checks `WholeInv` on the instance of `MCRepair`.

`RepairTransfer_proofs` proves, as generally, of the proxies of a repair:

* `TransferSafe` and `TransferSerial`: the same four properties with the reads
  spread over proxies. The steps change what `Inv` reads as those of `Repair` do
  (`TransferStep`).
* `SumsComplete`: `SerialRepair` implies that a main proxy that has joined its
  threads has in every equation the sum of exactly the blocks the plan reads of it,
  in whatever order helpers connect and whichever of them sum before they send.
  `HelpInv` says what each helper has read of its share, `ConnInv` that the
  connections made, accepted and still to come are one from each helper of the
  running job; sums of disjoint shares add up (`DisjointSum`, `SumOfShares`).
  Without `SerialRepair` connections of two repairs mix.
* `TransferRefines`: `SerialRepair` implies `ImplementsRepair`. What main proxy and
  helpers have read, sent and received between them is what `Repair` has read
  (`Gathered`); a read is a step of `Repair`, sending, accepting and receiving are
  stutters, and `MainCombine` is `Combine` because the sums are complete.
* `TransferWritesWhole` and `TransferRestores`: `WritesWhole` and `Restored` with the
  reads spread over proxies. `WholeInv` reads nothing that the proxies have among
  them but what has been read, and by `SumsComplete` that is all when it is solved.

`SmallObjects_proofs` proves `SlotsSafe`: `SerialUpload => []SlotsFit`, for every
number of clients, keys, values, buffers, proxies, sets and gets, for either
start of the semaphore, and whether `read_some` brings values whole or not. What
the proxies do does not matter to what the coordinator gives out; what matters is
that between a handler's choice of a buffer and its entry in the books nobody
else takes the room, which only `SerialUpload` gives (the code does not lock).
`SlotsFit` is not inductive, because it says nothing of a handler that has chosen
and not recorded. `Inv` adds `OnePlacing` (one handler is between the two),
`RoomKept` (its buffer still has the room), `SlotInv` (what was given out of a
buffer lies before what is left of it, and apart from what else was given out)
and `TableInv` (the object tables hold what some set was given). `ChosenIsRoomy`
says that the buffer chosen, the one with the most room, has enough of it.

It proves two more theorems for one client (`OneClient`) and semaphores that start
at 0, as in `run_client`, for every number of keys, values, buffers, proxies, sets
and gets:

* `Agreement`: `[]BookkeepingAgrees`.
* `BufferedCurrent`: `[]BufferedIsCurrent`.

Both assumptions are needed: a semaphore that starts above 0 lets the buffers be
wiped before they are copied, and two clients' threads may take each other's
connections. The argument goes along the one set under way (`SingleInv`):
`OneAtATime` (every other set has ended, its thread too, because the client waited
for the commit that only that thread makes), `Course` (how far handler, thread and
client are with each other), `Connections` (the connection the thread takes is its
own), `Posts` (the semaphore that lets a handler go on is posted by the copy of its
own roll), `Offsets` (what the coordinator has given out of a buffer is what the
proxy has put into it and what the thread still owes, and the buffers of all other
proxies are empty, so it does not matter which is next) and `Tables`.

`SmallSingle_proofs` follows the bytes, in the same setting and with values that
`read_some` brings whole (`Setting`: `OneClient`, `SemInit = 0`,
`ShortReads = FALSE`), for every number of keys, values of every size, buffers,
proxies, datanodes, placements, sets, gets and rolls:

* `TypeCorrect`: `[]TypeOK`, which includes that no proxy puts more into a buffer
  than it has room for.
* `NothingLost`: `[]NoByteLost`, whatever gets do while a stripe is being saved.
* `ReadsItsWrites`: `[]ReadsOrFails`. A client may get any key it has set at any time,
  right after a set that rolls the buffers too, as `run_client` does. `[]ReadBack` does
  not hold (`MCSmallRoll`): such a get may take the datanode of its block down, and it
  and later ones for blocks there fail. They never return anything but the value.
* `EarlyGetsStop`: `OnlyEarlyGetsStop`. A datanode goes down only of a get for a block
  that the thread saving its stripe has yet to send there, never of one for a block
  that was sent, and the coordinator stays up.
* `PromiseKept`: `KeepsPromise`, the refinement of `ObjectStore` in every step that
  leaves all datanodes up.

`DataInv` adds to `Inv` and `SingleInv`: `Planned` (what is recorded of an object is
the room that was left of its buffer; until the value is written nothing comes after
it), `Rolls` (each stripe before the current one is rolled by one job, the current
one at most by the job that waits), `Saved` (a block on a datanode is the one a
saving thread copied, and every block a thread owes no more is there unless the node
is down), `Whereabouts` (a written value is, byte for byte, in the current buffer
until the buffers are wiped, and in every copy that is being saved; before they are
wiped there is such a copy), `Emptied` and `Entries` (the commit table has for a key
the object of the last set of it, whose value is the client's). A value is written
where the coordinator recorded it because `Offsets` makes `buf_offset` the offset on
record at the moment the thread takes the connection (`Puts`), and it overlaps no
other by `SlotInv`. `CopiesHold` says that every copy there is of a block reads back
the value, `CopyThere` that there is one. `GetInv` adds `Buffered` (a key of the
current stripe is in `key_in_buffer`, so `getValue` sends nobody to a datanode for a
block that no thread is saving or has saved), that the coordinator is up, and `Reading`
(where the get under way stands, and that what was got is `Answered`: the last value,
or a failure with the block's datanode down); for the refinement `GetSpelled` says that the
table made from the copies is the client's own account of what it set. TLC checks
`DataInv` and `GetInv` on the instance of `MCSmallSingle`, and on one with one buffer
which three sets roll twice.

`Placement_proofs` proves, for every deployment, scheme and sequence of calls:

* `TypeCorrect`: `[]TypeOK`, with no assumption but that of the module.
* `NodesDistinct`: `Wide => []DistinctNodes`. `Wide` says that there is an AZ for
  each turn of a scheme, with a datanode for each block of the turn; Random needs
  no such thing, for it draws again until it finds a free node. The code checks
  neither, and with fewer AZs or nodes the round comes back to a node in use.
* `RepairsLocal`: `[]RepairIsLocal`, with no assumption.
* `RandomTolerant`: what `area_upper` is for, Azure_LRC_1 at Random survives the
  loss of an AZ, with no assumption.
* `AzLossSurvived`: `Wide` and `FewData` imply `[]AzTolerant`. `FewData` is k <= g for
  RS, without which the code's bound of k blocks per AZ is too high (see the table).
* `SmallGroupsSurvive`: `Wide => []SmallGroupsTolerant`, one AZ and one more block.

`PlacedSoFar` ties what is placed to where the call stands (the first blocks of
a Random call, the turns made otherwise), and `RoundInv` says that the round of a
call started at some AZ, whichever the calls before left, and that each block
is in the AZ of its turn counted from there. Two turns are then in two AZs as
long as turns do not outnumber AZs, and within a turn the n-th block is n nodes
on from `curNode` (`OffsetsDiffer`). For what an AZ holds, `AreaKept` bounds the
blocks of a Random call in each AZ, `TurnsTogether` puts a turn in one AZ and
`TurnsApart` two turns in two; a turn of pieces has at most g + 1 blocks of one
group, of which the local parity makes up for one, and a turn of whole groups at
most g data blocks, each group with its parity.

`Update_proofs` proves, for every deployment, code, layout, set of objects, number of
calls at once, offset and length:

* `SplitIsExact`: `[]SplitExact`.
* `Sliced`: `[]SlicesMatchAzs`.
* `Named`: `[]ParitiesNamed`.
* `TablesLeft`: `[]LeavesTables`.
* `TypeCorrect`: `[]TypeOK`, for updates that go past the end of their object too.

They assume `SitesAssumption`: an object has data for no more bytes than its stripes
hold, names no stripe twice, and a small one lies in a data block, which is what set
leaves. `SplitCovers`, the fact behind the first, is about sums of sizes. A sum is a
recursive function of a number; that there is such a function, and what its values
are, is argued from a least counterexample (`LeastNumber` of `StripeFacts`), where a
theorem of the library would take an operator (`SumDefined`, `SumSteps`, `SumsGrow`).
With them the blocks
of an object, numbered through its stripes, cut its bytes into intervals that follow
on one another (`NextBlock`, `BlocksApart`), and each byte has its place in one of
them (`PlaceOfByte`, `BlockOfByte`). `SplitRanges` says what the list of ranges is:
the first goes to the end of its block or of the update, and the n-th of the others
begins where the n blocks before it have ended, as long as something is left;
`BigCovered` puts the two together. `ReplyInTurn` is the fact behind the second
theorem: in the reply the ranges of an AZ stand together, after as many as lie in AZs
with a smaller number, for a place in a sorted list is the number of what comes
before it (`Sorted` of `StripeFacts`). The invariant `IInv` says how far each call has
come and that what it has of its split, its ranges, its reply and its notices is what
the operators give for its request (`CallInv`); a call that is asking proxies has read
what lies in the first `asked` AZs, and `next`, the client's j, is how many ranges
that are (`SlicedInTurn`). A call that returned because the coordinator had died may
have left out anything, and is excepted. For `Named`, `CollectorHasGlobals` says that
the collector is an AZ with a global parity, whatever the two uninitialised variables
of OPPO_LRC hold. TLC checks `IInv` on the instance of `MCUpdate`.

Only model-checked are the liveness properties, which TLAPS cannot prove:
`SetReturns`, `GetReturns`, `Returns`, `RequestReturns` and `UpdateReturns`.

## 5. What is not modelled

* Repair of a stripe in an AZ without a spare node, and of RS with l = -1
  (`check_decodable_azure_lrc` then overruns its matrix): undefined behaviour for
  which no outcome can be named. Datanodes that come back after a failure.
* Update at the proxies (`dataProxyUpdate` and the like are stubs that nobody
  calls), and sets of the keys that are being updated.
* The proxy a get is sent to is named by an address and a port of two separate
  random draws of an AZ (coordinator.cpp:471), which agree only if the draws do
  or all proxies have one address; the models have the get reach a proxy.
* `tinyxml2`, `ToolBox`, configuration and start-up: no state that the protocol
  changes. `setParameter` only stores its arguments; `b` is computed in
  `run_client`.
* A large set whose coordinator has died: `ReportCommitAbort` needs it up, where in the
  code the RPC fails and the proxy's thread ends. No property tells the two apart.
* `Repair.Record` is one step; coordinator.cpp:1246 changes the list of nodes block by
  block, without the mutex, so a reader may see a list that is half changed.
* Galois-field arithmetic, and which k x k submatrices are invertible.
* Torn accesses to `std::map` by handlers without a lock: their outcome is not a
  state of the program. `Placement` therefore takes calls one after another.
* Schemes with an empty local group (k = 9, l = 4), for which
  `generate_placement` chooses fewer nodes than `encode` makes blocks.
* LRC reads of large objects, which may need more than k blocks; the abort
  branch of `reportCommitAbort`, which no proxy requests; restarts.

## 6. Plan

1. Done: `ObjectStore`, `BigObjects` and its proofs, `SmallObjects`, `Placement`.
2. Done: `RepairPlan`, `Repair`, `RepairTransfer` and their proofs; `Update`.
3. Done: the proofs of `BigObjects` (both settings), `Repair`, `RepairTransfer`,
   `Placement`, `SmallObjects` (both settings) and `Update`.
4. `Repair` with gets at the same time: a get that was planned from the old list
   of nodes reads from them while a repair moves blocks.
