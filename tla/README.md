# Verification of the collect-energy server

The program (`src/main.cpp`, `src/mem.hpp`) is an HTTP server for a load test.
It loads two database tables into memory, serves an expected number of requests
(`REQ_TOTAL_CNT`, one million) that each move "energy" from a row of
`to_collect_energy` to a user of `total_energy`, and writes both tables back
when the last two requests arrive. This directory holds TLA+ modules that model
it, TLC configurations that check them, and proofs that TLAPS checks.
`PROJECT.json` maps every definition to the lines it models.

## 1. Inventory

| Component | State | Operations | Talks to |
|---|---|---|---|
| `handle_request` (193-235) | `memToCollects[id]`: energy, status, `modified_`, mutex; `memTotalEnergyMap` | parse, unlocked test, mark, lock, test, credit, store, unlock | shared memory only |
| `func_http` (155-191), one thread per connection | `req_cnt`, `done_count` | recv, number, answer, handle, start a write-back, count | clients; calls `handle_request`; starts the write-back threads |
| `executeUpdateToCollect` (121-145) | open transaction on `to_collect_energy` | loop over all ids, update the marked rows, commit | reads rows with no mutex; database |
| `executeUpdateTotal` (98-118) | open transaction on `total_energy` | loop over the map, update each user, commit | reads atomics; database |
| `func` (237-298) | sockets, `init_server_done`, `has_count` | open the socket, notify, accept loop | `main` through `mtx`/`cv`; starts `func_http` threads |
| `main`, `activate_flag` (300-322) | the activation file | load, wait for `func`, touch the file | `func` |
| `load_in_mem` (49-76) | the tables in memory | read both tables, at every start | database |
| `recv` and request parsing (158-163, 194-212) | a stack buffer | stream to lines, line to user and id | clients |
| MariaDB connectors | - | vendored | - |

What is hard in it:

- Rows are plain members, read without the mutex by the early return (215) and
  by the flush (131-134), while the holder of the mutex writes energy and status
  in two unordered stores.
- A credit goes to another structure than the debit, and before it.
- Ordinary requests are answered *before* they are handled, so the last two,
  which start the flushes, can arrive while earlier ones are unapplied.
- The flush of the rows starts one request before the end and is never repeated.
- The counters are shared by all threads and decide who flushes and who stops.
- The start-up handshake sets its flag and notifies without the mutex.
- Nothing stops the server in an orderly way and several errors end the process: it may
  be started again over tables of which one, both or none were written.
- TCP keeps no request boundaries, and the code takes one `recv` for one request.

What makes each part correct: `handle_request` - energy is conserved, a row gives
one share at most to others and the rest to its owner, nobody is turned away who
could still collect, mutexes are released; write-backs - the database never runs
ahead of memory, and a flush that nothing disturbs is exact; `func_http` - each
number is given once and each request is answered; start - the activation file
means what it says, no connection is stranded; restart - the database never moves back,
and a complete write-back loses nothing; the stream - what is handled stems from what was
sent, and what cuts in the stream can cost is bounded. `PROJECT.json` lists the hazards
line by line with the property for each.

## 2. Modules

```
EnergyRules <- EnergyLedger
     ^              ^ (refinement, Ledger == INSTANCE ...)
CollectEnergy ------'  <- WriteBack <- Server <- Recovery
     ^                                   ^
CollectEnergyProofs  <-------------- ServerProofs <- CountersProofs
     ^                                                    ^
ConservationProofs  <------------------------------ WriteBackProofs <- RecoveryProofs

RequestStream <- RequestStreamProofs          Startup <- StartupProofs
```

`MCCollectEnergy`, `MCServer`, `MCRecovery` and `MCRequestStream` hold the instances for TLC.

**EnergyRules** has the constant data (users, ids, owners, loaded amounts) and
the rules of one collection: `CanCollect` (line 218-220, the test under the mutex),
`Gain`, `Share` (`floor(0.3 * e)`), `StatusAfter`, `Add32` (`std::uint32_t` addition).
`Ids \ Rows` are the slots that still hold `nullptr`.

**EnergyLedger** is the abstract specification: one action, `Collect(u, i)`, that
moves the energy in one step.

**CollectEnergy** is `handle_request` run by any set of threads, one action per
access to shared memory:

| Action | Line |
|---|---|
| `HandleRequest(t, u, i)` | entry, the path parsed to user and id |
| `CheckReturn`, `CheckPass` | 215, the unlocked test |
| `MarkModified` | 216 |
| `LockRow` | 217 |
| `Reject` | 218-223 |
| `Credit` | 225 / 230, with the count of 229 |
| `StoreEnergy`, `StoreStatus` | 226, 227 / 231, 232, in either order |
| `UnlockRow` | 234 |

The two stores are to plain members with no ordering between them, so the build
may emit them in either order; the credit is a sequentially consistent
read-modify-write, so neither moves before it. Reads under the mutex are part of
the step that uses them: only the holder of the mutex writes what they read.

**WriteBack** adds the two background threads and the database. The flush of the
rows reads status and energy of a row in two steps (132 and 134). Updates go to a
transaction and become visible together at `UNLOCK TABLES`, which commits.
The fields `quiet` record, for two properties only, whether anything else was
in hand when a flush began. `Accounts` are the users with a row in `total_energy`: any other
user gets a total from `operator[]`, which the flush walks over and which no row takes.

**Server** adds `func_http`, the counters and the clients. A client has one
connection and sends its next request after the answer to the previous one; the
answer to an ordinary request comes before its handling, so a client's next
request can be on the wire meanwhile. The 200ms sleep is modelled as no order at
all: the flush may be faster or slower than it. A request for another path, or a
fragment of one, is `HandleOther`: numbered, answered and counted, but not handled.

**RequestStream** is the byte stream of one connection and the parsing at the top of
`handle_request`. The wire holds per request the cells not received yet; `RecvWhole(k)` takes whole
requests, `RecvPart(k, m)` any part of the next with them, one that ends inside its path as well,
and what they take is one line to number, answer, parse and handle (`Serve`). A line for row 0,
which is what a path cut before its id comes to, finds a `nullptr` (214-215) and is not handled. `Parse` overwrites the first blank
(194-199), tests the prefix (200), copies the name up to its slash (203-211) and reads the id as
`strtol` does (212). Names and tails are sequences over `Chars`; a digit is a cell of `Digit`, and
`Decimal` writes an id with them as a client does, `Value` reads one back. `broken` counts, for
two properties only, the calls of `recv` that returned a part of one path and nothing else.

**Startup** is `main` and `func` from the return of `load_in_mem` on: each call that
opens the socket may fail, with the failure ignored as in the code; `listen` on a
socket that could not be bound still succeeds (the kernel picks a port), hence
`Listening` asks for both. `cv.wait` is a test (`TestFlag`), an entry into the wait
set (`Wait`) and a wake-up (`NotifyAll`, or `WakeUp` for no reason). `mtx` is not a
variable: `main` alone takes it. The accept loop takes one connection per event
of a level-triggered epoll.

Operators introduced by a comment "Variant" are altered forms of the definition
that follows; nothing refers to them. Putting one in place of its definition
breaks the property `PROJECT.json` names for it, which shows that the property
depends on that piece of code.

## 3. What TLC checks

| Run | Instance | Shows |
|---|---|---|
| `collect` | 3 threads, 2 users, rows worth 10 and 3, an empty slot, unbounded requests, words of 4 bits | `TypeOK`, the inductive invariant `IInv`, `RowIntegrity`, `Conservation`, `ChangedIsMarked`, `ReturnIsFinal`, `MutexReleased`, and the refinement `LedgerSpec` |
| `server` | 2 connections, `Total = 3`, 3 requests, rows worth 10, 10 and 3 | `ServerTypeOK`, `CountersAgree`, `DatabaseBehind`, `TotalsWrittenBack`, `RowsWrittenBack` |
| `server_live` | the same, all requests for one row | `EveryRequestAnswered`, `WriteBacksCommit` |
| `beyond` | 2 connections, `Total = 2`, 3 requests, a user without a row | `CountersAgree`, `DatabaseBehind` |
| `recovery` | 2 connections, `Total = 2`, 2 requests in each life, one restart at any step, a user without a row | `RecoveryTypeOK`, `DatabaseMovesOn`, `RestartKeepsEnergy` |
| `stream` | 3 requests in a row, names "a" and "ac", id 120, tails with slashes and digits, cuts everywhere | `TypeOK`, `HandledStemFromSent`, `LossesAreCuts`, `CountKeepsUp` |
| `startup` | 3 clients, a backlog of 2, one failing `accept` | `TypeOK`, `ActivatedAfterSetUp`, `WaiterGoesOn`, `QueuedIsServed` |
| `marked` | as `collect` with 2 threads | *violated*: `MarkedIsChanged` |
| `rows_flushed` | as `server` | *violated*: `RowsFlushed` |
| `empty` | as `recovery` | *violated*: `EmptyIsUntouched` |
| `activated`, `marked_start` | as `startup` | *violated*: `ActivatedIsListening`, `StartIsMarked` |

Why these bounds are enough to be interesting:

- Three threads allow the owner and two requests of another user to be past the unlocked
  test of one row at once, and every mix of holder, waiter and newcomer. Each user owns a
  row and is the other on the second; the code compares a user with the owner only, so
  a third user is no new case. Energy 10 gives
  a real share (3), energy 3 sits on the boundary of the test "> 3". A word of
  16 makes bob's total (14) wrap. Requests are not bounded in `collect`.
- `Total = 3` is the least number with an ordinary request before the last two;
  with two connections that request can be in hand while both flushes run. The
  rows number as many as requests, as in the code, where ids go up to `REQ_TOTAL_CNT`.
- `MaxRequests = Total` in the runs `server` and `server_live`: `EveryRequestAnswered` is claimed for the
  expected number of requests only. A request after those may find the loop ended; what
  stays true when one is received while the last two are in hand is the run `beyond`.
- `Total = 2` in `beyond` and `recovery` leaves the last two requests, which start the
  flushes; every life of `recovery` can start and commit both, or either without the other.
- `MaxRestarts = 1` has every step of the first life followed by a whole second one,
  which is where what was committed before meets what is committed after. A further
  restart starts from a database in the same state as the first, as `DatabaseMovesOn`
  relates one commit to the next only.
- `MaxSent = 3` lets a remainder of the first request and the two others be in one `recv`, or a
  request cut twice be followed by two that are joined. One name is a prefix of the other and the
  id has three digits, so that a path cut in its name names nobody else's request and one cut in
  its id names another row.
- `MaxAcceptFailures` bounds the failures of `accept`; without a bound it may fail for
  ever and nobody is served.

`TotalsWrittenBack` and `RowsWrittenBack` say what the write-back does achieve: if
nothing else was in hand when it began, the totals are exact, and one row at most
(the one the last request names) is stale or torn. `DatabaseBehind` holds without
that condition: rows only lose energy and users only gain it, so what was read
at any earlier time errs on one side.

`DatabaseMovesOn` says what holds across a stop at any step: no commit of any life, made from
what that life loaded, raises a row or lowers a user, although the two tables may be from
different times. `RestartKeepsEnergy` says what a complete write-back is worth: if both
flushes were over and nothing else was in hand when they began, a restart loses no energy,
and adds what one row held at most, since a collection of the last request is always in
the totals but perhaps not in the rows.

`HandledStemFromSent`, `LossesAreCuts` and `CountKeepsUp` bound what the missing framing can do. A
path cut inside its id names another row (id 120 becomes 12), so what is handled need not have
been sent. But it stems from a request that was (`StemsFrom`): it is for that request's user, its id
begins that request's id, and no two stem from one request or are out of order. It is the request
itself unless `recv` returned a part of its path alone. What is not handled as it was sent is one
request at most for each cut and one more for each that left a part of a path alone. That extra one
does happen: the part is answered, so the client sends its next request, and the remainder
swallows it if one `recv` returns both; two requests are lost with one cut. `req_cnt`, which
decides when the flushes start, runs ahead of the requests by the cuts and no more.

The violated runs are disagreements between a comment in the code and what it does:

- `MarkedIsChanged` (216): the mark "modified" is set before the row is locked and examined.
  A request that is then rejected leaves it, and the flush writes an untouched
  row as `collected_by_other`.
- `RowsFlushed` (129): "flush the data" leaves behind what is collected after the
  loop has passed the row, although all requests are done and the table committed.
- `EmptyIsUntouched` (`mem.hpp` 27): "EMPTY" after a restart says nothing, as the status that was
  written is not read; a second share is given from a row that has given one.
- `ActivatedIsListening` (300): "mark that the start succeeded" also marks a start
  whose `bind` failed.
- `StartIsMarked` (300): a start that succeeded is never marked if flag and notification
  fall between `main`'s test and its wait.

### Fairness

`CollectEnergy` assumes weak fairness of each thread's own steps once it is inside
`handle_request`: the operating system schedules runnable threads. A thread that
waits for a mutex is not runnable, and no strong fairness is assumed for it:
`MutexReleased` does not need it, and in the server the number of requests is
finite, so contention ends. Nothing is assumed about the arrival of requests. `Server` adds weak
fairness of each connection thread and of the two background threads, `Startup` of
`main` and `func`; clients, spurious wake-ups and failures have none. `Recovery` and
`RequestStream` have none: a process may be stopped and a client may fall silent, and only
safety is claimed of them.

## 4. What is proved

Every safety property the passing runs check is also a theorem.
The theorems hold for every set of users, rows, threads and clients, every loaded amount and
word size, any `Total` and any bound on requests and restarts, under these assumptions, all
of which TLC evaluates on the instances. The inductive invariants of the handler and of the
server are stated at the end of `CollectEnergy` and `Server`, where TLC can check them too
(as it does with `IInv` in the run `collect`); the others stand before their proofs:

| Assumption | Says | Because |
|---|---|---|
| `RowsAssumption`, `AmountAssumption` | each row has an owner who is a user; amounts fit the word | columns of the tables, `std::uint32_t` (`mem.hpp` 28) |
| `FreeAssumption`, `FiniteAssumption`, `StartupAssumption` | no thread is the value of a free mutex; tables, threads and clients are finite | |
| `TotalAssumption` | the rows are 1 to `Total` | `auto_increment` ids (`readme.md` 33), an array that ends at `REQ_TOTAL_CNT` (`mem.hpp` 33), a loop that dereferences each (`main.cpp` 130) |
| `AccountsAssumption` | users without a row start at zero | `operator[]` of the map |
| `IntAssumption`, `LivesAssumption` | what a user may come to own, in one life and in all lives together, fits the column's `int` | the casts `(int)` in 108 and 134; without it an update of a total writes a negative number |
| `ClientAssumption` | the clients ask for users and ids of the model | |
| `StreamAssumption` | names, with the 21 cells that a line cut behind one copies more, fit `user_id[64]` (`main.cpp` 204-211), and have no blank, slash or NUL; ids are positive and fit an `int`; what follows a path begins with a blank and does not quote the prefix | the load test's clients send such requests; what is outside is in section 5 |

### `handle_request`

- `Invariant`: `Spec => []IInv`. `TypeCorrect`, `RowsKeepIntegrity`, `ChangedRowsAreMarked` and
  `ReturnsAreFinal` follow from it.
- `ImplementsLedger`: `Spec => LedgerSpec`. The refinement mapping is the *settled* row, the
  fields as they will be when the holder of the mutex has made the stores it
  still owes; the abstract step is the credit.
- `EnergyConserved`: `Spec => []Conservation`. A sum over a table is the number of units in
  it, a finite set of pairs; changing one entry changes its cardinality by as much
  (`UnitsExcept`), so a collection leaves the sum alone or takes one word from it, and every
  other step is a stutter of the ledger. `Wrapped`, the sum as a multiple of the word, is the
  invariant carried along, since the prover does not reason about `%` of a changing sum.

`RowIntegrity` is not inductive: that a store leaves the row coherent depends on what
the thread computed when it credited. `IInv` has two layers. `AccessInv` keeps the accesses
in order whatever was loaded: `LockInv` (holder and critical section determine each
other) makes other threads' steps harmless, `RequestInv` puts every thread past
the early return on a row that exists, `MarkInv` puts the mark before anything else,
`GainInv` freezes a row's energy between the credit and the store. On top of it,
`RowInv` says what the holder of the mutex knows at each point (`HolderKnows`): at "store" the
row is coherent and collectable, with one store left the other field already
agrees, at "unlock" its user cannot collect again; and `ChangedIsMarked` needs no
strengthening beside `AccessInv`. The second layer compares rows with what was first loaded,
so it ends with the first life; the first one survives restarts.
`ReturnIsFinal` is delicate at the unlocked early return: it holds because
`ALL_COLLECTED` is never taken back and, once stored, excludes everybody, even while
the energy is still to be zeroed.

### The server

- `ServerRowsKeepIntegrity`, `ServerChangedRowsAreMarked`, `ServerImplementsLedger`: the same for the whole
  server, because each of its steps is a step of `CollectEnergy` or leaves its
  variables alone (`ServerStep`).
- `ServerCountersAgree`: `CountersAgree` with the bound `req_cnt <= MaxRequests` behind `ServerTypes`.
  A client waits for its answer before it sends again, so each request sent is on the wire, in the hands
  of a thread or done (`CounterInv`). The proof counts finite sets of threads: a step adds
  one thread to `InHands` or takes one out. `AnswerInv` says whose client is still waiting,
  so that no answer is for a request still on the wire.
- `ServerTypes`: no row is written that does not exist, and no field leaves its column's type.
- `DatabaseStaysBehind`: each flush stands between memory and the table it writes (`FlushInv`),
  memory's rows only fall (`EnergyFalls`) and its totals only rise. The last is true only
  while no total wraps, and that is a matter of a sum over all rows: `Reach(u)`, what user `u`
  owns with all that is left in the rows, never rises (`ReachFalls`), and starts below the
  bound of `IntAssumption`. It also makes the cast `ToInt` the identity where it is reached.
- `TotalsAreWrittenBack`: with the last request's thread alone in hand when the flush began
  (`AloneInHand`) and no request received since, nobody can get into `handle_request`
  (`NobodyCollects`), so what was read of a total stays so (`TotalsInv`).
- `RowsAreWrittenBack`: the flush of the rows begins with one request still to be received or in hand.
  Either it has not been handled yet and all rows the flush has passed are in step with
  memory (`LastToCome`), or it has named a row and all others stay in step (`LastHasCome`).
  `RowsOnce` says the flush is started once, which rests on the numbers being given once, and
  that an unmarked row needs no writing; `UnmarkedInv` adds its status for the comparison.

### Restarts and start

- `RecoveryTypes`, `DatabaseOnlyMovesOn`, `RestartsKeepEnergy`: `RecoveryInv` is what the lives have in
  common: `AccessInv`, the counters, `FlushInv`, `TotalsInv` and `RowsInv`, none of which
  compares a row with its status or its first energy. Each holds again after a
  restart at any step, since the transactions fall back to the tables and memory is loaded
  from them (`LoadsCommitted`). What does not carry over is the bound on the totals: a life may give out again what
  the last one gave out and did not write. `LivesInv` allows each life the energy of the rows
  once more, which `LivesAssumption` has room for. A restart in quiet then finds totals equal
  to memory's and rows equal but for one (`QuietMemory`), and by `FlushInv` that one comes
  back with at most what it held when the tables were made.
- `ActivationComesLast`: the activation file is touched after the last set-up call, for any
  clients and failures. `StartupTypes`: the bound on `has_count` is that of the clients
  and failures, as each event of the accept loop takes a connection or fails (`AcceptInv`).

### The stream

- `CountHolds`: the count of answers against requests and cuts, for any requests, tails and
  pieces. Its invariant is `CountInv`, which counts what is still on the wire.
- `RequestParsed`: `Parse(Encode(r) \o x) = r`, for a name, an id and a tail of any length: what
  `handle_request` reads from a line is what the client wrote into it. The blank that is
  overwritten is the one behind the path (`CutConcat`), the name ends at its slash
  (`UntilConcat`), and `strtol` undoes the writing of the id (`DecimalFacts`, `StrtolConcat`).
  `ParseRest` is the other half: what is left of a request after a cut anywhere, with
  whatever requests are read behind it, is no collect request. A prefix found in it would have to be
  quoted in the tail, or to run over the end of it into "P" and a blank.
- `TypesHold`, `HandledHold`, `LossesHold`: `TypeOK`, `HandledStemFromSent` and `LossesAreCuts`, for
  any number of requests, wherever `recv` ends. None is inductive: that a line adds nothing
  foreign depends on what is on the wire, and that losses are owed to cuts on which lines began
  with what. `StreamInv` says both. `WireHolds`: the wire holds the requests sent last, in order,
  and only its first item may be a remainder, which has no prefix where `handle_request` looks
  for one. Hence a line is parsed as its first item alone, whatever is joined to it (`WholeLine`,
  `PartLine`): a request, nothing if the item is a remainder, or what is read from a path in part.
  `ParseCut` says what that is: nothing, row 0, or the user of the request with the first digits
  of its id; a copy of part of a name never meets a number, because no slash follows it, and the
  first digits are themselves the decimal of a number (`DecimalPrefix`). `OriginsHold`: there is
  a map from what is handled to the requests received at least in part (`Begun`) that shows
  where each stems from, in order, so the next line only adds a later one. Those that are not as they
  were sent are as many as `broken` at most, and the calls of `recv`, less those that ended inside
  a request and the broken ones, are at most as many as the requests handled as sent and those for
  another path that began a line (`Traces`). With `CountKeepsUp`, that each request sent was
  answered, this is the bound on the losses.

`Decimal`, `Value` and `FlattenSeq` are recursive functions. What they compute is not shown by the
library's induction theorems, which take an operator as parameter, but by a least
counterexample: the set of arguments at which the claim fails has no least member, since it would
hold one step before (`Least`, from the library's `WFMin` and `NatLessThanWellFounded`), so it
is empty. That such a function exists and satisfies its recursion is the same argument on the
`CHOOSE` that defines it (`ValueRec`, `DecimalRec`, `FlattenRec`).

### Only model-checked

All liveness (`MutexReleased`, `EveryRequestAnswered`, `WriteBacksCommit`, `WaiterGoesOn`,
`QueuedIsServed`): fairness and ENABLED are out of the prover's reach. The five properties of
the violated runs are false, so there is nothing to prove of them.

## 5. Not modelled

Every line of the first-party code that does anything (`main.cpp` 26-322, `mem.hpp`) is
mapped but for what follows.

- An insertion into `memTotalEnergyMap` while another thread looks up or iterates (225, 230
  against 107), names that with a cut behind them do not fit `user_id[64]` (204), ids outside `memToCollects` (61, 214): undefined
  behaviour whose outcomes are not a set that can be listed. The models assume it away,
  by name, in `RowsAssumption`, `StreamAssumption` and the map as a function.
- A whole path with the prefix but no row id. The copy of the name then runs on to a slash of
  the version or the headers, and the id is read behind that one (207-212). The clients name a row in
  every such path.
- The driver, the URL and `get_conn` (37-47), which only open a connection. Whether the two
  write-back threads may share driver and properties is a matter of the connector.
- The text that is printed, the thread-local `count` and the times behind it (182-188, 288-292
  in part), epoll events other than `EPOLLIN`, failure to create a thread.
- The connectors under `src/mariadb-connector-cpp-*` and `src/deps`. Of the C++ connector the
  repository has the headers alone: abstract classes, declarations, one-line accessors. There is
  no state change in them to translate; the implementation is a shared library outside
  the repository. They are most of the repository's C++ lines, so the share of
  lines the map covers stays small although the program itself is covered.
- Build and deployment files.

## 6. What could come next

A bound on what the early answers cost, in the energy of the requests still in hand when the
flush of the totals begins: `TotalsWrittenBack` says what holds when there are none, and
`DatabaseBehind` only on which side the error is. Likewise a bound on what a start over one table
written and one not loses or doubles. Of the proofs only liveness is left.

To check: `tlc -workers 2 -config MCServer.cfg MCServer.tla`, and likewise for the other
configurations (`MCMarked` is for module `MCCollectEnergy`; `MCServerLive`,
`MCRowsFlushed` and `MCBeyond` for `MCServer`; `MCEmpty` for `MCRecovery`; `MCStartup`, `MCActivated` and
`MCMarkedStart` for `Startup`); `tlapm CollectEnergyProofs.tla`, and likewise `ConservationProofs`,
`ServerProofs`, `CountersProofs`, `WriteBackProofs`, `RecoveryProofs`, `RequestStreamProofs`,
`StartupProofs`.
