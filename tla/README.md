# A formal model of cpp_prac

The repository is a C++ practice library: a small concurrency library
(`nnero/`: threads that can be interrupted, a blocking queue, a thread pool, a
timing wheel, logging), a TCP chat server built on `poll` (`network/`), sorting,
searching and a binary tree (`algorithm/`), and programs that exercise the language
(`prac/`, `sdl2/`, `fltk_prac/`). This directory holds TLA+ modules that model its
concurrent core, its chat programs, its algorithms and the programs of `prac/` that keep
state, the TLC configurations that check them, and proofs that TLAPS checks.

## Inventory

| component | state | operations | interacts with |
|---|---|---|---|
| `Nthread` (`nnero/nthread.*`) | a `thread_local` `InterruptFlag` per thread | `interrupt`, `interruptPoint`, `join` | writes the flag of another thread through a pointer, without a lock |
| `BlockingQueue` (`nnero/bqueue.hpp`) | `m_inner_queue`, `m_mutex`, `m_empty_cond`, `m_full_cond` | `take`, `poll`, `add`, `put`, `offer`, `wakeUpAll` | shared by any number of threads; `take` and `offer` are interruption points |
| `ThreadPool` (`nnero/thread_pool.*`) | `m_shutdown`, `m_worker_cnt`, `m_threads`, `m_main_lock`, `m_shutdown_cond`, the task queue | `execute`, `shutdown`, the worker loops | its workers call `take` and `poll`; `shutdown` interrupts them and waits for them |
| `TimeWheel` (`nnero/time_wheel.*`) | `m_time_box`, `m_curr_index`, `m_close` | `addTask`, `startTick`, `tick`, `close` | the tick thread and the caller of `addTask` share the lists without a lock; due tasks go to a `ThreadPool` |
| logging, util (`nnero/logging.*`, `nnero/util.*`) | a global configuration | formatting and output | called by everything |
| poller, event loop, `TCPServer`, chat program (`network/`) | the `pollfd` array, `m_connection_map`, `m_current_clients`, the chat program's `active_conns` | `handleEvent`, `poll`, the callbacks | one thread; the kernel and the clients act concurrently |
| sockets (`network/tcp_socket.*`) | a descriptor and two flags | `bindAndListen`, `accept`, `connect`, `close`, moves, the destructor | the kernel; the objects that own or are moved from one |
| chat client (`network/client.cpp`) | `m_is_connected`, `m_fd`, a shutdown flag, the message being put together | the main thread writes lines and closes; the output thread reads | two threads share the connection and the flag without a lock |
| sort, search (`algorithm/`) | an array, indices of type `size_t` | four sorts, two searches | sequential |
| `BinaryTree` (`algorithm/tree.hpp`) | nodes with pointers to parent and children, `m_root`, `m_size` | `add`, `del`, `search`, `travPrint`, the destructor | sequential; the allocator may hand out an address again |
| calculator (`prac/cal.cpp`) | a buffer of digits and a stack of elements, kept from line to line | `eval` | sequential |
| text query (`prac/tq.cpp`) | one open stream, a queue of commands, a list of results | `parseExpr`, `occursInFile`, `&`, `\|` | sequential |
| poll chat (`prac/server.cpp`, `prac/client.cpp`) | `fd_arr`, `connected_fds`, two counts | the poll loop, `processConnOnce` | one server thread; its clients write a line and wait for one |
| exercises, GUI demos (`prac/`, `sdl2/`, `fltk_prac/`) | none worth a model | | GUI libraries |

What is hard: the window between a predicate test and the wait that follows it,
which `wakeUpAll()` does not close because it takes no lock; the order in which
workers leave, count themselves out and are joined while `shutdown()` waits; a
wheel that two threads share with no lock at all; and, outside `nnero/`,
descriptors and pointers that outlive a connection, reads and writes that block the only
thread of a server, nodes that outlive their parents, and state that one line or query
leaves for the next. `PROJECT.json` lists each hazard at its line.

What makes each part correct:

- queue: first-in first-out, bounded, no wake-up lost, an interrupt reaches its
  thread;
- pool: each accepted task is run once and by one worker, `shutdown()` returns only
  when all workers are gone and the queue is drained, and touches only threads that
  are alive;
- wheel: a task fires once, in the pass its delay asks for, and the pool is open when
  it does;
- chat server: the count of clients, the connections, the poller's slots and the
  chat's members agree, whole lines reach every member in order, and a client is
  refused only when the server is full;
- sockets: every open descriptor has one owner, who alone closes it, or it has leaked;
- chat client: lines are shown whole and in order, and it ends after `close()`;
- poll chat: arrays and counts agree while connections come and go, and the clients, who
  all wait for each other's lines, cannot all wait at once;
- tree: it is the set of the values added and not deleted, without a dangling pointer;
- sorts: the argument's values in descending order; searches: the target's index, or
  null if it is absent, and no read outside the array;
- calculator and text query: each line is answered by what it means, whatever came before.

## Modules

| module | what it models |
|---|---|
| `Nthread` | the interrupt flags: `Interrupt` (nthread.cpp:71), `InterruptPointThrows` (nthread.cpp:8) |
| `BlockingQueue` | the operations of the queue as steps of a calling thread `t` that end at a label `k` of its caller |
| `BoundedFifo` | abstract specification of the queue: a bounded buffer |
| `QueueClients` | a queue with producers, consumers and interrupters |
| `ThreadPool` | the owner's `execute` and `shutdown`, and the workers, on top of `BlockingQueue` |
| `TaskExecutor` | abstract specification of the pool: tasks start in order, once, one at a time per worker |
| `TimeWheel` | the wheel; its pool is an INSTANCE of `TaskExecutor` |
| `Poller` | `PollImpl`: its slots and the map of ready descriptors |
| `ChatServer` | `EventLoop`, `TCPServer::handleEvent` and the callbacks of `network/server.cpp`, against clients and a kernel |
| `PollChat` | `prac/server.cpp` and the clients of `prac/client.cpp` |
| `ChatClient` | the two threads of `network/client.cpp`, against a server that does as it likes |
| `TcpSocket` | which `TCPSocket` object holds which descriptor, and what the kernel has there |
| `BinaryTree` | `add`, `del`, `search`, `travPrint` and the destructor, on addresses |
| `IntArrays`, `Sorting`, `Searching` | arrays of ints; the four sorts; the two searches |
| `Calculator` | `parseElem`, `eval` and its helpers, over a session of lines |
| `TextQuery` | `parseExpr`, `occursInFile` and the operators, over a session of queries |
| `MCQueueClients`, `MCThreadPool`, `MCTimeWheel`, `MCChatServer`, `MCPollChat` | sets of threads, tasks, delays and clients for TLC |
| `MCPrograms` | the programs that share nothing, side by side: a behaviour is one of a single program |
| `QueueClientsProofs`, `ThreadPoolProofs`, `TimeWheelProofs`, `ChatServerProofs`, `PollChatProofs`, `BinaryTreeProofs` | theorems about one component each |
| `ProgramsProofs` | theorems about `Sorting`, `Searching`, `ChatClient`, `TcpSocket`, `TextQuery` and `Calculator` |
| `RecursionLemmas` | induction on numbers and existence of recursive functions, for those theorems |

`ThreadPool` EXTENDS `BlockingQueue`, which EXTENDS `Nthread`: a worker runs the
queue's own steps. `TimeWheel` uses the pool through `TaskExecutor`, which
`ThreadPool` is checked to refine (`ExecutorSpec`), so the two levels meet there.

How code becomes steps:

- A thread is a program counter `pc[t]`. A critical section that cannot block is one
  step, guarded by the mutex being free. `wait(lock, pred)` is three positions: about
  to test (`"take"`), tested and still holding the mutex (`"sawEmpty"`), and blocked
  (`"onEmpty"`). The step from the second to the third is where an interrupt or a
  `notify_all` without the mutex can be missed.
- Waits may return spuriously (`SpuriousWakeUp`, `SpuriousShutdownWakeUp`).
  `notify_one` wakes any one waiter, or nobody when there is none.
- `m_main_lock` is held by the owner at the labels of `OwnerLocks`; `MainLockFree`
  guards the one critical section workers have under it (`CountOut`).
- `shutdown()` is one step per iteration of its loops and one per `notify_all`.
- A task is a member of a set; `Kind` says how its body ends (it returns, throws a
  `runtime_error`, or calls `interruptPoint()`), which decides between running on,
  draining, leaving, and `std::abort` (`aborted`).
- `tick()` works in the steps in which it touches shared state: it reads the index,
  increments it, resets it, takes one task off the list at a time, and puts the
  remaining tasks back. `addTask()` is two steps: it reads the index, and later it
  pushes.
- Undefined behaviour ends the run: reading past `m_time_box` (`AddTaskOutOfRange`),
  and two threads in one `std::list` (`ListRace`), which may also happen to take effect
  one after the other, in the other steps.
- The chat server is one thread: `loopPc` says whether it is at the head of
  `EventLoop::loop`, in the loop of `handleEvent`, or in the `read()` loop of
  `r_callback`. Between two of its steps clients connect, send one byte of their
  `Script`, close, or are reset, so `poll()`'s result is out of date while it is handled.
  `HandleRead` enters `r_callback`; `ReadPart`, `ReadLine` and `ReadEnd` are what one
  `read()` of up to `BufSize` bytes may return. A handled descriptor leaves
  `m_revents_map`, which nobody reads afterwards. A connection that has ended stays
  readable and registered, as in the code, so `ReadEnd` runs again and again for it.
- What ends the server's process ends the run (`crashed`): a pointer in `active_conns`
  to an erased connection, and `SIGPIPE`. The only way to such a pointer is
  the `ERROR` branch, which needs `POLLERR` without `POLLIN` or `POLLOUT`: POSIX permits it
  (`Fail`), Linux hardly does it. `accept()` does not fail, and send buffers never fill.
- `fate`, `age` and `alone` are history: what became of a task, how many passes it has
  waited, and whether `addTask()` met `tick()` asleep. No action's guard depends on
  the last two except for the bound `MaxStall`; `fate` makes sure that every task is
  passed to the code once.
- A node of the tree is an address, and each pointer a function on addresses; `New` may
  return any free one, so that a dangling pointer may come to point to a new node. `add`
  and `del` are one step each, and so are `search` and `travPrint`, which change nothing.
  Where the code follows a null or dangling pointer, or a
  wild one (`m_root` is not initialised), the run ends (`Undefined`). What `del` reads
  after its own writes is read so in the model (`DelTwoChildren`).
- `selectSort` and `bubbleSort` take one comparison a step; `quickSort` and `mergeSort`
  are recursive functions. A search takes one turn of its loop a step, and its
  `size_t` arithmetic is modulo `Word`.
- The calculator reads a character a step. A number is the sequence of its digits and a
  value the term it was worked out from, so that what `eval` answers shows how it has read
  the line. `Turn` is one turn of the loop of `evalStack`, its cases in the code's order.
- The text query's line of a file is the set of its words: what matters is which
  words it contains.
- A `TCPSocket` has its descriptor and flags in the functions `m_fd`, `m_is_connected` and
  `m_is_listened`; `kernel` is what each descriptor is, and the kernel gives the lowest free
  number. A `connect(2)` may fail, which the code only logs. Three sets are history:
  `spent`, the objects that hold what a move left in them; `leaked`, descriptors whose
  owner was destroyed (`~TCPSocket` is the default one, and `~TCPConnection` alone closes
  first) or overwritten; and `robbed`, those closed by another than their owner.
- The chat client's output thread tests `m_is_connected` (`TestConnected`) and reads with
  `m_fd` later (`CallRead`); `close()` comes between, or does not wake the `read()`.
- The poll chat's server handles one slot of `fd_arr` a step, and in `processConnOnce` one
  slot of `connected_fds` (`Write`, `Skip`). A write waits while the client's buffer is
  full (`Window`); to a client that has closed it is answered by a reset, and after that it may
  raise `SIGPIPE` (`crashed`). A client writes a line and then waits for one, as `client.cpp`
  does; whose message it gets does not matter, so messages are counted.

## Runs

| run | shows | bounds |
|---|---|---|
| `QueueSafety` | `NoLostWakeUp`, `SawIsStillTrue`, `AtMostOneMissed`, refinement of `BoundedFifo` | 2 producers, 2 consumers, 1 interrupter, 2 elements, capacity 2: two waiters on either side, so that a notification can reach the wrong one or be overtaken; the interrupter may call any number of times |
| `Pool` | `TypeOK`, `InterruptsLiveThread`, `WorkerCount`, `TaskPlace`, `ReturnedClean`, `AtMostOneStranded`, refinement of `TaskExecutor`, `EveryTaskRuns`, `ShutdownSettles` | 2 workers, one task of each kind (one returns, one throws, one is interrupted), capacity 2: the queue fills, both workers drain in competition, the process aborts or a drain loop is cut short |
| `PoolShutdownHangs` | `ShutdownTerminates` fails, under fairness | 1 worker, 1 task |
| `WheelTasks` | when tasks fire, that they fire, how `close()` orders its steps, refinement of `TaskExecutor` | wheel of 3 slots, delays 10 and 59 ms (the next slot; one rotation and two slots), pool capacity 1 so that hand-overs are also refused, at most 4 passes during one `addTask` (`MaxStall`), more than a whole rotation |
| `WheelEarly` | `NeverEarly` fails | one task of 25 ms |
| `WheelShortDelay` | `SlotInRange` fails | one task of 10 ms |
| `ChatServer` | `DescriptorsAgree` (the count of clients included), `MembersListed`, `WholeLines`, `EveryMemberHears`, and `EveryByteRead` | 3 clients for 2 places, so that one can be refused and a descriptor reused; two of them share a port; one sends a line of two bytes and an empty one, another an empty line, in reads of up to 2 bytes: a read may end inside a line, with it, or hold parts of two |
| `MergeSortLoses` | `MergeSortKeepsAll` fails: two equal values come back as one | arrays of up to 3 of 2 values |
| `ConnectFails` | `ConnectedIsTrue` fails: a `connect()` that failed leaves the socket connected | 1 object, 1 descriptor |
| `ChatRefuses` | `RefusesOnlyWhenFull` fails: a place that an ordinary disconnect frees is never given again | the same |
| `PollChat` | `SlotsAgree`, `NotAllWait`, `MessagesRead` | 3 clients for 2 places, so that one gets no slot and slots are reused; descriptors for 3, `Window` 2, 2 lines each: the server blocks on a full client; clients connect in the order of their names |
| `Programs` | `TreeIsSet`, `HarmBeginsInDel` | 4 keys, 4 addresses: every shape of tree up to depth 4, and addresses that come back |
| | `SortsRight`, `SearchRight` | all arrays of up to 4 of 3 values (with duplicates), all targets, `Word` 16 |
| | `CalFollowsGrammar` | sessions of 2 lines: expressions of up to 9 characters with nested parentheses, every text of up to 3 characters, a buffer of 3 digits of which `stoi` accepts 2; the grammar (`Grammar`) is that of all expressions of up to 9 characters over `1`, `-`, `/` and parentheses, so both kinds of operator and every nesting meet |
| | `QueryAnswers` | sessions of 2 queries of up to 5 words and operators, all files of 2 lines over 2 words |
| | `DescriptorsOwned` | 3 objects, 2 descriptors: a chain of moves, a number that is given again, a source that closes another's connection, an owner that is overwritten |
| | `LinesShown`, `ClientEnds` | up to 5 bytes from the server in reads of up to 2, up to 3 lines typed: a second write to a closed server |

A run that expects a violation states what a comment or a test of the repository
says; `PROJECT.json` quotes it under `findings`.

**`shutdown()` can hang.** A worker tests `m_flag` and the queue in the predicate of
`take()`; before it blocks, `shutdown()` raises its flag and notifies twice; the
worker then blocks. `shutdown()` finds `m_worker_cnt > 0`, notifies once more in its own
predicate (which the worker may miss as well) and waits on `m_shutdown_cond`, which only a
leaving worker would notify. At most one worker can be stranded so
(`AtMostOneStranded`), because `sawEmpty` needs the queue's mutex, and then nothing
else is left undone (`ShutdownSettles`): all others have ended and the queue is
empty, so accepted tasks run nevertheless (`EveryTaskRuns`).

**`shutdown()` does not abandon the queue.** `thread_pool.hpp:34` says that it "will abandon
all the tasks in waiting queue". The workers run them: each drains the queue in
`runWithExit()` before it leaves, so no accepted task is left when `shutdown()` has
returned (`ReturnedClean`). The exceptions are stated in the properties: a task's error ends
the drain loop of its worker, and when that has happened to every worker, tasks
stay behind (`DrainsCutShort`); in `runWorker()` it aborts the process.

`AtMostOneMissed` says the same of the queue alone: `interrupt()` and `wakeUpAll()`
together miss at most one thread, and they can miss one.

**A chat member is not always a connection.** `handleEvent` never learns that a client has
closed; only `r_callback` does, and it takes the member out of `active_conns` but cannot
touch `m_current_clients`, `m_connection_map` or the poller. So the count stays (`ChatRefuses`),
and since members are removed by port, the second event of the same ended connection
removes a member with the same port at another host. `MembersListed` therefore
speaks of clients whose port is their own.

**The wheel is punctual when nothing overlaps.** If `addTask()` meets `tick()` asleep
the task fires in exactly the pass `Due` gives (`PunctualIfAlone`). Otherwise it is
off by whole rotations (`OffByWholeRotations`): early by one when it lands in the
list that `tick()` is emptying, late when `tick()` passed the slot first.

**The tree is a set until `del()` hands a child over.** `del()` of a node with one child
links that child to its grandparent but leaves its `m_parent`, so a later
`del()` of it writes through a dead node, or through one that was created at its
address since. Until then (`handedOver`) the tree is the set it should be
(`TreeIsSet`), and exactly three calls are undefined (`HarmBeginsInDel`): `del()` of a node
with two children whose right child is a leaf, which unlinks the pointer it then follows
(`DelPitfall`), and `travPrint()` and the destructor of a tree that never had a node, whose
`m_root` is not initialised. After it nothing is claimed.

**`mergeSort` is complete only if every left half ends last.** The merge stops with the
left half, and what is left of the right half is dropped (`MergeSortLoses`). `SortsRight`
states what it returns then, and that it is all of the argument exactly when in every
merge the least value is on the left (`LeastOnTheLeft`). **`binarySearch` leaves the array** exactly when the target is greater than
every value: `mid - 1` is then below 0 and wraps (`SearchRight`).

**The calculator's products associate to the right**: `8/4/2` is `8/(4/2)`, while sums
associate to the left (`Grammar`). A line is answered so whatever came before,
except after a line that threw an exception or held an unknown symbol (`spoiled`): the
first leaves elements on the stack, the second digits in the buffer. In a text query
`&` binds no tighter than `|` (`Satisfies`); the repository promises nothing else.

**A descriptor has one owner, or it has leaked** (`DescriptorsOwned`). A socket that is
destroyed or overwritten while it is open leaks its descriptor, as `~TCPServer` and the client
of `tests/net_test.cpp` do. The source of a move keeps the number, and a `close()` of
it closes the other's connection; that number is then spoilt (`robbed`), and no other is.
**`connect()` does not throw when it fails**, as `tcp_socket.hpp:58` says it does: the socket
is connected for the code, and holds a descriptor that is not (`ConnectFails`).

**The chat client's `close()` does not end its output thread**, which stays in `read()`
until the server sends or closes; in every other case the client ends (`ClientEnds`).

**The poll chat's clients cannot all wait for one another** (`NotAllWait`), because each waits
only after its own line, which the others get. But its server blocks while the client it
writes to is full and its user does not type, so `MessagesRead` has that exception
(`ServerWaits`), and it may die of `SIGPIPE`.

## Fairness

`ThreadPool`: every worker is weakly fair, which is what the operating system's scheduler
gives a thread; the owner is weakly fair within a call, but need not call. `CountOut`,
which needs `m_main_lock`, is strongly fair: a worker that waits for the lock gets it
in the end although `shutdown()` may lock it again and again after spurious wake-ups.
Nobody is obliged to wake up spuriously. `TimeWheel`: the tick thread, the pool and the
calls already begun are weakly fair. `ChatServer`: the server's thread is weakly fair, and
no client has to do anything. `r_callback` blocks in `read()` until a line ends, so one
client that begins a line and stays can stop the whole server: `EveryByteRead` has this as
its exception (`Blocked` for ever), and shows that nothing else keeps bytes unread.

`PollChat`: the server is weakly fair, and so is a client that can read (`Hear`); no user
has to type, quit or connect. `ChatClient`: both threads are weakly fair; its user and
the server owe nothing. The other programs are sequential and have safety properties only.

## Proofs

The theorems hold for any finite set of threads, clients or addresses, any elements, keys,
capacity, delays, arrays, files, queries, words and sockets, and for any size of the
wheel, the buffers and the poller's array, from the assumptions that the modules name:
`QueueAssumption` (`BlockingQueue`, and the one of `TextQuery`), `ClientsAssumption`,
`PoolAssumption`, `WheelAssumption`, `PollerAssumption`, `ChatAssumption`,
`PollChatAssumption`, `ClientAssumption`, `ArrayAssumption`, `SearchAssumption`,
`SocketAssumption`, `CalAssumption` and `TreeAssumption`.

`QueueClientsProofs`:

- `TypeCorrect`: `TypeOK` is inductive.
- `SawStillTrue`: `SawIsStillTrue` is inductive on top of it: every step that changes the
  queue or enters `sawEmpty`/`sawFull` needs the mutex.
- `ImplementsFifo`: initial states map to initial states, every step to a step of
  `BoundedFifo` or a stutter; only the types and `Len(m_inner_queue) <= m_max` are needed.
- `WakeUpNotLost`: without interrupts no wake-up is lost. A push adds one element and,
  if anybody waits, one thread at `"take"`; a thread leaves `"take"` by popping or by
  finding the queue empty, so the difference the invariant bounds never shrinks.
- `OneMissedAtMost`: `MissedInv` follows an interrupter through its two notifications. The
  first reaches every flagged thread that is blocked; a flagged one that has tested
  its predicate holds the mutex, so there is one of these at most (`OneFlagged`).

`ThreadPoolProofs`: `ControlInv` is the inductive invariant, the conjunction of the types,
`Roster` (`m_threads` lists each created worker once), `WorkerCount`, `OwnerPhase` (at which of
its labels the owner has set `m_shutdown`), `LeaveLate` (flags are raised and loops
left only after that), `NoneOutYet` (no worker has counted itself out while
`shutdown()` interrupts) and `Joined` (what the count and the join loop have
established). From it follow:

- `TypeCorrect`;
- `CountIsExact`: `WorkerCount`, by cardinalities of `Counted` under `Grow` and `CountOut`;
- `FlagsAreAlive`: `InterruptsLiveThread`, from `Roster` and `NoneOutYet`; `WorkerCount` alone
  is not enough, since it does not say that the lock is held from the first
  interrupt to the last;
- `OneStrandedAtMost`: `StrandInv` carries the same argument through `shutdown()`, for
  any number of workers.

For the tasks, every step of the pool is one of the few ways in which a step can
change the tasks (`TaskStep`: one is accepted, turned away, started, finished, or
aborts the process, the pool closes or stops, or nothing changes), and those
preserve `TaskInv`: each accepted task is in the queue once or in the hands of one worker
(`Placement`), workers leave an empty queue unless a task threw (`Drained`), and there is
a worker for an accepted task (`Staffed`). From them follow `TasksKeepTheirPlace`,
`NothingLeftBehind` and, each `TaskStep` being a step or a stutter of `TaskExecutor`,
`ImplementsExecutor`.

`TimeWheelProofs`: `TypeCorrect` and `OpenWhileTicking`, from `WheelInv`: `m_curr_index` is
`SIZE` only between its increment and its reset (`IndexInside`), and the pool is open until
`close()` has joined the tick thread (`OpenUntilJoined`).

- `Punctual`, `WholeRotations` and `NeverForgotten`, from `DueInv`. The pass in which a task
  will fire follows from where it is: its age, the passes before `tick()` is done with
  its slot (`ToGo`), and its rotations times `SIZE`. No step of `tick()` changes the sum
  (`ListsOnTime`); a push that comes late adds one rotation each time `tick()` has gone
  past the slot (`PushOnTime`).
- `UsesPoolAsExecutor`: the wheel's specification implies `PoolSpec`. That no task is
  handed over twice needs `EachOnce` (a task is in one list of the wheel, once, and only
  if it was added and not yet handed over) and `PoolHanded` (what the pool holds was).

`ChatServerProofs`: one inductive invariant, `ServerInv`, from which the five invariants of the
run follow (`ServerTypes`, `PollerAndMapAgree`, `ConnectedAreListed`, `MessagesAreLines` and
`MembersHearAll`). None is inductive without the others: which messages a client has to
have heard depends on who is in `active_conns`, that on the order in which descriptors
are handled, and that on the poller. Three parts are added to the five: `Phases`, where a
client is between `connect()` and the connection map; `Pending`, what the loop has still
to handle, in the order of descriptors; and `Progress`, how far in each client's bytes
the last message goes, which the pieces of a line that `read()` returns need.

`PollChatProofs`: `PollInv` adds to `SlotsAgree` the types, `LoopsAgree` (the events still ahead are
those of slots still taken) and `OneQuiet`: of two watched clients that nobody will wake,
one is being written to. From it follow `SlotsAlwaysAgree` and `NotAllWaiting`. The loop that
writes goes over the array (`prac/server.cpp:48`) and breaks off when it has written to
`connected_num` clients (`prac/server.cpp:57`). That count includes the sender, to whom nothing is
written, so the break is never taken (`BreakNeverTaken`, by the pigeonhole principle), and when
the loop ends it has written to everybody else (`NoEarlyEnd`).

`ProgramsProofs`:

- `SearchesRight`: while `binarySearch` runs on a descending array the target, if it is
  there, lies between `low` and `high`, and what is outside was passed on the right
  side; a range that wraps is one whose next `mid` is beyond the array.
- `DescriptorsHaveOwners`: the invariant adds the types to `DescriptorsOwned`, and for each
  number a step is shown to give it an owner (`NewOwner`), take one (`OwnerLost`), hand it
  over, or leave it alone (`Untouched`).
- `MessagesAreShown`: `AllKept` (what is logged, being put together and unread is what was
  sent) is inductive with the types and `Endings`; it rests on `FlattenAppend`, a lemma about
  the community module's `FlattenSeq`.
- `QueriesAreAnswered`: `Evaluating` says that after the first `m + 1` words the result list is
  `InOrder` of the lines that satisfy these; `CanBeListed` and `InOrderLists` show that
  every set of line numbers has such a list, and only one.
- `CalculatorFollowsGrammar`, for any lines, digits and operators, and expressions of any
  length and nesting. `Above(s, x, t)` says what the loop of `evalStack` makes of what an
  expression has left on the stack `x` above `s`: `Value(t)` in its place, in fewer turns
  than there are elements, and nothing below is touched. A factor ends as one value,
  while a product may end as values and operators still to be worked out
  (`FactorRead`, `ProductRead`), which is why products associate to the right; the next `+`
  or `-`, a `)` or the end of the line calls `evalStack` and settles them
  (`EvalStackAbove`, `EvalStackParenth`). `GrammarRead` follows by induction on the depth of
  the grammar. `CalInv` then says that a session keeps to it: nothing is left of the
  lines before (`Fresh`), and the stack and the buffer are those of the trace that
  `GrammarTrace` gives for the line (`OnTrack`).
- `SortingIsRight`. For the two loops the invariant says what they have reached: `Exchanged`
  (the values are those of the argument), `Selected` (the rows above `i` are in order and
  not below the rest) and `Bubbled` (the same from the other end). `quickSort` and
  `mergeSort` are recursive functions: `QuickSorts` and `MergeSortIsRight` say what they
  return, by induction on the length of the array (`ArrayInduction`), after showing that the
  recursions define functions at all (`ArrayRecursion`). `MergeKeeps` says which values a
  merge keeps, and `LeastIsLast` why `LeastOnTheLeft` is the exact condition for losing none.

`BinaryTreeProofs`: `TreeHoldsItsValues` and `HarmIsKnown`, from `TreeInv`: until `handedOver`, the
tree is `WellFormed`. That the links of the allocated nodes form a tree cannot be said
with them alone, so `Shape` says that there are sets `U[n]`, of the nodes under `n` and `n`
itself: they are nested as the links are (`Nested`), any two are disjoint or one is in
the other, a link and the `m_parent` of its end agree (`Linked`), and the values in the two
subtrees of a node are below and above its own (`Ordered`).

- The walks of the code end, and end right, because `U` gets smaller with each link:
  `DescendFinds` (at the node of a value, or where it would be), `LeftmostIsLeast` (at the least
  value of the right subtree) and `AllReached` (`freeNode()` reaches every node).
- What each call does to the links is stated as an operator, `Grows`, `Prunes`, `Lifts` or
  `Replaces`, with the lemma that gives the sets of the new tree; `add()` and the cases of
  `del()` are shown to be one of them.
- `DeletedOrHarmed`, `DestroysAll` and `PrintsAll` find the calls that are undefined although
  the tree is well-formed, and `HarmIsKnown` says of each call when it is. Nothing is
  claimed after `handedOver`, where `TreeInv` says nothing.

`RecursionLemmas`: induction over numbers and the existence of functions defined by
recursion, stated with a set of numbers and a function in place of the library's operator
parameters, which the provers cannot instantiate. The lemmas about `FlattenSeq`, the merge
and the sorts are instances.

Only model-checked: liveness (`EveryTaskRuns`, `ShutdownSettles`, `EveryTaskFires`,
`CloseJoins`, `EveryByteRead`, `MessagesRead`, `ClientEnds`), which is beyond the prover.
Every invariant and every other property that a passing run checks is proved.

## Not modelled

- Calls of `execute()` from another thread than the one that calls `shutdown()`, and
  `shutdown()` from inside a task: nothing in the repository does either.
- Tearing of the plain `bool` in `InterruptFlag` and of the `volatile bool m_close`:
  both are read and written in single steps.
- Delays of about 248 days and more, where the `int` in `addTask` overflows
  (`WheelAssumption`).
- Names of threads, log lines and their format.
- `unregisterSocket`, `EventLoop::quit`, the write callback and the thread pool of
  `TCPServer`: nothing calls or fills them. `shutdownRead` and `shutdownWrite` of a socket, and
  `processConn` of the poll chat: nothing calls them. `TCPClient` is declared only.
- Addresses and ports of sockets, except that two clients may share a port.
- The end of standard input, at which the clients' loops spin, and, in the poll chat, lines
  that do not fit its client's buffer.
- The arithmetic of `double` in the calculator, and that `evalStack` uses references to
  elements it has popped: they stay readable in a `std::deque` until the next push.
- Logging and util: formatting, output and string splitting. The exercises of `prac/`
  show features of the language, and the demos of `sdl2/` and `fltk_prac/` are driven by
  a GUI library: they have no behaviour of their own to specify.

## Plan

1. Done: queue, pool, wheel, both chat servers and a client, sockets, algorithms, calculator
   and text query; theorems about the invariants of all of them, and about the
   refinements of the queue, the pool and the wheel.
2. `logging.cpp`'s reader of its configuration file, and how `snake.cpp` treats the edge
   of the screen, the only decisions left in code that is not modelled.
