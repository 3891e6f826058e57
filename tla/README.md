# A TLA+ development of c5t_april2024_demo

The repository is a set of small C++ libraries (`src/src/lib_c5t_*`) for building a server
that reloads its code and shuts down in an orderly way: an actor model, a key-value storage, a
lifetime manager, a `popen2`, a manager of dynamic libraries, a logger; plus demos that use them.
They stand on C5T/Current, which is not in the repository: `Owned` / `Borrowed`,
`WaitableAtomic`, `Singleton` and the line grouper appear here only as far as the code relies on
them, and are marked external in `PROJECT.json`.

Everything here is checked in two ways: TLC explores small instances completely, and TLAPS
proves theorems for all values of the constants.

## 1. The components

**Actor model** (`lib_c5t_actor_model.{h,cc}`). *State*: per event type a handler with the
links from topics to subscribers; per subscription a queue, a worker thread and two counters;
process-wide registries of types, handlers and workers. *Operations*: emit, subscribe, destroy
the scope, wait for everything to propagate (a debugging aid), and the worker's loop. *Interaction*:
an emitter calls, under the handler's mutex, a lambda per subscriber, which puts the event into
its queue; the lambda captures the scope by reference. *Hard*: teardown while a publication is
going through the subscribers; events emitted from `OnEvent`; mutexes taken inside mutexes; the
debug wait, which blocks with a mutex held. *Correct means*: nobody calls into a dead scope,
order is kept and agreed upon, letting go of a scope loses nothing it had, and ends.

**Storage** (`lib_c5t_storage.{h,cc}`). *State*: a file per key, a static cache per field, and
the current instance, which comes and goes. *Operations*: create and drop an instance, `Has`,
`Get`, `GetOrThrow`, `Set`, `Del`. *Hard*: the caches outlive the instance; failed writes are
swallowed; a torn file; loading on demand. *Correct means*: a program sees a persistent map.

**Lifetime manager** (`lib_c5t_lifetime_manager.{h,cc}`). *State*: the termination flag and its
subscribers, what is tracked, the threads to join. *Operations*: tracked thread, tracked
instance, subscription, `Exit`, the destructor. *Hard*: everything may start, end, subscribe and
unsubscribe while the program is terminating; two timed waits; Borrowed-s that block the end.
*Correct means*: nobody who was handed over is left behind, each callback runs once, no signal is
lost, the exit ends.

**Popen2** (`lib_c5t_popen2.{h,cc}`). *State*: a child, five pipes, three threads. *Operations*:
the call, the writer, `Kill`. *Hard*: the child ends at any time; bounded pipes both ways; `Kill`
from two threads; the byte that terminates a reader races the output. *Correct means*: lines come
whole and in order, nothing outlives the call, nobody waits for everybody.

**DLib manager** (`lib_c5t_dlib.{h,cc}`). *State*: per library the key of the file it was loaded
from, the loaded library with a cache of its symbols, and the symbolic links made so far.
*Operations*: use, reload, list, the destructor. *Hard*: the file changes at any time, between
`stat` and `dlopen` included; each of three steps of a reload may fail; the system does not load
a path twice. *Correct means*: a callback runs on what the file is, its library does not go away, a
failure is never for good, nothing is left behind.

**Tracked Popen2** (`C5T_LIFETIME_MANAGER_TRACKED_POPEN2` in `lib_c5t_lifetime_manager.h`). *State*:
whether the call is tracked, and a subscription to the termination around the user's code. *Hard*: the
termination begins before, while or after the call subscribes; its callback races the user's own
`Kill` and the end of the child. *Correct means*: it is a call of `C5T_POPEN2` like any other, a child whose user's code
still runs is told to terminate, and a child that is gone does not hold the exit back.

**Logger** (`lib_c5t_logger.{h,cc}`). *State*: a logger per name, the active file of each, the
directory. *Operations*: set the directory, look up or create, write a line, list and find. *Hard*: the
name of the hour's file is computed before the lock is taken; a file that is found is renamed away;
files may not open; the process dies with a file half written and another takes over; a listing takes a
mutex inside a mutex. *Correct means*: a line whose call has returned stays, once, in a file of its hour, and
nobody waits for ever.

**Demo: wss** (`wss.cc`, with `python_wss.py` and the plugin `dlib_ext_msgreplier.cc`). *State*: the clients that are connected,
whom to greet, what to broadcast, three flags. *Operations*: the loop that keeps the child running, the
user's code, the callback for the child's lines, the stop. *Hard*: clients come, talk and go while the user's code works
on a snapshot; a stop comes at any time; two processes and five threads have to end one after the
other; a message with a line break is several lines of the protocol. *Correct means*: whoever is connected hears everything once
and in order, as long as nobody says a line break, and a stop ends it all.

**Not modelled**: see the end of section 6. `PROJECT.json` lists all components, and the hazards with their
lines.

How they meet: the storage and the actor model are handed to plugins by the DLib manager; every
demo thread is a tracked one; the tracked Popen2 subscribes to the termination and kills its
child; the logger is called from everywhere and calls nobody; the demo `wss` puts a tracked call inside
a tracked thread.

## 2. The modules

| Module | What it is | Code |
|---|---|---|
| `TopicBroadcast` | abstract: publish in one step to all who are subscribed | what the actor model promises |
| `ActorModel` | the engine with its mutexes, queues and workers | `lib_c5t_actor_model.{h,cc}` |
| `ActorDebugWait` | EXTENDS `ActorModel` with waiters | `...ToComplete` in the `.cc` |
| `ActorModelProofs` | theorems about `ActorModel`, the refinement among them | |
| `DebugWaitProofs` | theorems about `ActorDebugWait`, on top of those | |
| `PersistentMap` | abstract: one map per directory, and the failed writes | what the storage promises |
| `Storage` | files, static caches, instances | `lib_c5t_storage.{h,cc}` |
| `StorageProofs` | theorems, the refinement among them | |
| `LifetimeManager` | tracking, termination, exit | `lib_c5t_lifetime_manager.{h,cc}` |
| `LifetimeProofs` | theorems about it | |
| `Popen2` | one call of `C5T_POPEN2` | `lib_c5t_popen2.cc` |
| `TrackedPopen2` | EXTENDS `Popen2` with the tracking and the termination | `lib_c5t_lifetime_manager.h` |
| `Popen2Proofs` | theorems about both | |
| `DLibManager` | one library under the manager's mutex, and its file | `lib_c5t_dlib.cc` |
| `DLibProofs` | theorems about it | |
| `Logger` | the loggers, their files, and the restarts of the process | `lib_c5t_logger.cc` |
| `LoggerProofs` | theorems about it | |
| `WssServer` | the demo: keeper, user's code, callback, child and clients | `wss.cc`, `python_wss.py` |
| `WssProofs` | theorems about it | |
| `MC*` | instances for TLC: constants only | |

Definitions named `Action_Word` next to an action are faulty variants of it, never part of a
specification: each shows that a property notices a plausible bug. What a component's properties need
in order to be inductive stands at the end of its module, after the properties, or in the module of its proofs.

### ActorModel

A subscription `s` is one `ActorSubscriberScopeForImpl` with its `OfExtendedScope`, its worker
and its id (ids are never reused, so each member of `Subs` is constructed at most once).
`inHand[t]` and `todo[t]` are a thread inside `PublishGenericEvent`: it holds the handler's mutex
from `PublishBegin` to `PublishEnd`, and calls one subscriber per `Deliver`. `links` is the two
maps `s_` and `m2_` of all handlers together. `phase[s]` is the program counter of the constructor
and the destructor; `workerAt[s]` that of `Thread()`. `TakeBatch` swaps the vector out; `RunEvent`,
`EventReturns`, `EventThrows` are the calls of `OnEvent`, which may publish in between.
Mutexes held inside one step only are left out; those held across steps are conditions on the
state (`TypeLocked`, `RegistryLocked`) or, for `trackers_mutex`, a variable.

`Owned`/`Borrowed`: `~Owned` waits until no closure in the queue or in the worker's batch holds a
`Borrowed`. A borrow that is asked for meanwhile is granted, as `EnqueueEvent` does not check; what
is queued between the end of the wait and the cleanup may be dropped, and the model drops it.

`handled`, `owed` and `nextId` are history: nothing in the guards reads them but the bound
`MaxEvents` on the events of a behaviour.

*Left out*: the race in `HandlerPerType` (handlers exist from the start); a scope destroyed from its
own worker, which waits for itself, in whatever order the threads run; events that a worker emits from `OnBatchDone` or
`OnShutdown`, as `MayEmit` is about `OnEvent`, which is where an emission meets its own batch.

### ActorDebugWait

A waiter reads `num_queued` of each tracked worker under `trackers_mutex` (`DebugRead`, one
worker at a time, while events flow), then for each takes the mutex again and, if the worker is
still there, waits with the mutex held. Workers are told apart by `AddrOf`, the heap address, as the
code does: two scopes may have the same address one after the other.

### Storage

The code is not thread-safe and says so, hence a call is a step. `disk` maps a directory, field and
key to a value, to no file, to a tombstone, or to `Torn`, a text that does not parse. A `Set` may
fail to write, up to `MaxFaults` times, and then leaves the file as it was or torn: the code catches the
exception and updates the cache all the same. `initialized` is the set of fields whose static cache the
current instance has already cleared. *Left out*: accessors kept across instances, the injected
storage of plugins, and what happens to the reference `GetOrThrow` returns.

### LifetimeManager

`spawned`, `thread` and `alive` follow a tracked task on both sides: the thread starts on its
own, and is handed to `EmplaceThreadImpl` by its creator a step later. A subscription's lambda
exists in two copies (registered, and the one `SubscribeToTerminationEvent` calls itself)
that share `called`, and hold a Borrowed each (`held`). `exiting[x]` is a thread inside `Exit` or
the destructor; the grace period is not a duration: `GraceOver` may happen in any wait. `outcome`
says how the process has ended. *Left out*: the tracked Popen2, which has a module of its own; the debug dump; logging; and the second notification
by the destructor after an `Exit` (`lib_c5t_lifetime_manager.cc:313`), of which nothing comes, as whoever was called has `called` set.

### Popen2

`parent` follows the calling thread through fork, the starts, `waitpid`, the flag, the terminate bytes,
the joins and the closes. `Written` blocks while the pipe is full. `Kill` is two steps because the
flag is checked and set in two. `Others` are threads that kill while the user's code runs, which
is what the tracked call adds. The child is a filter: it reads unless it has something to say, and
may end at any time; `owed` are the streams to which it is about to write, in an order it has chosen: it
is committed to it, as a real child is, and blocks when that pipe is full. A reader looks at the terminate pipe first, in every turn. It is not known
whether SIGPIPE is ignored, so `sigpipe` is chosen at the start. *Left out*: a
read that fails, on which the reader gives up (`lib_c5t_popen2.cc:160-164`); a NUL in the output, at which `Feed` ends; exec and its
arguments; a child whose exec fails writes and ends like any other. A poll and the read that
follows are one step: only the child's writes could come in between, and they only add to what is read.

### TrackedPopen2

`Popen2` and four variables. `TrackingAdd` and `TrackingRemove` are the two ends of the macro's function;
`Subscribe` is the construction of the scope that precedes the user's code, which calls back at once and on the
same thread when the termination has begun; `Unsubscribe` is the end of that scope, in the step in which the
user's code returns, so `UserCodeReturns` needs all killers idle: the scope waits for a callback that is running.
`Initiate` stands for the termination, and `Callback` for the manager's thread that calls the lambda, `Kill`'s
two steps included. `Inside` is everything the call does by itself. *Left out*: `popen2_done`, which is set after the scope
is gone and read inside it only, so that it never has an effect.

### Logger

`at[t]` and `job[t]` follow a thread from `LookUp`, under the singleton's mutex, to `LookAtClock`,
where the hour is taken, and, with the logger's own mutex held (`Free`), through `Stay`, `Start` or
`MoveOn`, the renaming and opening, the remarks and the line itself. A thread that looks at the clock before the turn of
the hour and gets the mutex after another one that looked later takes the logger *back*. `file` and `old` are what is on disk: they
survive `Killed` and `Ended`, the two ways in which a process ends before another one takes over.
`List` takes each logger's mutex with the singleton's held. `sound` says that the
active file was opened: `Open` may fail, and lines are then lost in silence. *Left out*: the
symbolic link to the file that a logger was started with, and the composition of a line in memory. Only whole lines are
written: what a kill leaves of a line is not modelled, and a file that is open takes what is written to it, as if no disk were ever
full. A line goes to stdout in one step, although it is several `<<` (`lib_c5t_logger.cc:145-147`), whose parts may mix with those
of another thread's line: the text is one of them.

### WssServer

The call of `C5T_POPEN2` is taken by what the other modules show of it: lines come whole and in order, the call returns when the
child and the user's code are done, `Kill` and the termination are a SIGTERM. `keeper` is the loop of the tracked thread; `user`, `leaving` and
`outbox` are the user's code between a snapshot of the State and the writes that follow it; `reader` is the callback
for a line, which may have a plugin reply, or set `stop`; `stdout` and `stdin` are the pipes of the child; `idx` and `open` are
python's. `heard`, `spoken`, `joined` and `torn` are history. `IsStop` is what the `sscanf` of `wss.cc:239` does to an index of
one digit and of two. *Left out*: the sleeps; the bounds of the pipes, which are `Popen2`'s; the expiry
of the grace period, which aborts; SIGPIPE, which would kill the demo. All writes of a turn are one step, as
the child reads them one by one anyway; what is lost of them when the child ends in between is lost with the child.
What is written is a sequence of `Round`s, a message and those it is for, one line for each of them: `Forward` takes one
such line, in the order of the indexes, and `EmptyRound` passes over a message that is for nobody, which has no line.
`Way` and `EveryoneHearsAll` speak of a client's history, the pipe and the user's code in the same terms.

`python_wss.py:33` prints a message as it came. With line feeds in it, it becomes several lines, and `wss.cc:224-245` takes each of
them for a line of the child's: of what follows the first line feed, a client makes any of `Lines`, a coming, a going, something said or a stop,
with any index of `Ids`, where 0 stands for one that no client has and for what `sscanf` leaves unset. `Say` appends the first line, which is the client's own,
and then any of `Rests(breaks)`, up to `MaxBreaks` lines, and sets `torn`. A carriage return tears a message too, but on its way back: python's `readline` takes it for
the end of a line, so that the pieces are read as numbers of clients and messages in turn, until one is not a number and the child ends. That is why `Rests` may be
empty after a break, and why after a torn message the model does not say what clients hear: `heard` is emptied and kept no more.
The program's own side goes on as before, with every line it may get: the State, the greetings, the stop and the end of it all are
modelled with torn messages as with whole ones. `ConnsFollow` and `EveryoneHearsAll` claim what they say only until the first torn message; without that
premise both are violated (section 4). `WssTypeOK` and `StopEnds` need no such premise. Nobody says a NUL, as in `Popen2`.

### DLibManager

One name of a library: what relates several is only the mutex. A version stands for what the code
takes as a key, inode and time of modification. `Install` and `Remove` are the build, at any time. `at[u]`
follows a user through `UseDLib`: `stat` (the mutex is held, the file not looked at yet), `open`
(between the symlink and the `dlopen`), `using` or `failed` (in one of the two callbacks).
`key`, `lib` and `symbol` are the placeholder and the cache of its symbols for one function; `links` are the
symlinks on disk and `created` the list of them. `images` is what the system remembers to have
loaded under each path, which is why the links are there. `seen[u]` is history: what the file was while `u`
had the mutex; `installed` and `again` tell whether a version has come back. *Left out*: `SetBaseDir`
after the first use; the listing, which changes nothing; the names of the statuses `Loaded` and `Reloaded`,
which are one; callbacks that use the manager themselves, which would wait for
themselves; the pointer that `C5T_DLIB_RELOAD` returns, which no caller in the repository uses.

## 3. The runs

| Run | Instance | Shows |
|---|---|---|
| `actor_cascade` | 1 emitter, 2 subscriptions, 2 topics of 2 types, one `OnEvent` emits, one throws, 2 events | types, order, drained scopes, live targets, silence after the end, refinement of `TopicBroadcast`, and that what is published to an open scope is handled |
| `debug_wait` | a waiter, 2 workers with addresses of their own, nobody throws | the wait covers what was queued, touches only the living, and returns; a destruction ends although somebody waits |
| `debug_wait_throw` | one `OnEvent` throws | **violation**: the wait never returns |
| `storage` | 2 directories, 2 fields, 1 key, 2 values, 1 failed write | caches against files, and refinement of `PersistentMap` |
| `lifetime` | a thread, an instance, a subscription on each stack, 2 exiting threads | everything in section 1 |
| `lifetime_late_thread` | one exiting thread | **violation**: a thread handed over late takes the process down |
| `popen2` | a tracked call: 2 streams, pipes for one piece, 2 pieces unasked, 2 writes, the user and the manager kill | lines, lifetimes, no deadlock, SIGTERM reaches the child, the tracking ends |
| `popen2_output` | the same with 1 stream | **violation**: the last output is dropped |
| `popen2_sigterm` | the same with 1 stream | **violation**: SIGTERM is sent twice |
| `dlib` | 2 users; versions with the function, without it, and broken | the library stays loaded, is fresh, failures are justified, symbols are current, nothing is left behind |
| `logger` | 2 threads, 2 names, 2 hours, 3 lines, 1 failure, 1 end of the process | a line that was written stays where it belongs, no deadlock |
| `wss` | 2 clients per child, one with an index of two digits, 3 arrivals and lines, 1 line break in a message | clients are followed, everyone hears everything until a message is torn, a stop ends it all |

Why the bounds are enough. Two subscriptions are the smallest number for which the order in which a
publication reaches them, and the disappearance of one between the other's turns, can matter; two
events are the smallest number with an order, and include one that is published by a worker that
handles the other. Two directories and two fields are needed for one cache to be mistaken for
another's; the key is one because no code relates two keys of a field. A failed write is one
because one already makes cache and file differ, and the next one only does so again. Pipes of
one piece make *full* happen at once; two pieces and two writes fill all pipes both ways with the child and a writer left
waiting. Two killers are what the tracked call has. Two hours and two threads are what it takes for a logger to be
moved on and back; a third line is the one that is written after that; two names make a listing hold one mutex while
it waits for another. Two clients are the smallest number with somebody to talk to, and three arrivals and lines
let one come while what another has said is under way; one line break in a message makes a line that the child never printed. In the lifetime run one task of each kind is met
by two threads that exit: the interplay is pairwise. Of a library there is one version of each kind that the
properties tell apart, and a user has another one to wait for and to be overtaken by. The theorems below have no such bounds.

`UseIsFresh` and `GoodFileLoads` hold until a version of the file that has been on disk comes
back, for instance when a new build is rolled back by moving the old file into place again. Versions do come back in
the run; without the premise both properties are violated, and rightly so (section 4).

Deadlock is checked in every run that passes. Where a system may rest for ever, a named step
(`Rest`, `Over`) says so explicitly and holds only there.

Symmetry is used only in `storage` and only over the directories.

### Fairness

Where all that a thread may do is bounded, one `WF` of the union of the steps says as much as one per
thread: somebody goes on as long as somebody can, and there is an end to what they can do, so that everybody comes to
an end of it. This is how the actor model, `Popen2` and the demo are checked; the exceptions are named below.

* Actor model: a thread of the library that can go on does (`Publishing`, `Subscribing`,
  `Destroying`, `Working`), and every `OnEvent` returns or throws. Nobody has to publish,
  subscribe or destroy. The properties of liveness assume finitely many publications.
* Debug wait: in addition the waiter goes on. `debug_wait` assumes that nobody throws, and
  `debug_wait_throw` shows that it has to; and that addresses are not reused (section 4).
* Lifetime manager: threads go on; a body has to end only once the termination is initiated, and a
  scope has to be dropped only once its callback was called, which is what the code asks of its
  users. The grace period never *has* to expire: `ExitEnds` does not owe its truth to the abort.
* Popen2: the program's threads, the manager and a running child go on. The child need not end, the
  user's code need not return or kill: both are premises of `TrackingEnds`.
* Logger: a thread in a call goes on, one `WF` each, as another thread's ticks and lines must not stand in for it. Nobody has
  to log, or to list.
* wss: the program's threads go on, and a child ends once it was sent SIGTERM. `SetDone` has a `WF` of its own,
  because the starting of children, which may go on for as long as `done` is not set, is not bounded. Nobody has to
  connect, to talk or to leave, and a child has not to end by itself.

## 4. Findings

Each is a run with a counterexample, quoted in `PROJECT.json` against the comment or test it
contradicts.

1. A throw in `OnEvent` leaves `num_processed` behind, so the debug wait blocks for ever, with
   `trackers_mutex` held; the scope's destructor then blocks too.
2. A tracked thread that is created as the termination begins is destroyed while joinable:
   `std::terminate`.
3. What a child prints right before it ends may be dropped.
4. SIGTERM may be sent twice.

Met while modelling, and without a run of their own:

* A debug wait that outlives a scope may meet another scope at the same address, and wait for it to
  reach the count of the first. With `AddrOf` giving both subscriptions of `debug_wait` one address,
  `WaitReturns` is violated.
* A file that comes back as it was (same inode, same time) meets the symlink of its first
  load, and every use fails from then on; and a library that was loaded under its key while the file changed
  is taken for it. Without their premise `~again`, `GoodFileLoads` and `UseIsFresh` are violated.
* A scoped DLib manager is deleted through an interface without a virtual destructor
  (`lib_c5t_dlib.h:164`): it neither unloads its libraries nor removes its links. The module is of the singleton, which does.
* In the demo `wss`, a client whose index has two digits cannot stop the program: `sscanf` returns how many
  numbers it read, and not how many characters (`wss.cc:239`).
* A message with a line feed is several lines of the demo's protocol (`python_wss.py:33`, `wss.cc:224-245`): its second line may be a `+1` or a `-1`, upon which a client
  that is connected is greeted again, or dropped from the State and told nothing more. Without their premise `~torn`, `EveryoneHearsAll` and
  `ConnsFollow` are violated. A message with a carriage return, forwarded, puts the child's reader out of step.
* A child of `wss` that dies is not started again, whatever `wss.cc:288-292` says: the user's code waits for lines of
  that child, so the call does not return.
* As `done` is set after `dying`, a second child may be started when all are about to leave. `StopEnds` holds nevertheless.
* The subscription of a tracked call lives as long as the user's code. With the default one, which returns at once,
  the child is never sent SIGTERM; `TermReachesTheChild` says no more than the code does.
* A logger that was created before the directory was set writes to stdout for ever. One that is taken forth and back between
  two hours renames the files of both; no line is lost by that.
* The third argument of `C5T_STORAGE_DEFINE_FIELD` is not used by the macro: `DO_NOT_PERSIST`
  (`lib_test_storage.cc:9`) persists as `PERSIST_LATEST` does.

## 5. What is proved

All theorems are about the specification of their module, with no fairness, for all values of the constants that satisfy
the named assumptions, which are typing and distinctness only. They state every safety property of every run that
passes: the runs show these on an instance, the theorems for any number of threads, subscriptions, lines or clients. Some
state more than a run checks: the safety halves of liveness properties, which say that what will happen is, at every moment,
somebody's next step or already done. The inductive invariants that stand in the components' modules were
checked by TLC on the run's instance before they were proved.

**ActorModelProofs.** `TypeInvariant`. `TargetsStayAlive` is inductive with `LinkInv`: a link exists
only from the registration of its type to the cleanup, and whom a publication has yet to call is
still linked, because links of a type change only when no publication of that type is under way.
That is what makes the captured reference safe. `GoneStaysSilent` adds `GoneInv` (the worker of a
scope that is gone has exited). `OrderIsKept`: the order of `handled \o batch \o fifo` is inductive
only with `NumberInv` (the numbers in a pipeline were given already), `LockInv` (two events in hand
are of different types) and `PendingInv` (whom a publication has yet to call has only older events,
among those related to the one in hand), and with `BatchInv` for the swap of the queue.
`ScopesAreDrained`: `DrainInv` keeps `owed` a prefix of the pipeline while the scope waits, and the
end of the wait, when queue and batch are empty, makes it a prefix of `handled`.
`EngineBroadcasts` is the refinement of `TopicBroadcast`. A publication is the abstract one when it takes the handler's mutex: from
then on, whom it has yet to call has the event *on its way*, which the refinement mapping counts as received. So `Deliver`,
`PublishEnd` and the swap of the queue are stutters. `AddLink` is `BSubscribe`, `PublishBegin` is `BPublish`, `RunEvent` is `BRead`, and of the
destructor's steps `DestroyBegin` is `BQuit`, `CleanupType` is `BLeave` and `Join` is `BClose`; the rest are stutters too.
`LinkInv`, the order and `DrainInv` of the theorems above are what makes them so.

**DebugWaitProofs.** The engine's invariants hold under the waiters (`EngineInv`), because a step of the one is a stutter or a
frame of the other. `WaitTypeInvariant` and `WaitersTouchTheLiving` rest on `AddrInv` (an address is tracked exactly while the one
scope that lives there is between `AddTracker` and `RemoveTracker`) and `HolderInv` (a waiter that reads or waits has `trackers_mutex`).
`WaitCoversTheCall` needs, in addition, `CountInv` (`num_queued` is all that was ever queued, `num_processed` never more than what
`OnEvent` has returned from) and `CoverInv`: for each subscription either what was queued at the call is
finished, or its worker is still tracked and the waiter will yet read, or has read, a number that is high enough. All three hold
with addresses that are reused, and with an `OnEvent` that throws: what the reuse and the throw spoil is that the wait returns (section 4),
not what it means when it does.
`WaitIsForTheQueued` is the safety half of that: if no two scopes have an address in common (`OwnAddresses`, a hypothesis), then for a subscription that does not throw
what was handled is counted (`CountedInv`), and no waiter waits for a number that the queue has not reached (`EpochInv`).
`WaitersDisturbNothing` takes the engine's refinement and its properties over to the composition: a waiter's step leaves the abstract variables alone.

**StorageProofs.** `StorageTypeInvariant`; `CachesWriteThrough` (a loaded slot agrees with its
file, except where a write has failed); `StorageIsPersistentMap`, the full refinement: initial
states map to initial states, each call maps to the same call of the map or to a stutter. It needs that
the cache of a field belongs to the current directory once the field is initialised.

**LifetimeProofs.** `LifetimeTypeInvariant` (which includes that `still_alive` is exactly the tasks
between `TrackingAdd` and `TrackingRemove`); `NobodyIsLeftBehind`: every thread that was handed
over is in `threads_to_join_`, being joined, or done, and only the first thread in the exit
joins; `CalledOnceAndOnlyOnce` and `CalledOnlyToTerminate`, from an invariant that ties
the shared flag to the number of calls and says that callbacks are pending only while terminating. `NoSignalIsLost`, from `WayInv`: a subscriber
that gets its scope after the termination was initiated has looked at the flag, and the scopes of all others are among those that the first
thread is to call; and only a scope that is held can hold up the destructor.

**DLibProofs.** `InductiveInvariant` is the conjunction of eight parts, each proved from the
type and the parts it needs: who holds the mutex and what it uses (`MutexInv`); what has left a
trace was installed (`PastInv`); a link that is new leads to the file (`ImageInv`); the key tells what is
loaded as long as no version has come back (`KeyInv`); and a file that meets its own link was tried with it and is
broken (`TriedInv`). Type correctness and the five properties of the run follow: `LibraryStaysLoaded`,
`LibraryIsFresh`, `FailuresAreJustified`, `SymbolsAreCurrent`, and `NothingIsLeft`.

**Popen2Proofs.** `CallTypeInvariant` and `NobodyIsLeft` are about every call: `CallInv` ties where the call is to the child, the readers
and the user's code, whose end no killer outlives. `TrackedCallIsACall` shows that a tracked call, whatever the manager does, is a
call (each step of it is a step of `Popen2`, or none), so that `NobodyIsLeftOfTheTracked` follows.
`TrackedTypeInvariant` adds `ScopeInv`, the manager's part.
`OutputIsWhole`, and `TrackedOutputIsWhole` after it, say that of what the child has written the reader has what is not in the pipe any more, and
has cut it into lines. `LinesAreWhole` speaks of `FlattenSeq`, a recursive function of the community modules. That it is what its
equation says, and that it appends, is proved by induction, as the absence of a least counterexample in a set of numbers
(`SetInduction`), which needs no operator as a parameter.
About SIGTERM there are `OneSigtermEach`, from `SentInv` (whoever has sent one has set `already_done`, and nobody who finds it set is on the way to), and
`NoChildIsForgotten`, which adds `NoticeInv` of the tracked call (a subscription that is there when the program terminates
is called back or will be, and a callback that was made is past the flag or has found it set).

**LoggerProofs.** `LoggerTypeInvariant` includes that no two threads are in the section of one logger. `WrittenIsKept` says of a
line *where* it is, and nowhere else, so its invariant, `KeptInv`, follows lines from before they are written: each call has a line of its own
(`OwnLines`), a line that is pending is nowhere yet, under no name and in no hour (`NotYetWritten`), and a thread that has looked at the clock
writes to a logger with a file (`ToFiles`). Each step then adds a remark, or a pending line in one place, or renames a file with all that is in it.

**WssProofs.** `WssTypeInvariant` includes that no broadcast has a number out of bounds, which needs `SaidInv`: what is in the pipe and what was
broadcast are together no more than what was said, the lines of torn messages included (`RestLines`, `SayLines`). `StateFollowsClients` is inductive with `PhaseInv`, by which there are clients only while a child runs, and none that
the State knows of when it starts. `AllIsHeard` is about one client at a time, and has the whole of
`WssInv`: the broadcasts of the State are the newest ones (`NumberInv`), and a client that has not been read of has been sent
nothing (`ComingInv`). Its core is `Sent`: what was heard, the pipe and the outbox, in this order, are one sequence of
rounds, the way to the client, that rises without gaps up to where the State goes on. A snapshot, a write, a line forwarded and a round for nobody
move things along that way; a broadcast adds one at its end; only a new line of the child begins a way. The
lemmas about `Nrs` and `Rising` of concatenated ways carry this. Both theorems are about what precedes the first torn message, as their properties are: `torn` stays once it is set (`TornStays`),
and a message that leaves it unset is one line (`SayWhole`), which is all that the steps of the proof need.
`EndIsClean` rests on `EndInv`: a call that is made while the program is on its way out has been told, by the termination if its user's code had
subscribed, by its start if it is late, by the user's own `Kill` if that has returned.

**Only model-checked**: the liveness properties, `PublishedIsHandled`, `WaitReturns`, `DestructionEndsDespiteWaiters`, `SignalIsNotLost`,
`ExitEnds`, `WritesComplete`, `TrackingEnds`, `TermReachesTheChild`, `WritesReturn` and `StopEnds`. They need the fairness of section 3 and
ENABLED, which are out of the prover's reach; of `WaitReturns`, `SignalIsNotLost`, `ExitEnds`, `TermReachesTheChild` and `StopEnds` the safety
halves above are proved.

## 6. The plan

Done: the actor model, the storage, the lifetime manager, Popen2 and the tracked call, the DLib manager,
the logger, the demo `wss`, and theorems for the safety of all of them. What could come next, in this order:

1. More safety facts on which the liveness properties stand, as theorems: that the mutexes of the actor model are
   taken in one order, that a worker that is waited for has something to do (for `PublishedIsHandled` and
   `DestructionEndsDespiteWaiters`), and what `WritesComplete`, `WritesReturn` and `TrackingEnds` need.
2. What `WaitIsForTheQueued` says without its hypothesis: of the last scope at an address that is reused.

### Not modelled

* The handler registry: `HandlerPerType` changes an `unordered_map` without a mutex. Two first uses
  at once are a data race whose outcomes cannot be enumerated; used one at a time it is a map that only grows.
* A scope that is destroyed from its own worker, and a callback of the DLib manager that uses the manager: each waits for
  itself in every execution, so there is nothing to explore. Nobody in the repository does it.
* The pointer that `C5T_DLIB_RELOAD` returns after the mutex is released: its callers only look at the status beside it.
* The logger's symbolic link, and a second call of `SetLogsDir`, which changes nothing.
* The routes of the demos and the HTTP wrapper: glue that calls the components above. The HTML form: a pure formatter.
  Build info, the sample plugins, the web page: no state of their own.
