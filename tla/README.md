# A verification project for GCE

GCE is a C++ actor library. An application opens a `context`, which owns a pool of
threads and one *cache pool* per thread with an asio *strand*; actors live on those
strands, on threads of the user, or in a program's main loop, and send each other
messages, requests, answers, links and exit notifications, within a context or over TCP.

This directory holds TLA+ specifications of the library (`src/libs/actor/src`,
`src/gce/actor`, and the integers of `src/gce/amsg`), the TLC runs that check them on small
instances and the proofs, checked by TLAPS, of what holds for every instance.
`PROJECT.json` lists the parts, runs, mutants, hazards and theorems and says, for each
definition, which lines of the source it models.

## 1. The system

| Component | State | Operations | What makes it correct |
|---|---|---|---|
| mailbox (`mailbox.cpp`) | list of unread messages, two indexes by type, index of exit notifications, answers, requests not replied to | three `pop`, four `push`, `clear` | the indexes agree with the list; recv is selective and in order |
| nonblocking actor (`nonblocking_actor.cpp`) | a deque of packs for each producer, a lock-free queue of pointers to them, `garbage_tail_` | `on_recv` (any thread), `recv`, `move_pack`, `release_pack` (its thread) | no pack is freed while a pointer to it is used; order per sender |
| thread_mapped actor (`thread_mapped_actor.cpp`) | pointers to the promise of a blocked call, a timer and its id | `recv`, `try_recv`, `try_response`, `handle_recv`, time-outs | a promise is set once, by what its call waits for |
| stackful actor (`coroutine_stackful_actor.cpp`) | the coroutine, `recving_`, `responsing_`, timer, status; the object is pooled | `recv`, `wait`, user's asio operations, `resume`, `stop`, `free_self` | only what is suspended is resumed, once; the next actor is clean |
| stackless actor (`coroutine_stackless_actor.cpp`) | three handlers, one timer; pooled | `recv`, `wait`, asio operations, `quit`, handlers | the handler that runs is that of the operation at hand; freed once |
| requests (`basic_actor.cpp`) | ids in `wait_reply_list_`, `req_` of a message, `res_msg_list_` | `request`, `reply`, `relay`, bounce | one answer for each request, from the right actor |
| links (`basic_actor.cpp`) | `link_list_`, `monitor_list_` | `link`, `monitor`, `send_exit`, `remove_link`, `send_already_exited` | each side learns that the other has ended, also when it had; nobody is told of an actor that lives |
| socket, router, heartbeat (`socket.cpp`, `heartbeat.cpp`, `impl/tcp`) | connection, cached packs, two send buffers, links over it, timers | `connect`, `run`, `handle_net_msg`, `on_neterr`, `close`, `free_self` | messages cross in order, whole; a lost connection is noticed and its links told; stop ends |
| registries (`cache_pool.cpp`, `context.cpp`) | services and sockets by name in every cache pool, round-robin iterators | register, deregister, select, posted to all pools | the pools agree in the end; sockets take turns |
| acceptor (`acceptor.cpp`) | listening endpoint | bind, accept, spawn a socket, stop | stop ends it |
| context, pools, free lists (`context.cpp`, `freelist.hpp`) | threads, pools of objects | run, stop, get, free | an object is in the pool or in use; stop comes to an end |
| message and amsg (`message.hpp`, `amsg.hpp`, `zerocopy.hpp`) | bytes inside the object or in a buffer that copies share; two positions, a tag | `<<`, `>>`, copy, nested messages, tag, serialisation | a message keeps its own bytes; what is written reads back |

How they interact. An actor sends by calling `on_recv` of the receiver object, to which an
aid holds a pointer; the pack says which aid (`sid_`) was meant, and the receiver compares
it with its own (`check`), since the object may be another actor by now. `on_recv` runs
`handle_recv` on the receiver's strand: posted, or dispatched, which runs it at once when
the sender is on the same strand. Only nonblocking actors take packs from other threads
with no strand. Everything a `handle_recv` changes belongs to its actor alone. A socket is an
actor too: packs for another context go to it and from its coroutine to the network, and
what arrives goes on as a pack. Cache pools learn of sockets and services by posted calls,
one for each pool. Messages are copied with the packs; the copies share one buffer, so their
reference counts are the one thing actors of different threads change together.

What is hard: the same object serving several actors; a timer that expires before it can
be cancelled; `handle_recv` further down the stack of a running coroutine; packs and
buffers shared between threads without a lock; requests whose id lives in several places at
once; links that cross an exit, a failed connection or a router; registrations that overtake
each other; stopping what is in the middle of connecting.

## 2. Plan

| | Module | Models | State |
|---|---|---|---|
| 1 | `SelectiveReceive`, `Mailbox`, `MailboxProofs` | the mailbox and its promise | checked, proved |
| 2 | `PackQueue`, `PackQueueProofs` | packs to a nonblocking actor | checked, proved |
| 3 | `Unread` | the mailbox as `handle_recv` sees it | used by 4, 5 and 8 |
| 4 | `ThreadedActor`, `ThreadedActorProofs` | blocking receives | checked, safety proved |
| 5 | `StackfulActor`, `StackfulActorProofs` | coroutine, timer, pool | checked, safety proved |
| 6 | `RequestReply`, `RequestReplyProofs` | request, reply, relay, exit | checked, safety proved |
| 7 | `Links`, `LinksProofs` | links and monitors, locally, over a connection and through a router | checked, safety proved |
| 8 | `StacklessActor`, `StacklessActorProofs` | handlers, quit, adaptor, the free list | checked, safety proved |
| 9 | `Connection` | one socket: connecting, writing, reading, heartbeat, end | checked |
| 10 | `Registry` | registration by posted calls, selection, login, acceptor, stop | checked |
| 11 | `Amsg`, `Message`, `MessageProofs` | encoding, buffers and copies | checked, `OwnContent` proved |

Not done, and next on the list: proofs of `SocketsTakeTurns`, `PoolsAgree` and `QuietWhenFreed`;
requests over a connection in `Links`; the links of thread_mapped and nonblocking actors.

## 3. The modules

**`SelectiveReceive`** is the abstract mailbox: unread messages as a function of their
arrival stamps, no index. **`Mailbox`** is mailbox.cpp: a list node is its stamp, a list of
iterators a set of stamps, so an iterator of an erased node is a stamp outside the domain
of `recv_que`. `AddMatchMsg` and `FetchMatchMsg` are the two private functions; each public
`push` and `pop` is an action; `last` holds what it returned. `cache_match_list` and
`match_queue_list` are the indexes for small and other types. `svc_exit_list_` is left out:
no code in src/ sets the member of an aid it depends on. MCMailbox gives the match lists.

**`PackQueue`** separates the accesses of two threads: `on_recv` in three actions for each
producer (the load, the change of the deque, the push of the pointer), `recv` of the actor in
five. A relaxed load returns any value stored since the last one this producer read. Each
cache queue belongs to one strand or one nonblocking actor, so it has one producer. The
lock-free queue is external, a FIFO; its `push` allocates and does not fail.

**`Unread`** is what the handlers of an actor can see of its mailbox (what `pop` may return
after which `push`), for the modules below, where which message of a type comes first makes no
difference. It is an abstraction of `Mailbox` stated by hand; the two are not composed.

**`ThreadedActor`**: the thread calls, waits and returns; the strand runs `try_recv`,
`try_response`, `handle_recv` and the timer's handlers one at a time, in any order. A promise is the
number of its call. `waiting` is the pending wait of `tmr_`, `expired` the handlers of
waits that expired before somebody cancelled them: they run later, however late.

**`StackfulActor`**: `coro` says where the coroutine is and `caller` what runs it, `resume`
or asio. `Resume`, `Yield` and the operations are actions on the strand; a `handle_recv`
may come while the coroutine runs, as a dispatched one does. `known` are the aids spawn has
given out, packs may be for any of them. `FreeSelf` is `free_self` with `on_free`.

**`StacklessActor`**: the coroutine of this actor is a function that is run again for each
step. An operation leaves its number in `recv_h`, `res_h` or `wait_h`, or a posted handler
(`posted`), and `Handle` is what recv.hpp does with what the handler got: go on, or `quit`.
`thread` says whether the strand runs the coroutine, or asio, in a thread of its own, by an
adaptor. `late` are the runs that have left the coroutine and are not through with `run()`: at
`Return` one looks whether the coroutine is complete, whoever has completed it meanwhile, and
an operation begun in an adaptor's thread looks into the mailbox (`Miss`), arms its timer
(`Arm`), stores its handler (`StoreHandler`) and what it waits for (`StoreList`) in steps of their
own, with those of the strand in between. On the strand all that is one step. `beside` is
history: something has run beside the strand. A handler that finds the coroutine where its
operation does not leave it makes it `astray`, and the model stops there. The mailbox itself is
looked into and pushed to in single steps also beside the strand, where the code has
a data race. `head` and `next` are the chain of the free list, over this object and another, in
which an object freed twice is twice.

**`RequestReply`**: actors of one context and the strands between them. `Post` puts a pack
at the end of the receiver's strand, or before everything else: a dispatched one runs at
once on the sender's strand. Running it as the next step of the receiver, and not inside the
sender's step, lets more happen than the code does. `asked`, `handler`, `answered`, `lost`
and `sent` are history.

**`Links`**: an aid is an object and its `sid`, so an old aid is one that `Check` refuses. `Pack`
is a pack with its tag; `strand` holds what is posted to each actor and socket. `SocketRecv` is
`socket::handle_recv` (towards the network, noting the link), `HandleNetMsg` is
`handle_net_msg` (from the network, and in a router on to its other socket), `OnNeterr` what a
lost connection does. `net` is what a peer has sent; `Break` loses what is on its way in both
directions, each end notices in a step of its own. An accepted socket is `registered`, so that
`select_socket` finds it, when it has read msg_login (`Login`), after the `ahead` packs that its
peer had in its cache. An answer (`Answered`) is sent as the code does, to whom
`SelectSocket` finds or to nobody, and what is lost is in `forgotten` with the place. That
the registration reaches other pools later is `Registry`'s. `aborted` is an assertion that fails.
`links`, `exited`, `told` and `forgotten` are history. What is sent is posted: each actor
and socket has a cache pool of its own.

**`Connection`**: `pc` is where the socket's coroutine is, from `started` to `freed`; the write
that is going on (`t`) and the heartbeat's handlers (`h`) run beside it. A pack is written and
read in two pieces, so that a connection can fail between them; garbage is what a reader
makes of the wrong pieces. `Read` takes any part of what has come, and handles the messages
that are whole by then in one run of the strand, as the loop of `run` and `recv` does (`Load`). `line` is `up`, `dead` (both ends notice) or `silent` (neither).

**`Registry`**: `queue` is what waits for the strand of each pool and `todo` the dispatches a
caller is in the middle of: `Dispatch` does one, so that two callers may reach two pools in
different orders. `Deliver` runs one call. `lists` and `curr` are the three lists with their
iterators; `served` is history, the sockets selected in this round. The steps of a socket and
of an acceptor are those that register, move to another pool, deregister and end; an accept
that fails ends it, the code does not try again (acceptor.cpp:120-124).

**`Amsg`** is the wire format: a value of a C++ integer type is its bytes, so that 64-bit
numbers are exact. The size that is reserved and what is written are decided by two chains of
comparisons in the code, and by two tables here (`SizeBounds`, `WriteBounds`), so that
`ReadsBack` compares what the two say. **`Message`** is the object: `small`, `large`, the two positions and the
tag. All of an operation is one step but a write that finds its buffer shared, which takes a
new buffer (`BeginCopy`) and copies (`EndCopy`) with steps of other threads in between.
`use_count` is derived: the pointers there are. A freed address may be allocated again.

## 4. The runs

| Run | Bounds | Shows |
|---|---|---|
| `mailbox` (117 thousand states) | 2 senders, an ordinary (indexed) type and exit, 2 requests, 3 arrivals, match lists of up to 2 types | indexes exact, `SelectiveReceive` implemented. Three arrivals give a replaced exit with a message on each side of it |
| `pack_queue` (36 thousand) | 2 producers, 3 packs each | no use after free, no pop of an empty deque, order, and every pack handled. The third pack frees the first two, partly or wholly |
| `threaded_actor` (37 thousand) | 3 calls, 1 peer, 2 requests, 1 unread message of a type | a stale handler of the first call may meet the second and the third |
| `stackful_actor` (119 thousand) | 3 operations, 2 actors in one object | the same, across the reuse of the object |
| `stackless_actor` (744 thousand) | 3 operations, 2 actors in one object, another object in the list | as long as nothing runs beside the strand: the handler that runs is the right one, the object is freed once |
| `request_reply` (238 thousand) | asker, relayer, two repliers of which one may exit, 2 requests, 2 plain messages | one answer from the actor that dealt with it; a request is answered unless its holder exits owing the answer |
| `links` (137 thousand) | 4 actors in 3 contexts, a router, 6 sockets, 2 links, 1 lost connection, one object used twice | who is told of whose exit: never wrongly, and in the end always but in the four cases the property names |
| `connection` (886 thousand) | either kind of socket, 1 retry, 2 packs out or 2 in with heartbeats among them, 1 failure of the network | order and wholeness over two connections and in any portions, silence noticed, connect answered, stop ends |
| `registry` (463 thousand) | 2 pools, 2 sockets to one context, 1 of them accepted or dialled, logins, 2 services under one name, 3 calls | round robin, agreement of the pools, an end after stop |
| `message` (159 thousand) | 2 messages, 3 addresses, 2 values each of 1, 3 and 4 bytes around a small size of 1; numbers of all eight types whose bytes are at the bounds | content kept under sharing, everything reads back |
| `relay_then_reply`, `adaptor_quit` | as small as shows it | the code does not do what its tests and assertions say; see below |

Bounds. Two calls suffice for a handler of one to meet another; the third gives it one that came
between. Two links let exits cross, one failure lets a link be made over the connection after
it. In `links`, `Alone` keeps three of the four possible links from being combined, which keeps
the search below a minute and the crossing of `d` (over a connection) with any of them in it. In
`registry` three calls are a dial, a login that renames it and a second registration, in any order.
Symmetry is used for senders and requests in `mailbox`, whose temporal property is a
refinement with no fairness, and in `message`, which has invariants only. Deadlock is not
checked: every run ends when its bounds are used up, and an actor that waits for ever for a
message is no error. Each module states its type invariant, `TypeOK`, which holds in these
runs (add `INVARIANT TypeOK` to a cfg); it is proved where section 5 says so.

Every property of a passing run has a mutant in PROJECT.json: a form of one
definition with a plausible mistake (it stands before the definition it would replace, "Were
...") with which the property fails.

**Fairness.** `PackQueue`: `on_recv` runs to its end, and the actor's thread goes on calling
recv, as the library asks of its user. `ThreadedActor`, `StackfulActor`, `StacklessActor`: posted
handlers run and started timers expire, which asio does as long as the context runs; in
`ThreadedActor` the thread returns when its promise is set; nothing makes a message come.
`RequestReply`: strands run what is posted, and the users' code deals with what it reads (an
actor that never replies answers nobody). `Links`: strands run, sockets read or see that the
connection is lost, a socket that tries to reconnect does or gives up. `Connection`: an attempt
to connect ends and so does a write, one way or the other, and time passes; the network need
not fail nor recover. `Registry`: strands run and what is stopped ends, which `Connection` shows
of a socket.

**What the violations show**, and what else the models show of the same kind. (1) `relay` leaves the id of the relayed request in
`wait_reply_list_`; a later reply to the same asker takes it, so the request is answered by the
relayer and the reply's own request by nobody. An actor that only relays, or only replies,
does not meet this: so `request_reply` is configured (`relay_then_reply`). (2) A stackful actor that throws while asio
runs it (before its first yield, or after an operation of the user's on `get_yield()`) is
never freed and its links are never told (`NoneLeftOff`). (3) A stackless actor that begins a timed operation
in the thread of an adaptor arms the timer before it stores the handler: the timer's handler
may find none, and an assertion fails (`AssertsHold`). (4) An adaptor that is called before
the run that began its operation has returned may complete the coroutine: then both runs
see it complete, both quit, and the object is freed twice and given to an actor while another
lives in it (`adaptor_quit`). `test_stackless.hpp` uses adaptors in this way; `MaxLate`, the runs
that may be overtaken when an operation is begun, is 0 in `stackless_actor` and 1 here.
(5) A router with no socket for a link answers over what `select_socket` finds, which does not
look among the sockets a router has accepted: the answer is dropped (`NoSocketIsAnswered`). (6) A
connection that fails in the middle of a message leaves its part in `recv_cache_`, and what the
next connection sends is read as its rest (`HandlesOnlyPacks`).

The runs show (1) and (4). The others are seen by adding the invariant named to
`MCStackfulActor.cfg` (2), `MCStacklessActor.cfg` (3), `MCLinks.cfg` (5) and `MCConnection.cfg`
(6): TLC finds each violated within seconds. They say of (2) the comment of `stop`
(coroutine_stackful_actor.cpp:264), of (3) the assertions of the timers' handlers
(coroutine_stackless_actor.cpp:294, 315, 336), of (5) the comment at socket.cpp:153, and of (6)
`BOOST_ASSERT(has_tag)` (socket.cpp:143).

**What the properties had to leave out**, because the code does otherwise (each is named in the
property's comment):

- `relay` of a thread_mapped actor loses the request: it binds a copy, and a copy of a message
  carries none (`request_reply` has no such relayer; with `Threaded` set to the relayer
  `SeenAsTheAskers` fails).
- Two actors linked through a router that exit at once: the router finds no link for the second
  exit, and `BOOST_ASSERT(skt)` (socket.cpp:190) fails; so it does after a lost connection.
- After a connection has failed a link may be lost, and who linked is never told: when a router
  forwards it to a socket that has gone; when it is made again over a new connection while the
  old one is in the list; when a router has no socket for it (5); and when its answer would
  go over a connection whose msg_login has not been read, because what was cached comes first.
- After (6) nothing is said of what is read (`cut` in `ReadsWhatWasSent`).
- `free_self` goes on at the first handler of the heartbeat's timer, another may still be posted
  (`QuietWhenFreed` counts waits, not those). It would find the object in its next life.
- A socket that the connecting actor registers itself may be dead by then, and stays registered.
  Two actors that hand a service name over may leave pools without it.
- What a stackless actor begins in the thread of an adaptor, beside its strand: a receive may
  miss a message or take any, besides what (3) and (4) show. The
  properties of `stackless_actor` speak of the time before (`~beside`). An actor resumed by an
  adaptor may end there, and its end is covered.
- In `PackQueue` a cache queue has one producer: a stackless actor that sends in the thread of
  an adaptor may be a second one of its pool's, which is left out.
- The most negative number of a signed type of more than one byte is read back as 0.

## 5. The proofs

For every value of the constants (any numbers of producers, packs, senders, types, calls,
requests, messages, buffers and actors in one object), from the named assumptions of each module:

- `MailboxProofs`: `IndexesExact`. The invariant adds that `arrivals` bounds all stamps; for
  each operation, what it does to a match queue is a lemma of its own. `MailboxKeepsPromise`:
  each action is one of `SelectiveReceive`, by the identity on the list; that the mailbox's
  choice is `Chosen` needs the indexes to be exact.
- `PackQueueProofs`: `PacksStayAlive`, `PacksInOrder`. The invariant says where each pack of a
  producer is: freed, handled and not published, being handled, in the queue, or stored
  and not pushed, with the indexes in this order; and that every value a load may return
  is below what the actor still uses.
- `ThreadedActorProofs`: `PromisesStayAlive`, `ReceivesAnswerTheirCall`. The invariant bounds
  the ids of all handlers by `tmr_sid` and says that a current one is the only one and
  that of the blocked call.
- `StackfulActorProofs`: `ResumeFindsItsWait`, `ReceivesAnswerTheirCall`,
  `NextActorStartsClean`. Besides the same for the timer: `recving_` and `responsing_` are
  true exactly while the operation has yielded, and no known aid is that of an object in the pool.
- `StacklessActorProofs`: `HandlersEndTheirOperation` (`ResumesTheSuspended`),
  `ReceivesAnswerTheirCall`, `FreedOnce` (`OneActorPerObject`). At most one thing can end an
  operation: the handler it left, with its timer, or the one it had posted (`HandlersInv`,
  `PostedInv`, `TimerInv`); and one run at most is still to look whether the coroutine is
  complete (`LateInv`). All of it as long as nothing has run beside the strand: the invariant is
  `~beside => Inv`, for it does not hold afterwards, as (3) and (4) of section 4 show. So nobody quits twice, and `stop` is posted once: `ListInv`, the
  shape of the free list, depends on it.
- `MessageProofs`: `MessagesOwnTheirContent`, that is `OwnContent`. A writer that has found its
  buffer shared writes the new one later without looking at the count again, so the invariant
  adds `FreshAlone`: until it has copied, no other message points to that buffer or copies from
  it. A lemma says what a count of one means, by the cardinality of the set of pointers.
- `RequestReplyProofs`: `RequestsAreNotMultiplied` (`NeverTwice`, `AnsweredByHandler`),
  `RelayIsNotSeen` (`SeenAsTheAskers`). A request is a token. `Tokens` counts where it is: posted
  to an actor, owed by it (`wait_reply_list`) or, at one that relays, unread or in its message, and
  as an answer posted, unread or read. Only `handler`, whoever the token went to last, has it,
  and the sum is 1 at most; each action moves it. The code has the id in two places, in the list
  and in the message, and takes it from the one or the other: so the theorem assumes
  `OneRoleEach`, that no actor both relays and replies. `RelayThenReply` is the run
  that shows what happens without. `RelayIsNotSeen` adds `DisjointRoles`: those who ask deal with no messages, and no
  thread_mapped actor relays (its `relay` knows no request and sends in its own name).
  The configuration `RequestReply.cfg` meets both.
- `LinksProofs`: `LinksAreOwnAndTruthful` (`OwnLinksOnly`, `ToldTheTruth`), from
  `LinksAssumption` alone, for any sockets, routes and routers. What an exit or an answer says
  is true when it is made, and facts of that kind stay true: `Packs` says so of every pack, so a
  socket may post, send, cache, wrap, drop or answer any of them. `ListsOK` adds that the lists
  of an object without an actor are empty, `PacksAt` and `ConnsOK` that without a failure
  each socket has the aid it started with, so that nothing is bounced at a socket by mistake.
  The assumptions on `Route` are what the registries hold while nothing has failed: a socket that
  is not a router's leads from an actor's context to whoever it may link to and back (so from a
  router's own context nobody links), and from a router's context one of the router's does.

  `RouterLosesNoLink` (`RouterKnowsLinks`): until a connection fails, a router has the record of
  every exit that comes to it, or both ends of that link have exited. The property is
  far from inductive: besides the records, what decides is in three places at once. `Way`, for each socket of the router,
  follows them in order: the packs that have come to it, those its peer has still to send,
  and the links kept by the actors behind the peer, each of which will send an exit. For each of
  these exits there is the record, or the link_t that makes it is ahead, or the other end has
  exited; and no two exits are of one link. The rest of `WayInv` is what `Way` rests
  on: a link that has passed a router's socket has its record there (`Recorded`), so that the
  link kept because of it has one (`PlacedOK`, `PassingOK`); a record names a socket of the
  router (`RecordsOK`), so that what is forwarded never runs into the packs of the peers; who has
  exited is not the actor now in its object (`KeptOK`), and an exit tells of one who has, so a
  record is removed only when an end of its link is gone. With a failed connection the property
  claims nothing (records are dropped and links sent again, which is where the code loses some),
  so the invariant is `RouterKnowsLinks /\ (~Failed => WayInv)`. As each
  socket of a router is accepted (`Routing \subseteq Acceptors`), a router's peer is never a
  router: routers in a row are outside the theorem and the runs.

`PushedType` and the other lemmas about the mailbox of `Unread` are in each of the three
modules that need them, so that each can be read and checked on its own.

Only model-checked:

- all liveness (`EveryPackHandled`, the `TimedCalls` properties, `ReturnedIsFreed`,
  `RequestsAreAnswered`, `LinkersAreTold`, `SilenceIsNoticed`, `ConnectAnsweredStopEnds`,
  `StopEnds`), which TLAPS does not reach;
- `ReadsBack` and `ReadsWhatWasSent`, whose codec and parser are folds over data;
- `SentInOrderOnce`, `QuietWhenFreed`, `SocketsTakeTurns` and `PoolsAgree` of `Connection` and
  `Registry`, which no theorem is about so far.

## 6. What is not modelled

- Remote spawn: a request to a socket, an answer over it, and an asker that polls with timed
  receives. The receive is `StackfulActor`'s and the connection `Connection`'s; their product is
  beyond TLC's reach, and no property of the parts speaks about it.
- Requests by service name and over connections; links of thread_mapped and nonblocking actors
  (their code calls the same functions of `basic_actor`, from other threads).
- `chain_`, the send hint: both ways of handing a pack over are possible at every step.
- In amsg: strings, maps, floating point, time types and the default stream reader and writer;
  only the zero-copy buffer that `message` uses. In `message`: `reader.error()`, which it does
  not look at, is the `"error"` of `Read`.
- Allocation of handlers, names, exit messages, log output, the operating system's threads, the
  counter of `select_cache_pool`, examples and tests.
- In `PackQueue` the reads of the actor are in program order: the store of `garbage_tail_` is
  sequentially consistent, the load is relaxed, and reordering on the producer's side after the
  load is not modelled. In `Message` the reference count is exact, as its atomic operations are.
