# TLA+ models of boost_Learning

The repository is a collection of programs written to learn Boost, most of them
network programs on Boost.Asio. Each program is small; what makes them hard is
what the library makes hard: completion handlers that run later and in an order
nobody wrote down, operations that are still outstanding when the objects they
use go away, forks that copy half of a running program, queues whose state
decides whether a write is started, threads that share a counter.

This directory models the programs that have such behaviour, checks them with
TLC on small instances, and proves their safety properties with TLAPS for every
size.

## The system

All paths are under `src/Concurrent_programming/asio/` unless they say otherwise.

| Component | State | Operations | What is hard about it | Model |
|---|---|---|---|---|
| Chat message format, `chat/chat_message.hpp` | `_data`, `_body_length` | `body_length`, `encode_header`, `decode_header` | sizes from the wire, signed against unsigned, the framing of what follows | `ChatMessage` |
| Chat server, `chat/chat_server.cpp` | participants and recent messages of a room; a queue, a read and a write per session | accept, join, leave, deliver, read and write loops | two loops per session that fail independently, a write started by whoever finds the queue empty, joins while others talk, peers that stop reading | `ChatRoom`, `ChatServer`, `ChatSystem` |
| Chat client, `chat/chat_client.cpp` | the socket, a queue, functions posted from the main thread | connect, read and write loops, write, close | two threads, writes before the connection is up, the end of the program | `ChatClient`, `ChatSystem` |
| Process-per-connection echo server, `fork/forkHandler.cpp` | acceptor, socket, signal set, in one process per connection | accept and fork, reap, echo | handlers and descriptors copied by `fork`, signals that coalesce | `ForkServer` |
| Daytime daemon, `fork/daemon.cpp` | socket, signal set, descriptors, session | two forks, detach, receive, stop | requests and signals at every point of the way | `Daemon` |
| Asynchronous daytime servers, `socket/TCP/async_server.cpp`, `socket/UDP/async_server.cpp`, `socket/TCP_UDP/two_server.cpp` | connections owned by handlers; one remote endpoint | accept, start, receive, send | lifetime of connections, an endpoint overwritten while replies are outstanding, errors that end a loop | `DaytimeTcp`, `DaytimeUdp`, `TwoServer`, `DaytimeSystem` |
| Timers on a strand, `tutorial/syn_multi_thread.cpp` | two timers, a shared count and stream | two handlers on two threads | mutual exclusion, the limit, the end of both threads | `StrandPrinter` |
| Echo server with handler allocation, `allocation_async/server.cpp` | a session with the memory of its own operations | allocate, deallocate, echo | memory inside the object that the operation in it keeps alive | `EchoSession` |
| Multicast, `Multicast/sender.cpp`, `receiver.cpp` | message count, one buffer, a timer | send, wait, receive | the buffer reused while a send may be outstanding, an unreliable network | `Multicast` |
| Daytime server with shared buffers, `buffers/refence_count.cpp` | message and session, owned by copies | accept, write | the function that made them returns while the write goes on | `SharedBuffer` |
| Daytime client with futures, `std_futures/daytime_client.cpp` | three futures, two threads, a work guard | resolve, send, receive, stop, join | operations on local buffers while another thread runs the handlers, exceptions, a reply that never comes | `FuturesClient`, `DaytimeSystem` |
| Handler tracking, `Handler Tracking/custom_tracking.hpp` | the identifier of each handler, a stack of completions per thread | creation, completion, begin, end | the memory of a handler is reused while it runs, completions nest, handlers throw | `HandlerTracking`, `TrackedEcho` |
| Shared memory, `src/Containers/muti-index/multi_index_shm.cc` | a named segment | remove, create, insert | nothing: one process, one step after the other | not modelled |
| Single-threaded timers, `tutorial/` (the other four files) | a count | one handler | nothing `StrandPrinter` does not have | not modelled |
| Synchronous sockets, `socket/*/sync_*.cpp` | none between calls | blocking calls in sequence | nothing but input and output | not modelled |
| Promise demo, `std_futures/futher.cpp` | one promise | set, get | sequential | not modelled |
| HTTP server, `http_server/` | - | none implemented: declarations only | - | not modelled |
| Smart pointers, accumulators, type traits, `src/Memory`, `src/Math_and_number`, `src/other` | - | library calls in sequence | - | not modelled |

The programs do not share state with each other, but some of them meet:

- The chat client and the chat server are the two ends of one connection and
  share the message format; `ChatSystem` puts the client in the place of one of
  the server's peers.
- `two_server.cpp` runs a TCP and a UDP server on one thread, which is all they
  share; `TwoServer` composes `DaytimeTcp` and `DaytimeUdp`. `daytime_client.cpp`
  asks a UDP daytime server for the time; `DaytimeSystem` makes it one of the
  clients of `TwoServer`, with a network between them.
- `refence_count.cpp` is the same service as the TCP daytime server with another
  way of keeping the message alive: `SharedBuffer` implements `DaytimeTcp`.
- `custom_tracking.hpp` is compiled into a program and called by Asio;
  `TrackedEcho` calls it around the operations of a session of
  `allocation_async/server.cpp`, which reuses the memory of its handlers.

The others are complete systems of their own whose counterparts (clients, the
kernel, the terminal, the network) are modelled as environment.

What makes each component correct is stated as properties in its module and
listed below. `PROJECT.json` lists under "hazards" what can go wrong in the
code, line by line, and which property would notice.

## How the models correspond to the code

**Handlers.** In every program but `StrandPrinter` one thread executes
`io_context.run()`; in `ChatClient` and `FuturesClient` it is not the main thread,
whose statements interleave with it. A completion handler is then one atomic action,
including everything it calls. What interleaves with the handlers - peers, the
kernel, other processes and threads - is made of actions of their own, so that
everything may happen between two handlers.

**Operations.** An asynchronous operation is a variable with its stages: not
started, outstanding, completed in the kernel with its handler not yet run. A
write always has the middle stage, since the peer may react to a message before
the handler that removes it from the queue has run. For a read the two coincide:
until the handler runs the data is in the inbox.

**Failures.** Every `ec` that the code tests is an action of its own with the
causes that lead to it: end of stream, reset, a connection reset in the backlog,
a refused header, an ICMP error, a fork that fails.

**Lifetime.** Where the code relies on `shared_from_this`, the handlers that
hold the object are modelled (`owners`, `refs`, `Alive`), and the destructor is
an action.

**External code.** The behaviour of Asio, libc, the kernel and the peers is
modelled from how the code uses it, and marked external in the map.

Per module:

- `ChatMessage`: one message object. `Format` is `sprintf("%4d")` and `Atoi` is
  `atoi`, on characters; `ToSizeT` wraps as the assignment to `std::size_t`
  does, with a width of 30 bits in place of 64 because TLC's integers have 32.
  The two properties need of the limit that four digits can write it and of the
  width that it can hold the limit: that is the assumption of the module. (A
  negative number of four characters wraps to a large one; if the width were so
  small that it became acceptable, every receiver would still decode it alike.)
- `ChatRoom`: what a room promises. A person has a window on one shared log.
- `ChatServer`: the server. `log`, `base` and `wire` are history variables: all
  messages delivered, where in them a session's first message was, and what was
  written to its socket. They occur in no guard. `PeerSend` puts a whole message
  into the inbox; a message that the peer cuts off is `ShortBody`, a header that
  `decode_header` refuses is `BadHeader`.
- `ChatClient`: the client. `posted` holds the functions posted by the main
  thread. `AttemptDone`, `NextAttempt` are `async_connect` over the endpoints
  of the resolver: it reopens the socket for each attempt, which makes a write
  that is waiting in the socket fail. A line is the number it was typed as.
- `ForkServer`: the process that serves connection `c` is called `c`. The accept
  handler is split at `fork()`. `wait` and `pipe` are Asio's signal handling:
  the signal handler writes to a pipe, the reactor reads it unless
  `notify_fork(fork_prepare)` has taken it out. `holders` are the processes with
  an open descriptor of a connection.
- `Daemon`: three processes execute `main` statement by statement. Descriptors
  0 to 2 are the standard streams, 3 and 4 stand for those that Asio and the
  socket have.
- `DaytimeTcp`, `DaytimeUdp`: the handlers of `tcp_server` and `udp_server`.
- `TwoServer`: both on one `io_context`. A step is a step of one of them, since
  one thread executes the handlers of both; each has its own fairness.
- `FuturesClient`: `main` is where the main thread is, blocked on a future or
  not. `ops` are the operations whose handler has not run: a future is set when
  its operation has left `ops`. Every exception that a future or the socket
  throws is the other branch of the action that would have gone on.
- `DaytimeSystem`: `Ask` and `Reply` are the steps that client and server share:
  the kernel of one host takes a datagram and it arrives, or is `dropped`.
- `SharedBuffer`: `message` and `session` are the holders of the two objects, so
  that each `shared_ptr` that is copied or goes is a change of a set. The accept
  handler is taken apart into its statements, because the message has to
  survive the return from the function that made it. `DaytimeTcp` is implemented
  with "somebody holds the session for the write" as its `owners`.
- `ChatSystem`: what the kernel takes from one end is in the inbox of the other,
  and closing the client's socket is the end, or a reset, of the session's stream
  (the server has no reason to close first: it closes when its connection is
  over). The actions
  of `ChatServer` and `ChatClient` are used as they are; those by which each
  module lets its environment act (`PeerSend`, `ServerSend`, ...) are joined with
  the action of the other that causes them.
- `StrandPrinter`: the handlers statement by statement, on any number of threads
  and timers. `StrandFree` is the strand.
- `EchoSession`: a session from the accept on, with the three stages in which
  Asio runs a handler: moved out of its block (`Complete`), called
  (`HandlerBody`), destroyed (`HandlerDestroyed`).
- `HandlerTracking`: `handler[m]` is the `tracked_handler` of the operation in
  memory `m`, `current[t]` the list of completions from `*current_completion()`
  along `_next`. The identifiers are what a log is read by; the tree identifier
  is not modelled, since the code never sets it to anything but 0, and neither
  are the hooks that only print (`operation`, `reactor_*`).
- `TrackedEcho`: the hooks around the steps of `EchoSession`, in the order in
  which Asio expands its macros.
- `Multicast`: the sender and its receivers. The content of a datagram is what
  the buffer holds when the kernel takes it.

Some of the sources do not compile as they are (a full-width blank in
`daemon.cpp:142`, missing punctuation in `socket/UDP/async_server.cpp` and after
the class `session` of `buffers/refence_count.cpp`, misspelt names in
`custom_tracking.hpp`). They are read as what they are meant to be.

## What the runs check

`*.cfg` gives the constants. Deadlock is not checked anywhere: each program may
legitimately come to a halt (all peers gone, the bounds used up), and where it
must not halt early a liveness property says so.

| Run | What it shows |
|---|---|
| `MCChatMessage.cfg` | `BodyFits`: whatever four characters a peer sends, `body()` is never used beyond its room. `FramingAgrees`: a message put on a wire, or accepted and forwarded, is decoded to its own length. |
| `MCChatServer.cfg` | `WriteDiscipline`: no socket ever has two writes under way, and a session in the room has one exactly when there is something to write. `HistoryIsTail`: the history is the last messages said. `ContiguousView`: what a peer gets has no gap, repetition or reordering. `ImplementsRoom`: the server implements `ChatRoom`. |
| `ChatSystem.cfg` | `RoomHearsInOrder`: of the lines typed into the client the room hears a beginning, in order and once. `LinesAreSaid`: all of them, unless the client closes its socket first. `EverybodyHears`: a peer that reads - the client - is sent every message, next to a peer that never reads. `EverybodyIsServed`: a failed accept stops nobody. `SessionsAreReleased`: no session outlives its connection. |
| `ChatClient.cfg` | `LinesInOrder`: a line is in one place, in order, from the keyboard to the wire. `QuietUserTriesAll`: only a user who types early makes the client skip an endpoint. `ClientExits`: end of input ends the program. `ConversationEnds`: so does the server's leaving end the second thread. |
| `ForkServer.cfg` | `NoZombies`: every child that ends is reaped, whatever signals coalesce. `ChildrenEnd`: a child ends when its peer has gone. `ClosedWithTheChild`: once the process of a connection has ended, no other process keeps it open. `EchoInOrder`: the peer gets back what it sent, in order. `EveryoneAccepted`: nobody waits in the backlog for ever. |
| `Daemon.cfg` | `Detached`: the process that serves has left the terminal behind. `EveryoneAnswered`: every request in the buffer is answered, also those from before the forks and after an error. |
| `DaemonShutdown.cfg` | **Violated**: `SignalStopsDaemon`, see below. |
| `DaytimeSystem.cfg` | `ClosedWhenSent`: no TCP connection is closed before its message is sent. `EveryoneServed`: every TCP client is served, also after an error has ended the UDP service. `RepliesGoBack`: every UDP request is accounted for, and replied to the one who asked. `ServiceUntilError`: the UDP service answers everything until an error ends it. `BuffersOutliveOperations`: the futures client leaves `get_daytime`, normally or by an exception, with no operation on its buffers outstanding. `AnsweredOrSilence`: it ends, unless something on the way lost a datagram or the service was over. |
| `SharedBuffer.cfg` | `MemoryForTheWrite`: while a write is outstanding its bytes and its session exist. `ImplementsDaytimeTcp`: the server is one that `DaytimeTcp` describes, fairness included, hence closes connections when the message is sent and serves everyone. |
| `StrandPrinter.cfg` | `CountsUp`, `FinalCount`: 0, 1, 2, ... and exactly to the limit. `ProgramEnds`. |
| `TrackedEcho.cfg` | `StorageSuffices`: the one storage is free again when the next operation needs it. `SessionOutlivesHandlers`: the session is there while a handler or an operation uses it. `SessionEnds`: it is destroyed when its peer has gone. `LogIsReadable`: the tracking log has each handler started, entered and left at most once, in this order, by one thread. |
| `Multicast.cfg` | `NumberedInOrder`: `_message` is not overwritten too early. `SenderEnds`: after exactly the limit, or an error. `EverythingIsPrinted`. |

For every property `PROJECT.json` names a mutant: an operator in the module,
marked as such by a comment, that changes one definition the way a plausible
bug would, and under which the property is violated.

### A disagreement between the code and its comments

`daemon.cpp:56` says "Register signal handlers so that the daemon may be shut
down", and `daemon.cpp:134` "Inform the io_context that we have finished
becoming a daemon" - but the call that this comment announces,
`notify_fork(fork_child)`, is not there. `notify_fork(fork_prepare)` in line 66
has taken the signal pipe out of the reactor, and nothing puts it back, so that
a SIGINT or SIGTERM is written to a pipe that nobody reads. The run
`DaemonShutdown.cfg` shows it: `SignalHandler` is never enabled although it is
part of `SpecWithSignals` with fairness; in the behaviour found the daemon has
reached `run()`, without any signal before, and is then sent one. For the same
reason the action is left out of `DaemonNext`, where it would be an action that never happens.

Two more things the models do not cover, but a reader of the code should know:
`allocation_async/server.cpp:235` creates its server as a temporary, which is
destroyed before `run()`, so that the accept handler works on a destroyed
object; and the queue of a chat session whose peer stops reading has no limit.

### Bounds

- Chat message: header length 4 and limit 512 as in the code. Eight kinds of
  characters take every branch of `atoi` and spell numbers on both sides of the
  limit; all 4096 headers are tried.
- Chat server (`MCChatServer`): three sessions (one that talks, one that listens, one that joins
  or fails meanwhile), three frames, a history of two. Three frames overflow the
  history, and leave a queue of up to three messages behind a slow write.
  `MaxFrames` bounds the frames of all peers together. 
- Chat system: the client, one other peer that never reads, two messages in all
  (two lines, or a line and a message of the other), a history of one.
  `MoreToSay` bounds the messages whoever says them, so that a line that was
  typed may also be said. One endpoint: the choice among several is
  `ChatClient.cfg`'s.
- Chat client: two endpoints (one to be refused, one to reach), three lines,
  two frames, each a message, a refused header or a message cut off in its body.
- Fork server: two connections, two chunks each. Two children suffice for
  signals that coalesce and for descriptors inherited by a sibling.
- Daemon: two clients, two requests each, a buffer of two, so that it overflows.
  Each process is sent a signal at most once until the pipe is read: one in the
  pipe stands for any number.
- Daytime servers: two clients that use both servers; a TCP message taken in two
  parts, one UDP request each and a buffer of one, so that it overflows and the
  remote endpoint is overwritten while the other's reply is outstanding. One of
  the two is the futures client, which asks once.
- Shared buffer: three clients, a message taken in two parts.
- Strand: the limit of the code, two threads, two timers.
- Tracked echo session: three chunks, written in up to three parts, so that the
  storage is used for several operations in turn, and each may or may not fit.
  `HandlerTracking` has one thread and three places of memory there; several
  threads are the theorem's.
- Multicast: three messages, two receivers, two arrivals each, so that a
  repetition or a reordering fits.

Connections and messages are interchangeable in `MCChatServer.cfg`, which uses
symmetry; the runs with liveness properties do not.

### Fairness

Weak fairness of the steps that `io_context.run()` executes (a handler that is
ready is run), of the kernel where it reports what has already happened (a
broken connection, an attempt to connect that ends), and of threads and
processes. Peers never have to do anything. That a peer reads is assumed only
of the peers in the constant `Responsive` of `ChatServer`, where the variable
`responsive` of `ChatClient` says so (chosen at the start, so that both kinds of
server are checked), for the echo of
`ForkServer` and `EchoSession`, whose clients read their echo, and for
`DaytimeTcp` and `SharedBuffer`, whose message fits into the send buffer of the
kernel. In `ChatSystem` the client is such a peer, since its read loop waits for
nothing, and so is the server for the client.

For the network of `DaytimeSystem` nothing is assumed: it may lose every
datagram. In `ChatSystem` and `TrackedEcho` one condition stands for all the
handlers and the kernel: within the bounds every one of their steps uses up
something (a line, a frame, an operation), so that none can be postponed for ever
by the others, and the condition is the same as one for each of them.

## What is proved

Every safety invariant that the runs check is proved for every value of the
constants that satisfies the named assumption of the module: any number of
connections, messages, threads and timers, any history length and limit. Each
proof rests on an inductive invariant (`IInv`, or a name of its own where a
module has several) that was model-checked before it was proved. It is defined
in the module it is about, after the properties, and what it adds to them is
what makes them inductive. Only the two properties of the wire format are
inductive as they stand (together, as `Framed`).

At most two components that have nothing to do with each other share a proof
module (`ForkServerProofs` and `DaytimeProofs`); there the specification of the one
is `Spec` or `SystemSpec`, that of the other bears the name of its module
(`DaemonSpec`, `MulticastSpec`), as does `MessageSpec` next to the chat.

`ChatProofs`, the wire format.

- `BodyStaysInside`, `FramingIsKept`: the lemma they need is `RoundTrip`: `atoi`
  of what `sprintf("%4d")` wrote is the number again, for every number of at most
  four digits. It is what makes `encode_header` keep the framing, as the limit on
  the length is what makes four digits enough. `AtoiType` is the other half: whatever the four characters are,
  `atoi` ends with an integer, so that the conversion to `size_t` is one within
  its width.

`ChatProofs`, the server.

- `SessionShape`: a session that was not accepted has no trace in the server; a
  write has a front of the queue to write from. `ContiguousView` is not inductive
  without it and `WriteLoop`: a write that completes moves the front of the
  queue to the wire, and only if there is a front, and only one write, is the
  segment kept. `HistoryIsTail` is needed at `Accept`, where the queue of the
  newcomer becomes a copy of the history.
- `WriteLoop` and `WritesCounted` are why `WriteDiscipline` holds (theorem
  `OneWriteAtATime`). `writes` counts every `async_write` that is started and not
  handled, `writing` is the state of the one loop there should be; the code tests
  the queue instead of either. `WriteLoop` says that the loop of a session in the
  room is idle exactly when its queue is empty, and with it every start - from
  `deliver()`, from `join()`, from the write handler - finds the count at 0.
- `ServerImplementsRoom`: every step of the server is a step of `ChatRoom` or
  leaves it unchanged, under the mapping stated in `ChatServer` (`RoomStatus`,
  `Upto`, and `wire` as what was received). The steps use the invariant: `Accept`
  is a `Join` because the history is the tail of the log, `WireWrite` is a
  `Receive` because the front of the queue is the message of the log that the
  peer has yet to get.

`ChatProofs`, the two programs together.

- `SystemInv` adds to the invariants of the server and of the client `Stream`
  (while the session reads, what the client's kernel has taken was said in the
  room or is in the session's inbox, line by line) and `OthersSayOther`.
  `RoomHearsInOrder` is not inductive without `Stream`: the body that the session
  reads next is the next line only because of it. And `Stream` is kept because of
  the client's own invariant: what its kernel takes is the line that follows.
- `SystemImplementsParts`: each step of the system is a step of the server or
  leaves it alone, and a step of the client or leaves it alone. Hence
  `SystemImplementsRoom`, and every theorem about the parts holds of the whole.
- `LinesReachPeersInOrder`: the order in the room and the contiguous view of each
  peer give the order at each peer, a property of four queues and two
  connections of which no run needs to check more than its parts.

The other programs.

- `ChatClientProofs`. `Places` says position by position what `LinesInOrder` says
  of the concatenation of wire, queue and posted functions, and where `close()`
  may be. `QuietSocket`: as long as nothing was typed nothing is written, so that
  nothing but the end of a conversation closes the socket; without it
  `QuietUserTriesAll` is not inductive.
- `ForkServerProofs`, the forking server. `Descriptors`: who may hold a socket at
  each stage of the fork. `Chunks`: between the read and the write the chunk that
  was read last is the one in `_data`.
- `ForkServerProofs`, the daemon. `DaemonInv`: where each of the three processes
  may be (`WayInv`), whose session it inherited (`SessionInv`), and what its
  descriptors are before each statement (`StreamsInv`): `dup` returns the lowest
  free descriptor, so that where the log goes depends on everything that was
  opened and closed before. `DaemonIsDetached` states it with and without signals.
- `DaytimeProofs`, about `DaytimeSystem`. `ConnectionInv` (a TCP connection that
  nobody holds has nothing to send), `RequestInv` (the account of requests, over
  the numbers of occurrences in queue and sends), `FutureInv` (the operation
  outstanding is the one whose future main waits for). The parts are disjoint and
  each is preserved by the steps of its own part; one lemma per part and one case
  per step of the system put them together. `ServersAsComposed`: with this client
  and this network the servers behave as in `TwoServer`.
- `DaytimeProofs`, Multicast. `OneAtATime`: while the timer runs no
  send is outstanding, and at each stage of a send the datagrams on the wire are
  all those before it, or it as well. `AllOrStopped` is the safety part of
  `SenderEnds`: a sender at rest is one that has sent everything or met an error.
- `SharedBufferProofs`. `Holders`: message and session have the same holders, the
  local variables only while the accept handler runs, the operation as long as
  there is one. `SameService` is `ImplementsDaytimeTcp` without fairness.
- `HandlerTrackingProofs`. `GivenOut` (identifiers in use were given out, and
  what is kept in memory has been started and not entered), `StageOfLines` (what
  the stage of a completion says was printed), `Distinct` (no identifier is in two
  places): together they say that a line is printed once, which the readability
  of the log alone does not imply for the next step. For any number of threads.
- `EchoProofs`. `OneBlock` and `RefsCounted` for the memory and the life of the
  session, `BufferInv` for its one buffer, from which `ChunksAreEchoedInOrder`
  follows: before and during a write `_data` holds the one chunk that is missing
  from the echo, and the read that would overwrite it is started when none is.
  `HooksOnlyObserve`: the tracked program is the session with hooks that change
  nothing of it. Each of its steps is also a step of `HandlerTracking` or none,
  and so its log can be read by the theorem of that module.
- `StrandPrinterProofs`. At most one thread is in a handler, a thread that has
  tested the limit and not yet counted is below it, and the output relates to the
  count at each statement.

### At rest

What the liveness properties promise has a part that is safety: when nobody in the
program has a step left, nothing that was promised is still open. A handler that
does not start the next operation, a queue that is not empty with no write
outstanding, a wake-up that is lost, a reference kept too long: each shows as a
state in which the program rests and should not. These theorems say that there is
no such state, for every value of the constants. They do not say that rest, or
progress, is reached; that is what the runs check.

Each module states when its program rests (`AtRest`, `Rests`, `ServerRests`, ...) as
guards over its variables, clients and network apart: they may always do more.
On the instances of the runs TLC compared each of these predicates with `~ENABLED`
of the program's own steps, found them to be the same in every reachable state,
and found states in which they hold; it checked the claims and the helper
invariants on the same instances.

| Theorem | At rest | Because (helper invariant) |
| --- | --- | --- |
| `ServerForgetsNothing` | every connection was looked at; who still reads is in the room, every whole message sent was delivered, a peer that reads has all that was said since it joined; ended sessions are gone, unless a write waits for a peer that does not read | `ServerOwes`: who is in the room reads, who reads is in the room until a write fails |
| `ClientForgetsNothing` | main is not stuck in `join()`, and a second thread that is in `run()` is in a conversation that goes on, with everything read and, if the server reads, everything written | `SocketFollows`: until the socket is closed it follows connect and read, a queue that is not empty is being written, and a `close()` asked for is still posted |
| `SystemForgetsNothing` | nothing is on the way between the client and the server: all lines typed were said, all that was said was read | `Linked`: the two ends of the connection agree about its end |
| `NothingIsForgotten` | who connected was accepted, every child that ended was reaped although `SIGCHLD`s coalesce, a child that lives has echoed everything | `Owed`: a zombie is announced by the pipe or by a round of `waitpid` under way |
| `DaemonForgetsNobody` | all processes have ended, or every request for which the buffer had room was answered; and none is answered twice | `DaemonOwes`: a receive is always outstanding, and a request is lost, queued or answered, counted by the places of the queue |
| `ServersForgetNobody` | the two daytime servers took every connection, sent each client the whole message and then the end, and replied to every request that was not lost | `Served` of `DaytimeTcp` |
| `ClientWaitsForCause` | main of the futures client has exited, or it waits for a reply that cannot come any more (`Silence`) | `Blocks`: main waits for the future of an operation that it has started; `Delivered`: until something is dropped, a reply is in the socket or was received |
| `ServiceForgetsNobody` | the same as for `DaytimeTcp`, and no message and no session is kept: nothing leaks | `Served` of `SharedBuffer` |
| `SessionForgetsNothing` | a session reads, its client is there and has back all it sent; or both are gone | `Chained`: a handler without error has started the next operation |
| `RestsWhenDone` | every thread has returned from `run()`: none waits for a strand or a timer for ever | `Attended`: a timer is in its handler only while a thread is |
| `EverythingPrintedAtRest` | a receiver without an error has printed all that arrived; with `NothingInvented`, only messages that were sent, however the network repeats and reorders them | `AllArrivals`: what arrived is in the buffer or printed, and both are bounded by what was sent |

### What stays with TLC

Only model-checked are the liveness properties themselves, the fairness in
`ImplementsDaytimeTcp` included: that a program which may move does move, and that
it comes to rest, needs fairness and ENABLED, which the prover does not support;
so does the equality of the rest predicates with `~ENABLED`. The proofs use no induction over data: `Atoi` is
its four steps rather than a fold, and the lines in the conversation are a set
of positions rather than a filtered sequence, since a recursive definition could
only be evaluated, not reasoned about.

## Not modelled

- `server` and `main` of `allocation_async/server.cpp`: undefined behaviour from
  line 235 on, see above.
- The hooks of `custom_tracking.hpp` that only print.
- The single-threaded timers, the synchronous sockets, the promise demo, shared
  memory, smart pointers, accumulators and type traits: each is one sequence of
  library calls in one process, with no state between them that a step of
  somebody else could meet.
- The HTTP server: the repository has the declarations of its data types and no
  operation.
- A standard stream that is closed when the daemon is started: its descriptor
  would go to Asio or to the socket and be closed with the standard streams. The
  initial state of `Daemon` has the three streams open, as a shell provides them.

## Plan

Every component with concurrency, failure or shared lifetime is modelled. What is
left:

1. Larger instances of `ChatSystem` (a second client) if the state space can be
   reduced; so far three messages are out of reach of a run of a few minutes.
2. Several clients in the proofs of `ChatSystem`: `Me` is one connection, and the
   theorems hold for each choice of it with the others as arbitrary peers; a
   system in which all peers are `ChatClient`s would state them at once.

The runs are meant to stay few, one per question: a run of a system that contains
another (`ChatSystem`, `DaytimeSystem`, `TrackedEcho`) takes over the properties of
the parts where the whole says the same.
