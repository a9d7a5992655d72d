# Verification of CPP_Code_Examples

The repository collects network and storage programs in C++: asynchronous and
synchronous Boost.Asio servers and clients, WinSock programs, nanomsg nodes,
protobuf files and MySQL examples.  Each program is small, and what is hard
about it is not in one function but in the order in which handlers, kernel,
threads and processes take their turns.  This directory models those orders in
TLA+, checks small instances with TLC and proves the main results with TLAPS for
every value of the constants.

Paths below are relative to `src/`.

## 1. Inventory

The parts of the system, what each keeps and does, and what makes it correct.
`PROJECT.json` ("components") lists their files, and "hazards" the lines where
each can go wrong.

| part | state | operations | interacts through | what must hold |
|---|---|---|---|---|
| async UDP echo server, `AsyncUDPServerClient/AsynUDPServer/udp_server.cpp` | one buffer, one endpoint, one socket operation | constructor, `handle_receive_from`, `handle_send_to` | datagrams; completions of `io_service` | one operation at a time; each request answered at most once, to its sender, with its bytes; never deaf |
| async UDP client, `.../AsyncUDPClient/udp_client.cpp` | queue of messages, reply buffer, endpoint, socket | `send_message`, `do_write`, `handle_send_to`, `recv_message`, `handle_receive_from` | the same, and `post` | no message stranded; one request per message, to the server; no pop of an empty queue; prints its own reply |
| chat message, `.../messages.cpp` | header and body | `encode_header`, `decode_header`, `body_length` | called by nobody | decoding inverts encoding |
| async daytime UDP servers, `boost_udp_server.cpp` | one-byte buffer, endpoint, overlapping sends | `start_receive`, `handle_receive`, `handle_send` | datagrams | replies go to who asked, though the endpoint is overwritten |
| async daytime TCP server, `TCP_boostExample/TCP_async_boost_server` | acceptor, connections held by their handlers | `start_accept`, `handle_accept`, `start`, `handle_write` | connections | the accept loop survives; a connection outlives its write |
| sync daytime TCP server and client | none | accept, write, close; read until EOF | a stream | the client reads all |
| SendUDP, `UDP_boost/.../SendUDP.cpp` | a count, two threads | `Sender`, `wait`, `handle_receive`, `join` | a socket of its own; the clock | the receiver ends, so that `join` returns |
| sync UDP servers and clients, protobuf over UDP | a buffer | one receive, one send | datagrams | what is parsed was received |
| WinSock file size servers and clients | a file | request a name, answer a size | one datagram each way, or a half-closed stream | the size fits its encoding; -1 means no file |
| WinSock TCP echo | a stream | send, shutdown, receive until closed | a stream | all bytes come back; nobody waits for ever |
| WinSock string reversing server and client | a buffer | receive, reverse, send | datagrams | the buffer's bounds |
| WinSock UDP sink, HTTP client | a buffer | receive | datagrams, a stream | the loop ends |
| nanomsg pair, `Nanomsg_Protobuf/.../testPairExample.cpp` | a place in a loop, the library's pipe | `recv_name`, `send_name`, `send_recv` | a pair socket | the nodes never wait for each other |
| MySQL table programs | one table | drop, create, insert, select | statements of several processes | what is read is what was inserted |
| protobuf phone list | a file | parse, add, truncate and write | the file | a reader sees a whole list |
| burst types, `CPP/TestProj/...` | none | `findOccurences`, `testSwitch` | - | counts add up |

| generated `radio.pb.cc` and `.h` | a message's fields | `_InternalSerialize`, `ByteSizeLong`, `_InternalParse` | a buffer or a file | parsing inverts serialising; sizes computed beforehand are right; of a prefix followed by anything the prefix is read |

Left aside: reflection, merging, swapping and arenas of the generated code, the
arithmetic of the static library demo, project files and assets.

How the parts interact: the client `udp_client.cpp` constructs three objects for
the ports 8886, 8887 and 8888; an echo server process, started by hand, serves
each port.  The other programs come in pairs (a server and its client) or are
complete in themselves.

The hard behaviours are therefore: handlers and kernel that share a buffer
while operations are in progress (section 3); queues whose elements, sends and
completions must stay in step (section 4); whole programs over a network that
loses and reorders (section 5); two processes that both block (section 6); sends
that overlap the next receive (section 7); streams that are cut up anywhere,
half-closed and reset, and objects that live as long as their handlers
(sections 8 and 9); buffers that keep what an earlier datagram left in them, and
threads ordered by a sleep (section 10); and processes that share a file, a table
or a collection without a lock or a transaction (section 11).

## 2. Plan

The modules, in the order in which they were written.

1. `EchoService`, `UdpEchoServer`, `MCUdpEchoServer`, `UdpEchoServerProofs`
2. `AsyncUdpClient`, `MCAsyncUdpClient`
3. `AsyncEcho`, `MCAsyncEcho`: both together; `AsyncEchoProofs` has the proofs about
   the client and about both together
4. `NanomsgPair`, `NanomsgPairProofs`
5. `OneShotClients`, `DaytimeUdpServer`, `DaytimeUdpServerProofs`: overlapping
   sends, and the receive that is not restarted after an error
6. `DaytimeTcp`: accept loop and lifetime of connections
7. `FileSizes`, `WinSockTcp`: half-closed streams, partial reads, sizes cut to an
   int; `MCTcp` runs 6 and 7, `TcpProofs` has their proofs
8. `SendUdp`: two threads, and when `join` returns
9. `RadioWire`: the messages as bytes, `WireProofs` what is read of them; `SyncUdp`:
   synchronous loops, the bounds of their buffers, what a parser reads; `MCUdp` runs
   8 and 9, `UdpProofs` has their proofs
10. `PhoneFile`, `MySqlTable`: processes that share a file, a table or a collection;
    `MCStores` runs them, `StoresProofs` has their proofs

Who composes whom: `AsyncEcho` extends the client and instantiates the server;
`DaytimeUdpServer` and `SyncUdp` extend `OneShotClients`, the clients that send one
datagram and wait for one; `SyncUdp` and `WinSockTcp` extend `FileSizes`; `SyncUdp` and
`PhoneFile` extend `RadioWire`.  The abstract specification is `EchoService`, and the
server is shown to implement it.

`MCTcp`, `MCUdp` and `MCStores` hold two unrelated systems each.  A behaviour is of one
of them: it starts in the initial state of the one while the other has come to
its end (its clients failed, its server never started), where no step of it is
possible.  The state space is the sum of the two and not their product, and every
property is true of the idle system for lack of anything that happened.

## 3. The echo server (`UdpEchoServer`)

| variable | in udp_server.cpp |
|---|---|
| `rx[s]`, `tx[s]` | receive and send operations in progress on `socket_` |
| `recvd[s]`, `sent[s]` | completions whose handler has not run yet |
| `data[s]`, `endpoint[s]` | `data_`, `sender_endpoint_` |
| `wiping[s]` | `handle_send_to` has started its receive and not yet cleared `data_` |
| `unreachable[s]` | an ICMP error is pending on the socket |
| `net`, `issued` | datagrams in flight; how many each client has sent |

The handlers are `HandleReceiveFrom`, and `HandleSendTo` followed by `ClearBuffer`:
one handler runs at a time, but the kernel may complete the receive started at
line 87 before `memset` at line 92, so the two halves are two steps.  Completion of
the operations is the kernel's (`KernelReceive`, `KernelReceiveError`,
`SendLeaves`, `SendFails`), with the two behaviours a datagram longer than the
buffer has: cut (POSIX) or an error (Windows).  The bytes of a send are read from
`data_` when the datagram leaves, not when the send is started, so that any
overlap of the two would show.  A send that fails may leave an error that a later
receive reports.

Requests carried along in completions ("req") are history values: no guard reads
them; they say which request the buffer should belong to.

`EchoService` is the promise: a request taken by its server is dropped or answered
once, to its sender, cut to the buffer, with its bytes or zeros.  `EchoesRequests`
says that `UdpEchoServer` implements it, the requests held being those in `recvd`
and `tx`.

Runs: `echo_server` (one server, two clients of two datagrams each, two contents,
lengths 0, 1 and 2 with a buffer of 1: empty, full, too long) checks the type
invariant, `OneOutstandingOperation`, `BuffersMatchRequest`, `EchoesRequests` and
`ListensAgain`: whatever fails, the server comes back to a receive.  Two datagrams
per client are enough for a second request to arrive at every point of the
handling of the first.  Several servers share nothing but the network; that is
proved (section 12), and `system_lossy` runs two.

**Finding** (`echo_server_intact`): the server does not always echo.  `memset` comes
after the next receive has been started (lines 87-92); a datagram received in
between is cleared and echoed as zeros.  This is why `EchoService` allows zeros.

Fairness (`FairSpec`): `io_service::run` keeps running ready handlers, and the
kernel completes each send and reports each pending error.  Nothing is assumed of
clients or network; a server with a receive in progress may wait for ever.

## 4. The client (`AsyncUdpClient`)

| variable | in udp_client.cpp |
|---|---|
| `script` | the calls of `send_message` main has not made yet |
| `posted` | `do_write` handlers in the queue of the `io_service` |
| `queue[c]` | `send_msg_queue_` |
| `tx[c]`, `sent[c]` | sends in progress; completed ones whose handler has not run, and whether they succeeded |
| `rx[c]`, `recvd[c]` | the same of receives |
| `data[c]`, `bodyLength[c]`, `endpoint[c]`, `open[c]` | `data_`, its length, `sender_endpoint_`, the socket |
| `shown[c]` | what `handle_receive_from` has printed |
| `fault` | undefined behaviour has happened; nothing is known afterwards |

All handlers run in one thread, after main has made its calls (`Running`).
`do_write` sends the bytes of its argument, which is destroyed when it returns,
rather than those of the copy in the queue: a send that had not copied its bytes
then sends garbage (`bytes = "freed"`).  Whether the stack copies at once is the
constant `CopiesEarly`; both cases are checked where it matters.  `pop_front` frees
the front, which a later send may be reading (`PopFrees`).  A closed socket
completes every operation in progress, and every later one, with an error.
Datagrams from anywhere (`Arrive`) reach a client's socket, which is not connected,
and overwrite `endpoint`, the destination of later sends.

Runs: `client_main` (main's script for two clients, one stray datagram of any of
three lengths: header only, with a body, too long) checks the type invariant and
`OneRequestEach`; `client_queue` puts three messages on one client and checks
`NothingStranded` and `SendingEnds`.  In these the header has 2 bytes and
the body at most 3, so that all boundaries of `body_length` and of the receive buffer
are met with numbers TLC can enumerate; one text is longer than a body may be.

**Finding** (`client_twice`): the comment "send success, remove from the queue" (line
156) does not hold once two messages are queued on one client: `do_write` starts a
send for the second although the handler of the first will send it again, so there
are three successful sends for two messages and the third pops an empty deque.
main sends one message on each client and never meets this; hence the premise
`UsedOnce` of `OneRequestEach`.

Fairness: main makes its calls, ready handlers run, sends complete, pending errors
are reported.  Receives need not complete.

## 5. Client and servers together (`AsyncEcho`)

The client module is extended and the server module instantiated with the
client's endpoints as its clients, on one `net`.  `Lossy` chooses between a network
that loses datagrams and fails sends, and one that does not.

`system_lossy` checks, with one message of ordinary length and one too long for the
server's buffer of 1024 bytes, that a client prints its own request only
(`ShowsOwnRequest`; garbage is allowed only if the stack does not copy at once),
that an exchange is in one place at a time (`OneExchange`), and that the clients
are an environment the server module assumes (`ServersServe`), so that all that is
shown of the server in isolation holds in the system.  `system_reliable` is main
itself, three clients and three servers with the real sizes: `run` returns and every
reply was printed (`RunReturns`).  No stray datagrams here: section 4 has them.

On a lossy network `run` may never return, as the receive has no timeout; that is
how the program is, and `RunReturns` is stated for the reliable one only.

## 6. The nanomsg pair (`NanomsgPair`)

Each node is at one of three places in `send_recv` or down; of the messages only
their number matters, as each is the sender's name.  `wire` and `inbox` are what the
library and the transport hold on the way to a node and ready for it: `nn_recv`
returns what is in the inbox, or times out when that is empty although messages
may be on the wire; `nn_send` waits for a peer and room on the wire.  Connections
break and nodes are killed and started again, `MaxBreaks` times, which loses what
was on the way.

`NoStandoff`: the two never wait for each other with every buffer full.  `KeepTalking`:
while both are up, each receives and sends for ever.  The run has room for two on
the wire and in the inbox, so that they fill separately, and three breaks.
Fairness: a running node goes on, the library connects and delivers; starting a
node, or killing it, is never forced.  There is no deadlock to exclude: TLC checks it.

## 7. The daytime server and its clients (`DaytimeUdpServer`)

| variable | in boost_udp_server.cpp |
|---|---|
| `rx`, `heard`, `failed` | the receive in progress; completed receives whose handler has not run, with a request or an error |
| `tx[c]`, `sent` | sends in progress to a client; completed sends whose handler has not run |
| `endpoint` | `remote_endpoint_` |
| `running` | `io_context::run` has not returned |

`OneShotClients` are the programs that send one byte to port 13 and wait for one
datagram; they may be interrupted, and an answer that finds its client gone makes
the server's next receive fail.  The server answers to `remote_endpoint_`, not to the
request it was called for, and starts the next receive at once.  The module shows
why that is right: `OneAnswerEach`, the exchange of a client is in one place only,
and nobody who has not asked is answered.  It holds because the send is
started, and its destination copied, before the receive; the mutant swaps the
two.  A request of any of three clients may meet up to two overlapping sends.

After an error the server starts no receive: it is deaf from then on
(`DeafForGood`), and ends when the sends it has started have (`DeafEnds`).  As long
as no datagram is lost and no call fails (`faulty`, a history variable), that does
not happen and every client is served (`AllServed`).  The run `daytime` has three
clients.  Fairness: clients go on, ready
handlers run, the kernel completes receives and sends.

## 8. The daytime servers on TCP (`DaytimeTcp`)

One module has both servers and their common client; `program` says which server
runs.

| variable | in the source |
|---|---|
| `accepting`, `accepted`, `refusal` | an `async_accept`, or `accept`, in progress; completed ones whose `handle_accept` has not run, with a connection or an error |
| `backlog` | connections the kernel has completed and nobody has accepted |
| `writing`, `left[c]` | connections held by a write, and the bytes it has not sent |
| `wire[c]`, `shown[c]` | bytes on the way; bytes ClientMain has printed |
| `closed` | connections of which the last `shared_ptr`, or the loop's socket, is gone |
| `broken`, `errors` | history: writes that failed; a bound |

A connection holds `Window` bytes, fewer than the message, so that a write is done
in pieces and a client that stops reading (`idle`) blocks it.  `handle_accept` is one
step: it starts the write, whose handler keeps the connection, and the next accept,
the latter also after an error.  The synchronous server accepts, writes and closes
in turn, ignores the error of a write, and ends when `accept` throws.

`WholeMessage`: who saw the end of its connection has printed all of the message, in
order.  `ServedAmongIdle`: the asynchronous server serves every client that reads
although others stop reading and accepts fail.  `ServedInTurn`: the synchronous one
serves every client that reads, whatever writes fail; who is not served was reset
after an accept had thrown (`refusal`), which ends the server, or waits behind a write to a client
that has stopped reading, and then that write lasts for ever.  That it needs these
two exceptions is the difference between the two.  The mutant leaves the loop, and
with it main, when a write fails: the clients that wait are then reset although no
accept has failed.  `OnePlace`: a connection is in one place at a time.

Fairness: ready handlers run, bytes that fit move, a client that is not idle reads.
Accepting is strongly fair per client: the kernel takes connections from the
backlog in the order in which they came, which the set `backlog` does not keep, and
an accept is not always in progress.

## 9. The WinSock programs on TCP (`FileSizes`, `WinSockTcp`)

`WinSockTcp` has the echo and the file size programs, which differ in what is sent
and in what `EndSend`, `Recv` and `EndReply` do (`system`).  `server` and `client` are
places in the two mains; `up[c]`, `down[c]` are the bytes of the two directions, and
`upEnd[c]`, `downEnd[c]` say whether their sender has shut down (`fin`) or the
connection was reset.  `recv` returns any part of what has come.  A server serves one
connection and closes its listening socket: those that wait behind it are reset, as
are connections closed with bytes unread (`Close`, `ResetLate`).  Any call may fail and
any program may be stopped.

`FileSizes`: the answer of both file size servers.  `Size` gives files sizes of up to
`IntRange` (standing for 2^32) and more; `AsInt` cuts and signs them as the cast to int
does, `Decimal` prints them.  `Told` is the promise, for files of any size: the
decimal digits, with their sign, of an int that differs from the size by a multiple of
`IntRange`, and -1 for no file.  More cannot be promised: a size of `IntRange` / 2 or
more is told wrong, and one that is cut to -1 cannot be told from no file.

`EchoComplete`: an echo client that was not told of an error has got back exactly
its text.  `ToldOfItsFile`: a file client has one whole answer, right for the name or
for the beginning of it that the server's only `recv` returned; the premise cannot be
stronger, which is the hazard.  `EveryoneEnds`: both sides end, unless the user names
no file: then the client sends nothing and both wait.  It depends on texts that fit
in the two directions and the server's buffer (`WinSockAssumption`), since the client
receives nothing before it has sent everything; "this is a test" does.

Run `tcp`: two clients, the second one being behind the first in the backlog;
`Window` 2 and `Buffer` 2 with texts of up to four bytes, so that every send and every
receive may be partial; one error of the daytime servers' own.

Fairness of WinSockTcp: a program goes on when its call can return, and late bytes
cause a reset.  Connecting, failing and being stopped are not forced.

## 10. Synchronous UDP (`OneShotClients`, `SyncUdp`, `RadioWire`, `SendUdp`)

`SyncUdp` has the five servers that receive and answer in one thread (`system`: hello,
phones, reverse, size, sink).  `buffer` is the server's array with what is left in
it; `text[c]`, `answer[c]`, `heard[c]` are what a client sent, was answered, and prints.
A datagram overlays the beginning of the buffer, and the servers mark its end or
not as the code does.  `overrun` is set when a byte past the buffer is written or read;
from then on the program may stop at any time (`Crash`).  A send may fail
(`ServeUnsent`), a receive may fail, also because of an earlier answer to a client
that is gone (`ReceiveFails`), and a datagram may not fit (`TooLong`); `Fail` says which
servers survive that.

Of the clients, all but the size client end when they cannot send or receive.  The
size client looks at neither result: after a `sendto` that failed it waits all the
same (`AskUnchecked`), and after a `recvfrom` that failed, by itself (`HearsNothing`) or
because the server has ended (`Unreachable`), it goes on and prints an empty size
(`Unheard`).

`RightAnswer`: each client prints the answer to its own datagram, whoever was served
before.  The phones client parses all 128 bytes of a buffer of which it received
fewer: the rest (`Junk`) is nothing, another phone, or no message.  The phones that
were sent come first; others may follow.  An empty size is printed only if something
failed or the server ended after the answer to another.  `SinkPrintsOwn`: the sink prints nothing of
an earlier datagram.  `EndsForCause`: a loop ends for an error, a datagram that is too
long or an overrun, and the sink's for none but the overrun.  `Served`: who waits is
answered unless something is lost or the server has ended.

`RadioWire` models the generated code of `radio.proto` on bytes: `SerializePhone`,
`PhoneSize`, `ParsePhone` and the same for the list, with fields of default value left
out, unknown fields skipped, repeated ones overwritten, and what a failure leaves in
the message.  Varints, strings and nested messages are the library's and are
modelled as far as they are met.  It uses recursive functions, and keeps one operator
per intermediate result, since TLC's statistics visit a LET definition once for each
of its uses.

`SendUdp` has the two threads of SendUDP.cpp.  main sleeps before each send; as
nothing orders the sleep after the bind, the threads run at any speed here.
`AllPrinted`: if main returns and no receive failed, all datagrams were printed.
`WaitsForMissed` and `JoinReturns`: `join` returns unless a datagram was lost or sent too
early, and then it may wait for ever.

Run `udp`: two clients; texts that are empty, short, as long as the buffer of 4, too
long, and with a 0 inside; one list of two phones with a field of default value and
a time of two bytes; three fillings of the fresh buffer.  Three datagrams for
SendUdp as in main.  Two clients are enough for one to leave its text in the buffer
of the other.  Fairness: the server takes what waits for it, each client's in its
turn, and a client hears its answer; both threads of SendUDP go on.

## 11. Files and databases (`PhoneFile`, `MySqlTable`)

`PhoneFile`: runs of the writer, one after the other, and a reader beside them.  `disk` is
the file; `todo` has the lists this run has still to write (`AddToPhoneList` writes the
whole list again for each phone); `unwritten` what of the current one is not in the
file; `got` what the reader has read.  Opening empties the file and writing is done in
blocks, so that a reader meets every intermediate state.  Writes fail, in
the stream's destructor without notice, and a run may crash anywhere.

`RoundTrip`: each list that is written is read as it was, and computed sizes are those
of the bytes.  `ShowsWhatWasWritten`: a reader that reports no failure prints a prefix
of the list of one run, unless another run began in the middle (`torn`).  The
prefix may be shorter than the list, also empty: an empty file is a list.  `DiskHasList`:
after a run that ended well the file has its whole list, whatever was there.

`MySqlTable`: any number of the programs that change the database.  CompleteExample2
and SimpleExample drop, create and fill the same table, with different columns;
GitHubSample empties and fills a collection.  `Statements` lists what each executes;
`step[p]` is its place in that list, and between two statements those of others
come.  A statement whose table is gone or has other columns throws (`Fits`).

`OneSucceeds`: when all have ended and no connection was lost, one program of the table
has succeeded, however they got in each other's way.  `MakerShowsAll`: who made the
table that is there has seen all its own rows.  `OneRunFound`: two runs of GitHubSample do
not mix.  This is due to the one document with an `_id` of its own: adding it twice
fails; the mutant without it breaks the property.

Run `stores`: two runs of the writer, with lists of one and two phones and blocks of 8
bytes, fewer than a phone has; three programs, so that one creates the table
while another has dropped it and a third is about to use it, with 3 rows instead of
10.  Programs that run the same are interchangeable (symmetry; safety only).

## 12. What is proved

All for every value of the constants that satisfies the module's assumption.

`UdpEchoServerProofs`: `TypeOK`, `OneOutstandingOperation`, `BuffersMatchRequest`, and
that the server implements `EchoService` (`Refinement`).  The first three are
inductive together (`IInv`): that there is one operation is what makes the buffer
the request's, because a receive cannot complete while anything else is going on.
The refinement maps each step: a receive takes the request; a handler that finds
an error drops it and one that does not keeps it; a send that leaves answers
it, one that fails drops it.

`AsyncEchoProofs`, of the client: `TypeOK` and `NothingStranded` (`NeverStranded`) for any script.
`NothingStranded` is not inductive; `EachHasASend`, that an open client has at least as
many sends, in progress or completed, as queued messages, is.  `OneRequestEach`
(`OneRequest`) needs more (`Once`): calls not yet
made are for different clients, a client whose call is not yet made is untouched,
and every client has at most one queued message, at least as many messages as
sends, and a count that with the sends in progress never exceeds one.  Under it
`pop_front` always finds its message.  A datagram carries one of the texts, garbage,
or something `Foreign`.

`AsyncEchoProofs`, of the clients and servers together, each used as main uses it (`UsedOnce`:
one message per client).  The client's invariants hold because its part of every
step is a step of `AsyncUdpClient`, and the server's (by an instance of
`UdpEchoServerProofs`) because the environment is what it assumes: `ServersServe`
(`ServersServed`), which in turn rests on the client sending one request at most.  So
`EchoesRequests` holds in the system (`SystemEchoes`).  What is added is `Flow`: the
exchange of each client is at exactly one stage - the call, the send, the request
on the way, held by the server, the answer on the way, received, printed - or, if
something may fail, nowhere any more.  `OneExchange` follows (`ExchangedOnce`), with the
hypothesis that either the network may lose datagrams or every message is one that
a server answers (`Fits`), which main's are: a server drops an empty or an overlong
one also on a reliable network.  `ShowsOwnRequest` (`ShownIsOwn`) needs `Content`: what
is sent, held and answered in that exchange are the bytes the client was given,
or garbage if the stack copies late; and the server clears its buffer when its
only client is done with it.  The hypothesis `OwnServers`, a server per client, is
main's: the three ports are different (`udp_client.cpp:214-216`).  With two clients
on one server the early receive of section 3 would show zeros.

`NanomsgPairProofs`: `TypeOK` and `NoStandoff`.  The invariant bounds the messages on the way plus
the nodes about to send by twice the wire, one inbox and two: only a timeout adds
to them, and then one inbox is empty.  Both nodes blocked would need one inbox more.

`DaytimeUdpServerProofs`: `TypeOK`, `OneAnswerEach` and `DeafForGood`.  The invariant adds
`OneReceive`: of a receive in progress, a request not yet handled and an error not
yet handled there is at most one, and the request is from `remote_endpoint_`.

`TcpProofs`, of the daytime servers: `TypeOK`, `OnePlace` and `WholeMessage`, for any
message and window.  The
invariant (`Bytes`) says that of a connection without a failed write what is printed,
on the way and left to write is the message in this order; that a connection not
yet written to has none of the three, and a closed one nothing left to write.  A step moves
bytes from the front of one part to the end of the next (`CutLeft`, `CutRight`).
`OneByOne` is what the synchronous loop adds: it accepts only when it writes to nobody.

`TcpProofs`, of the WinSock programs: `TypeOK`, `EchoComplete` and `ToldOfItsFile`, for any
texts, window and buffer.  The invariant (`TcpInv`) fixes where each program is when
a direction has ended (`ServerPlace`, `ClientPlace`), and where the bytes are
(`PartyBytes`): in the echo system what the client has read, what is on the way back,
what the server holds, what is on the way to it and what is not sent yet is the
text in this order (`Echoed`); in the file system a connection is `Untaken` until
the server's only `recv`, and from then on what is read, on the way and held is one
answer, right for the part that `recv` returned (`Answered`, `FileTold`).  A client that
closes without an error has all of it, since the server ends its direction only
with nothing left.

`UdpProofs`, of the servers that answer in one thread: the type invariant,
`EndsForCause`, `SinkPrintsOwn` and `RightAnswer`, for any texts, lists and buffer.  The
first three are inductive with `OneEach`: of a client at most one datagram is on its
way, hers or the answer to it, and a client that is done left none behind unless
something failed.  `RightAnswer` adds `Answers`, that what is on the way to a
client is the right answer, and `Unserved`, that as long as nothing has failed who
still asks for a size was not answered, and the server ends only with an answer to
someone: an empty size means a failure or that answer.  It rests on lemmas about the
int that a size is told as (`Remainder`, `TellsSize`) and about the buffers: a text that is
overlaid on what an earlier datagram left, and ended by a 0 at its length, is read
back up to its own end (`Overlaid`, `MarksEnd`, `ReadsText`).  What the phones client
reads begins with the phones that were sent (`PhonesReadable`), by `ReadFirst` of
`WireProofs`: its buffer of 128 bytes begins with the bytes of the list.

`UdpProofs`, of SendUDP: `TypeOK`, `AllPrinted` and `WaitsForMissed`, for any number of datagrams.  The
invariant balances what was sent against what is printed, waits and was
missed, and the count against what is printed (`SendBooks`), and orders the two
threads (`SendThreads`).

`StoresProofs`, of the table: `TypeOK`, `OneSucceeds`, `MakerShowsAll` and `OneRunFound`,
for any number of programs and rows.  From the
first DROP on, either the table is there and one of the programs has made it, or one of them
is about to make it (`OneMaker`); and who has made the table that is there has its
CREATE behind it and has not failed (`Made`), since the columns are those it
names.  That only the second statement is a CREATE, and how many rows come before
each, are lemmas on the lists of statements (`CompleteSteps`, `SimpleSteps`).
`MakerShowsAll` adds that a program's count follows from its place (`Counted`) and
that in the table it made are its rows up to that count (`Filled`): it can have
inserted none into a table of another and then find its own.  `OneRun`: the documents
are those of one run, or none.

`WireProofs`, what is read of the bytes that `RadioWire` writes, for any list of phones,
of any fields and lengths.  Three facts, from which the properties of the file and of
the phones client follow:

- `ListRead` and `ListSizeIs`: a list is read from its bytes as it was, and the sizes
  that are computed before writing are those of the bytes;
- `WholeOrCut`: of the bytes that a cut leaves, either the parser reports that they are
  no message, or what it reads is some first phones of the list (`Leads`): the cut
  was between two phones;
- `ReadFirst`: of bytes that begin with those of a list and go on in any way, the phones
  that are read begin with that list, whether the rest can be read or not.

The argument follows the parser.  A varint ends at its first byte below 128, and is
read as it was written (`VarintForm`, `VarintRead`); a field that stands somewhere in the
bytes is read as one field, and what comes after it is read from the place behind it
(`NumberRead`, `BytesRead`); so a phone's six parts are read in turn, those of value 0
being absent, and each sets its field (`PhonePlaces`, `PartSteps`, `PhoneRead`).  The phones
of a list are read one by one whatever follows the last of them (`ListBegins`), and a
field of which bytes are missing makes the parser fail (`CutFails`).

`StoresProofs`, of the file: `RoundTrip` (`ListsReadBack`), `DiskHasList` (`WholeOnDisk`) and
`ShowsWhatWasWritten` (`ShownWasWritten`), for any lists, any number of bytes that one
write or read passes, and any number of runs.  The properties speak of runs that have
ended; the invariant `FileIInv` says what holds in between.  `Plan`: each list still to be
written is the first phones of the run's list, and the last is all of it.  `File`: the file
has the beginning of what the run that emptied it writes, although that run may have
crashed or failed anywhere, and what is in the file together with what is not
written yet is the list underway, unless a write failed.  `Reading`: what was read is
the beginning of what one run writes, as long as no other has emptied the file.
A run that empties the file for its next list does not mislead a reader, since
the bytes of that list begin with, or are the beginning of, those read before (`Leads`).

Varints and parsers are recursive functions, numbers are written by one, streams
joined by another, and a fold is one over sets.
The library's induction theorems take an operator and cannot be instantiated
here, so the lemmas about them (`Recursion`, `IteratesAll`, `FieldsRead`, `DigitsWrite`,
`FlattenAppend` and others) argue by
the least number at which a claim fails (`HasLeast`), the existence of the recursive
function included.

Assumed: the assumptions of constants named in the modules (disjoint sets of
endpoints, a buffer of at least one byte, an int of at least two values, and the
like), which TLC evaluates in every run.

Only model-checked: liveness (`ListensAgain`, `SendingEnds`, `RunReturns`,
`KeepTalking`, `DeafEnds`, `AllServed`, `ServedAmongIdle`, `ServedInTurn`, `EveryoneEnds`,
`Served`, `JoinReturns`), which is out of the prover's reach.  Every safety invariant and
action property that a run expects to hold is proved.  The type invariant of
`PhoneFile` is stated for the reader, and is neither proved nor checked by a run; what
the proofs need of it is `FileTypes`.

## 13. Bounds and what is not modelled

Bounds appear in guards under the names `MaxSends`, `MaxStray`, `MaxBreaks`, `MaxErrors` and
`MaxRuns`; the lengths, contents and scripts are the sets in the MC modules and
configurations.  Deadlock checking is off where the program may really stop or
wait: a server with no more clients, a client whose reply is lost, programs that
have ended.  It is on for the pair, which never stops.

Not modelled in the modules here: printing (`show_hex`, `show_str`, hex dumps),
exceptions in constructors (an unresolvable name, a port in use), which end the
program before it does anything, and the bytes of headers and texts, which no
property tells apart beyond their identity and length.

Parts without a module, or with only some of it:

- the HTTP client of the WinSock samples appends to a buffer that is never
  initialised: nothing can be said of it after its first answer;
- `messages.cpp` is compiled into no program; `udp_client.cpp` has the same class,
  which is modelled there, and `decode_header` is called by none;
- the nanomsg hello programs send one message to themselves in one thread;
- the MySQL programs that run one SELECT or CALL change nothing of their own;
- `UDP_protobuf_client.cpp` does not compile as committed: a variable is not declared
  (line 184); its server is the sink of `SyncUdp`;
- `list_people.cc` reads another message, whose generated code is not in the
  repository, with the program of `read_protobuf_data.cpp`;
- the burst types and the static library keep no state, and unit tests of their
  functions would say all there is to say;
- of the six identical copies of the generated code one is modelled (`RadioWire`),
  and of it what the programs use: no reflection, merging, swapping, arenas or
  accessors beyond the fields.  These copies are three fifths of the lines of the
  repository, which is why little of it is covered counted in lines.
