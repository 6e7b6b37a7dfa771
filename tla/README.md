# Verification of luvit

luvit runs Lua programs on libuv: C bindings (`src/src`) wrap libuv's handles
and requests as Lua userdata, and a Lua library (`src/lib/luvit`) builds
emitters, timers, sockets, TLS, HTTP, files and processes on top of them.
Everything runs on one thread. The hard part is not parallelism but
re-entrancy: a libuv callback calls Lua, Lua calls back into the same object,
and only then does the C function or the Lua handler go on with what it read
before.

This directory holds TLA+ models of the parts that carry that logic, the TLC
configurations that check them on small instances, and proofs for TLAPS.
`PROJECT.json` maps every definition to the source lines it stands for, lists
the hazards the properties are aimed at, and gives for every property a mutant
(a plausible bug) that violates it.

To repeat the checks, in this directory:

    tlc -workers 2 -config LuvStream.cfg LuvStream      # and the other runs below
    tlapm LuvStreamProofs.tla                           # and the other *Proofs modules

## The system: components, state, interactions

| Component | Source | State | Operations | Hard behaviour | What makes it correct | Module |
|---|---|---|---|---|---|---|
| Handle lifetime | `utils.c`, `utils.h`, `luv_handle.c`, `luv.c` | `luv_handle_t`: reference count, registry anchor, coroutine reference, native handle | create, ref, unref, get_lua, close, gc | Lua runs between a callback's start and its `luv_handle_unref`; the collector | no assert fails, nothing is freed while libuv may call back | LuvHandle, LuvStream, LuvWatch |
| Streams | `luv_stream.c`, `luv_tcp.c`, `luv_pipe.c`, `luv_tty.c`, `uv.lua` | pending connect, writes, shutdown, reading, listening, closing | connect, bind, listen, readStart/Stop, write, shutdown, close and their callbacks | calls inside callbacks, failed requests, close with requests pending | a reference for everything outstanding; every close ends | LuvStream |
| Other handles | `luv_udp.c`, `luv_timer.c`, `luv_process.c`, `luv_signal.c`, `luv_fs_watcher.c` | started, armed, datagrams queued, closing | start, stop, again, send, spawn, kill, close and their callbacks | each type has a reference discipline of its own | every reference accounted for, a closed handle is freed | LuvWatch |
| Emitter | `core.lua` | a table of listeners per event, with holes | on, once, emit, removeListener, missingHandlerType | listeners that add, remove and emit while `ipairs` walks the table; `#t` of a table with holes | no listener lost or doubled; an emission ends once its listeners register no more | Emitter |
| Timer lists | `timer.lua`, `luv_timer.c` | one circular list and native timer per duration | setTimeout, clearTimer, enroll, active, unenroll, expiration | callbacks change the list that expiration walks, close it, make another | every item fires in time and in order, no list left without a timer | Timers, TimersLinked |
| net.Socket | `net.lua` | `_handle`, `destroyed`, `_connecting`, `_connectQueue`, `_pendingWriteRequests`, idle timer | connect, write, done, destroy, pause, resume, setTimeout | lookup, connect, write callbacks and idle timeout racing destroy and done | order of data, one "close", drain follows, no use after destroy | NetSocket |
| HTTP server | `http.lua` (Response, onClient), `lhttp_parser.c` | a Response per request, the parser's state, the shared socket | writeHead, write, finish, destroy, parser callbacks, client end/error/close | pipelined requests, calls from inside `parser:execute`, the client's end, which destroys the socket | framing as announced, every request ends, the last response closes | HttpServer |
| HTTP client | `http.lua` (ClientRequest, OutgoingMessage, IncomingMessage), `lhttp_parser.c` | output kept, headers being parsed, the socket's phase | write, done, destroy, parser callbacks, socket events | every failure at every stage; tokens cut by the end of a chunk | framed request, own headers, nothing after "close" | HttpClient |
| TLS connection | `tls.lua`, `luv_tls_conn.c`, iStream:pipe of `core.lua` | two CryptoStreams with pending queues, the SSL engine's BIOs, the call stack | write, push, pull, cycle, done, pause, resume, destroy | `cycle` re-enters itself through every handler | nothing lost, reordered or stuck, no use after destroy | SecurePair |
| TLS contexts | `luv_tls.c`, `luv_tls_conn.c` | SSL_CTX, certificate stores, the shared root store | setKey, setCert, addCACert, addCRL, addRootCerts, connect, SNI, close, gc | who owns a store; contexts closed under connections, connections moved between them | no use after free, no leak, contexts isolated | SecureContext |
| dns | `luv_dns.c`, `tree.h`, `dns.lua` | c-ares sockets, tasks in a red-black tree, one timer, queries | query, lookup, the c-ares and libuv callbacks | sockets opened and closed inside `ares_process_fd` | tree sorted and balanced, timer exactly while needed, queries end | DnsAres, RbTree |
| Registry slots | `luv_fs.c`, `utils.c`, `lyajl.c`, `luv_tls_conn.c`, `luv_dns.c` | slots of the Lua registry and their free list; file requests, DNS queries, JSON parsers and generators, SNI callbacks | file operations, queries, parse, complete, generate, server name | slots given up and taken again by others while Lua runs in a callback or in a parser's handlers | no slot shared, none lost by a queued request | LuvRegistry |
| fs streams, dgram, child process, fiber, process signals | `fs.lua`, `dgram.lua`, `childprocess.lua`, `fiber.lua`, `luvit.lua` | offsets; bind state; output collected; waiting coroutine; watchers by name | see the sources | short writes, events in either order | each completes once | native part only (LuvWatch, LuvRegistry) |
| zlib | `luv_zlib.c`, `zlib.lua` | the z_stream, the write in progress | write, done, close | a loop that goes by the input while the output has a bound; handlers that write again | no output dropped, writes return, nothing after "end" | Zlib |
| Debugger | `luv_debug.c` | linked list of breakpoints, the line hook, consoles inside each other | break, clear, clearall, trace, chunks, hooks | chunks that open consoles and reach breakpoints; unlinking during a walk | list as commanded, Lua stack balanced | Debugger |
| Environment | `lenv.c`, `luvit.lua` | the C library's array of strings | get, set, put, unset, keys, pairs | walks whose body changes the array; strings the array does not own | reads are current, walks are complete | Environ |
| Module loader, stack, path, url, querystring, buffer, REPL | Lua library | cache; layer chain; none | require; handle; pure functions | boundaries | equal to a reference definition | left out, see below |

The components meet in four ways. C calls Lua through `luv_emit_event` and
callbacks; Lua calls C through methods on the userdata; Lua objects call one
another through emitters, synchronously; and `process.nextTick` and the timers
defer to the loop. `net.Socket` sits on a stream, an emitter and an idle timer;
HTTP server and client sit on a socket and add a parser that calls back in the
middle of a "data" event; a secure pair is piped to and from a socket. All the
bindings that keep a Lua callback share the one registry.

## Modules and how they follow the code

**LuvHandle** has the struct `luv_handle_t` as a record and the functions of
`utils.c` on it as operators: `luv_handle_ref`, `luv_handle_unref`, the release
loop of `luv_on_close`, and for each the condition under which its assert fails.

**LuvStream** is one TCP socket, pipe or terminal (`Tty` of `uv.lua` is a Stream). Every C function Lua can call is an
action; a function of libuv that calls back is two, because the Lua code in
between may do anything: the first (`luv_after_write`, `luv_on_read`, ...) sets
`frame`, and `ReturnPlain`, `ReturnRequest` or `ReturnClose` is what the C
function does after Lua has returned. `luv_listen` has its own split, since it
emits "listening" before it takes its reference. libuv is external: a queued
request completes once, a write or a shutdown may be refused, `uv_close` cancels
what is pending before `luv_on_close` runs. Five things the C code takes for
granted and does not check set `misused` (an unpaired readStop, a call on a
closed handle, using a terminal whose init failed, dropping an open handle,
connecting a pipe); the properties say what holds until then. The functions that
bind, set options or ask for addresses and modes change nothing the model keeps and
are left out.

**LuvWatch** is one handle of the five types that are not streams, on the same
operators of LuvHandle. `kind` chooses the type; each call and callback is
guarded by it, so the five disciplines stand side by side: a timer pairs start
with stop, a signal watcher never gives its references up, a process holds one
until it exits, a file watcher one from birth. Here too `misused` marks the calls
the C code neither checks nor survives: a stop without its start, `again` on a
timer whose reference is gone, starting a closing handle, a call after the
"close" event, using a file watcher whose init failed, dropping one that is open.

**Emitter** is one event name. `table` is the Lua table with its holes, and
where the code asks for `#t` the model takes any border Lua may answer. `stack`
holds the emissions in progress, so that listeners may register, remove and emit
at every point of a loop.

**Timers** writes each list as a sequence, oldest item first, and keeps time
relative (ages and time left), so no clock has to be bounded. **TimersLinked**
has the circular links, the list objects and their native timers as in the code,
including `expiration` walking a list object that was closed under it.
`ImplementsTimers` says that the second implements the first, with each sequence
read off the links along `_idlePrev`. **MCTimers** and **MCTimersLinked** give the durations and
the symmetry.

**NetSocket** is a client socket. The dns lookup, the native handle and its
write queue are external and completed in every order libuv allows. The two
listeners on the native "connect" event, and "end" followed by `done`, are
separate steps, because the program's own listeners run in between.

**HttpServer** is one connection of `http.createServer`. `executing` is
true while `parser:execute` is on the C stack; the program may use a response
there or later. setCode, setHeader, addHeader and unsetHeader are folded into
the call that sends the head (nothing can observe them before). `Server:listen` of
`net.lua` gives an accepted socket a listener for "end" that destroys it before
http's own listener runs, so the client's end destroys the socket at once; "error"
also comes after a destroy, from the writes it cancelled. The wire names the
latest response and has the sequence of its pieces (100 Continue, head, chunk, raw
data, last chunk). Pipelined requests arrive whenever the parser accepts them; the
program answers them in turn, because `Response:write` writes to the shared
socket without regard to the other responses. An automatic "continue" can still
fall into an earlier response: `outOfTurn` notes it.

**HttpClient** is one `http.request` with its socket, from the lookup to "close".
The pieces on the wire carry the size announced and the size they have, since
`http.lua` writes the size with `tonumber(len, 16)`: `tonumber16` is that
conversion. `http_parser` calls back for as much of a token as a chunk holds, so
a field or a value may come whole or as a "first" part and a "rest".

**RbTree** is the tree that `RB_GENERATE` of `tree.h` makes: insertion and removal
with their colour fix-ups, rotation, min and next, on a tree value with parent
pointers and colours; the mirrored halves of the macros are one operator with a
side. **DnsAres** keeps the c-ares tasks in it. `ares_process_fd` is external:
while it runs it opens, watches and closes sockets in any order and answers
queries; each call of `ares_sockstate_cb` is an action with the whole body of the
code's function. The second half are the query and lookup callbacks and what each
leaves on the Lua stack of `luv_run`; a query for a bad address (`getHostByAddr`)
is refused and its reference lost.

**LuvRegistry** has the registry as `luaL_ref` sees it, a sequence of slots with
the free list threaded through them, and the five users of it. A file request that
is complete gives up its slots and then calls Lua (`running`), whose calls may take
the same slots; a DNS query with a callback owns one slot until it is answered, one
without gives up slot 0. Handlers of a parser run inside `yajl_parse` and
`yajl_complete_parse` (`parsing`, a stack, since a handler may parse with this or
another parser) and may call everything again. `abused` marks completing a parser twice, parsing on after it, asking a
generator with a print callback for its buffer, and a second or unexpected server
name.

**SecureContext** counts the references of every X509_STORE. `sc[c].store` is the
store OpenSSL verifies with, `sc[c].ca` luvit's own pointer to it; `root` is the
store all contexts share and none owns. Connections keep the SSL_CTX after the
context is gone, and the SNI callback may move one to the SSL_CTX of another context
(`SSL_set_SSL_CTX`). `mishandled` marks addRootCerts on a context that has the root store,
addCRL without a store, calls on a closed context, and closing a context with the
root store under its connections.

**SecurePair** has the call stack of `tls.lua` as state, innermost frame first,
because every handler runs inside the method that emitted and may call the pair
again. The locks of `cycle` are not variables: a lock is held exactly while a frame
of the locked method is on the stack. The engine is external: flights of the
handshake, data, close notify and alerts go through its two BIOs, and a write is
refused until the handshake is over. The socket and its pipes are part of the module:
`iStream:pipe` writes whatever arrives into the encrypted stream, also after the pair
was destroyed; it resumes, and so cycles, on every drain; `didOnEnd` lets only the
first of "end" and "close" through. The program's destroy of the cleartext stream
destroys the socket and reaches the pair by the socket's later "close"; its destroy of
the encrypted stream (`cleartext.encrypted`) reaches it at once. A pause or resume that
finds a destroyed socket without a handle is recorded in `net.raised`.
getSession and getCipher (`tls.lua:198-206`), which use `ssl` without looking whether
it is there, are not modelled.

**Zlib** counts input and output in units. A call of `inflate` or `deflate` is any
outcome zlib's rules allow (`filter`): it takes input, comes to know output, and gives
of it what fits; the loop around it, the error that drops the output before it, and
the events of `Zlib:write` with handlers that write, end and close are the code's.

**Debugger** has the `breakpoint_t` on a small heap, so that a freed one that is still
linked is seen, and the consoles as a stack, each with what it has on the Lua stack.
Lua is external: it calls the hook on any line while no hook runs.

**Environ** has the array of the C library with, for each entry, whether its memory is
a Lua string (`putenv` keeps the pointer, `setenv` copies). `stale` marks the read of
a collected one. The walk of `process.env` is several steps.

## Runs

`MaxX` constants are bounds; each bounds how often something is called, never what
may happen then. Most properties are conjunctions of named parts, given in
brackets; `T` stands for the module's type invariant.

| Run | Instance | Invariants | Action and liveness properties |
|---|---|---|---|
| `stream` | 2 pending writes, 2 unstopped reads, 5 references | `NoFaultUnlessMisused`, `RefsCoverOutstanding`, `AnchoredWhileActive` | `CloseCompletes` |
| `watch` | all 5 kinds, 2 starts, 2 datagrams queued, 1 refused | `NoFaultUnlessMisused`, `RefsSound` (T, `RefsAccounted`, `AnchoredWhileActive`) | `ClosedIsCollected` |
| `timers` | 2 timeouts, 1 idle object, durations 1, 2 and 3, time in steps of 1 or 2 | `ListsSound` (T, `InItsOwnList`, `OldestFirst`, `NoEmptyListLeft`, `TimerCoversOldest`), `NeverOverdue` | `TimeoutsFire`, `ExpirationEnds` |
| `timers_linked` | the same with durations 1 and 3 and 3 list objects | `LinksSound` (T, `WellLinked`, `ClosedListIdle`) | the refinement `ImplementsTimers` |
| `socket` (MCNet) | 3 calls of write; 3 registrations, emissions nested 2 deep, 3 in all | `SocketSound` (T, `WritesInOrder`, `PendingMatchesQueue`, `DoneFlushes`, `CloseOnce`), `ListenersKept` (T, `NoListenerLost`), `EachListenerOnce` (`AtMostOncePerEmission`, `QuietEmissionReachesAll`) | `DestroyedTimerOff`, `DrainFollows`, `SocketsEnd` (`DestroyCompletes`, `DoneDestroys`), `EmissionsEnd` |
| `http` | 2 requests, 1 header chosen by the program, 1 write besides finish | `WellFramed`, `RequestsSound` (T, `RequestsEnd`) | `LastResponseCloses` |
| `http_client` | chunks of length 9 and 10, 1 write besides done, 2 messages, 1 field | `RequestSound` (T, `RequestFramed`, `FinishMeansSent`, `HeadIsOwn`) | `QuietAfterClose`, `ServerEndCloses` |
| `tls` (MCTls) | 2 chunks written, 1 from the peer, high water mark 2, 1 call of done, pause or destroy; 2 contexts, 1 certificate, 3 stores, 1 connection each | `DeliveredInOrder` (T, `NothingLost`, `SentInOrder`, `ReceivedInOrder`, `NoUseAfterDestroy`), `NoLostWakeUp` (`NothingStuck`, `NoMissedDrain`), `FlushedBeforeDone`; `ContextsSound` (T, `StoresSound`: `StoresAlive`, `FreedOnce`; `NothingLeaked`: `StoresFreed`, `PeersFreed`; `TrustSound`: `AddedIsTrusted`, `ContextsIsolated`, `NoCutChain`) | |
| `dns` | 6 sockets, 1 query, 1 watcher being closed | `TasksSorted`, `TasksFollowSockets` (T, `SocketsWatched`, `TimerWhileTasks`, `AssertsHold`) | `QueriesEnd` |
| `registry` | read and write; 2 requests or queries, 2 parsers nested 2 deep, 1 generator, 1 connection, 3 slots | `CallbacksSound` (`RefsUnshared`, `OwnCallbacksOnly`), `FreeSlotsSound` (T, `FreeListSound`, `RequestsLeaveNothing`) | |
| `bindings` (MCBindings) | debugger: 2 sources of 1 line, 3 breakpoints, 3 consoles, 5 commands, 2 results; zlib: chunks of 3 units, streams of 4, buffers of 2, 3 units of output per call, 3 writes; environment: 3 names, 2 values, 4 calls | `BreakpointsSound` (T, `ListSound`, `HookNeeded`), `ConsolesBalanced`, `StreamSound` (T, `OutputConserved`, `NoDataAfterEnd`), `EnvironSound` (T, `ReadsCurrent`, `WalksSound`) | `WritesEnd` |

Parts that do not meet share a run where one fits into it: MCNet, MCTls and MCBindings
extend modules that have no variable in common, and `part` says which of them a
behaviour is of while the others stay in their initial state. Their names are kept
apart by a prefix (`EmitterSpec`, `ContextSpec`, `PairSpec`, `ZlibSpec`, ...).

One more run checks what comments of `http.lua` say of a response against the code, and
TLC refutes it: `http_self_defined` has `SelfDefined` (`EmptyHasNoBody`,
`LengthAnnounced`). A 204 or 304 response is sent with the body the program writes
(`http.lua:911`), and finish() without a body on a kept connection announces neither a
length nor chunks (`http.lua:1130`); `findings` of `PROJECT.json` has the sentences.

What they show together: while a program keeps to what the C code assumes of it,
no interleaving of calls, callbacks and the collector makes an assert fail, frees
what libuv or OpenSSL still uses, or mixes up two callbacks; the Lua library loses
and reorders no listener, timeout or data within the limits each property states;
and what was closed, ended, asked or armed comes to an end, under the conditions each
liveness property names.

Why the bounds are enough. Two writes and two reads already give every overlap
of a finished, a pending and a failed request with a callback in progress, and
the proofs below remove the bound. For the other handles two starts and two
datagrams are the least for one to be undone while the other counts. Three
listeners are the least for a hole with a listener on either side; nesting of two
is the least for an inner emission to close a hole under an outer one. Two timeouts
and an idle object with two durations are the least for a list that empties, closes
and comes back while the other list waits; 1 is the duration for which the rule of one
millisecond never finds an item too young. Three list objects are as many as two
durations and one walked, closed list can use at a time. Three chunks let one be on
the wire, one in libuv's queue and one in `_connectQueue`. Two requests are the
least for one response to follow, or wait for, another; two messages of a server
are an interim and a final one; 9 and 10 are the two sides of the place where the
decimal and the hexadecimal size differ. Six keys reach every case of a
step of the tree's removal (a black sibling, a red one, nephews of either colour, on
both sides); that the fix-up goes on above a black node which is not the root takes
seven black nodes and is beyond the bound. Two writes of two slots each need more than
the three slots, so that every user gets a slot somebody has given up; two parsers
nested two deep are the least for a handler to parse with its own parser and with
another. Two contexts are the least to share the
root store, and three stores let each have one of its own besides it. Two chunks
are the least to be reordered and reach the high water mark. Buffers of two units and
outputs of three make a buffer overflow with input left and without. Three breakpoints
have a first, a middle and a last one; three consoles are one by a call, one by a hook
and one inside either.

`CHECK_DEADLOCK FALSE` is set everywhere: a program may simply stop calling.

## Observations

Places where the code does something a sentence of the repository, or a reader,
would not expect. The properties of the passing runs are stated so that they hold
beside these; each was met while modelling and is in the models as the code has it,
or left out where noted.

Against a sentence of the repository:

- `luv_stream.c:191`: readStop gives up a reference whether or not a read was
  started, so a second pause can meet `utils.c:255`, "assert(lhandle->refCount >= 0);"
 . `api.markdown:181` says only "Pauses the reading of data."
- `utils.c:259`: the coroutine is released the first time the count is zero;
  `utils.h:64`: "we release the reference when handle closed."
- `core.lua:212`: a removed listener leaves a hole and the next emission stops
  there; `core.lua:200`: "Emit a named event to all listeners". After the last "error"
  listener is removed an "error" event is dropped silently, against `core.lua:148`.
- `net.lua:218`: destroy in a connect listener, and the second native listener calls
  a method of nil; `api.markdown:152`: "Ensures that no more I/O activity happens on
  this socket." connect on a closed socket uses a nil handle, though
  `api.markdown:140` names that use.
- `http.lua:1035`: finish() without a body on a kept connection sends neither length
  nor chunked encoding; `http.lua:1130`: "all messages on the connection MUST have a
  self-defined message length" (run `http_self_defined`). `http.lua:1010`: a 204 or 304 response
  takes a body from write or finish, against `http.lua:911` (the same run).
- `http.lua:1217`: the close listener calls `parser:finish`, which raises inside a
  message; `errors.markdown:4`: "They should either be handed to the callback or
  emitted as error."
- `luv_dns.c:304`: the error of a failed lookup is looked for at an absolute stack
  index and lost, against `errors.markdown:10`. After a task that could not be
  created (`luv_dns.c:149`) the timer runs over an empty tree and an assert fails at
  the next close or timeout, against the comment that follows it;
  `AssertsHold`, `SocketsWatched`, `TimerWhileTasks` and `QueriesEnd` exclude that one
  failure.
- `luv_debug.c:170`: clear of the breakpoint that was set last follows a null pointer,
  though `README.markdown:113` names the command; `luv_debug.c:204` takes the result of
  strcmp for equality, so a breakpoint stops in every source but the one it names.
- `luv_zlib.c:58`: a finished stream may still hold output that did not fit into the
  last buffer; `test-zlib.lua:39` asserts the whole of it, for outputs smaller than one.

Handles: `luv_pipe_connect` takes no reference; `again` starts a stopped timer without
one; the result of `uv_fs_event_init` is ignored; stop of a signal watcher gives
nothing up; a refused datagram keeps its reference until close.

Emitter and HTTP server: removeListener and the wrapper of once start at `#t` and may
miss a listener behind a hole; a listener that registers another for the same event
whenever one is called keeps its emission going for ever, since `ipairs` goes on to what
was appended; the client's end destroys an accepted socket before http's listener sees
it, so a response in progress is cut off; the callback
of `Response:finish` is never called; nobody destroys a server socket after ECONNRESET;
of a URL cut by the end of a chunk only the rest is kept.

Timers: for a duration of 1, which setTimeout(0) and nextTick use, no item is ever too
young (`timer.lua:77`), so a callback that arms itself again keeps the expiration that
called it going and the loop never continues (`Starved`).

HTTP client: chunk sizes are wrong from ten on (`http.lua:427`, `http.lua:477`); of a
field or value cut by the end of a chunk only the rest is kept (`http.lua:735`);
`parser:finish` is never called, so a response that ends with the connection never
emits "end"; an interim 100 response is handed to the callback; what was written
after the server ended is kept and never sent; "drain" of the socket is not
forwarded; trailers go into the headers; a connect error other than ECONNREFUSED
leaves the socket connecting.

TLS connection: `_cycleEncyptedPullLock` is misspelt (`tls.lua:573`), so that one
method is not locked; `_pull` takes the last pending chunk (`tls.lua:326`), so what
waits behind a handshake leaves in reverse order and an end overtakes data (`queued`
in the model); done before the handshake is over loses data; the error path drops the
chunk in hand and leaves `pendingBytes`; a handler that destroys the pair from inside
the encrypted half's data event returns into a nil `ssl` (`tls.lua:480`, `ripped` in
the model); callbacks may run for another chunk than their own.

TLS contexts: addRootCerts twice frees the shared store; addCRL and addCACert on a
context with the root store change it for every context; a first certificate that
cannot be read leaves a store no connection uses, where the later ones go; a root store
that was filled in part is kept; addCRL without a store uses NULL; closing a context
with the root store leaves its connections without one; setKey leaks a BIO and
getPeerCertificate a key.

Registry: the read buffer of a failed asynchronous read is not freed (`luv_fs.c:147`);
a refused call, and a synchronous write, keep their slots (`luv_fs.c:217`); the collector
of a parser gives up nothing (`lyajl.c:335`) and a second print callback leaks the first;
complete twice gives a slot up twice (`lyajl.c:284`); a generator with a print callback
has no buffer to return (`lyajl.c:402`); the SNI reference is read uninitialised or again
(`luv_tls_conn.c:90`); a query without a callback gives up slot 0, the head of the free
list, and cuts it (`luv_dns.c:235`, `cut` in the model); a second SNI callback for a
connection leaks the slot of the first (`luv_tls_conn.c:735`). The index from which the
SNI callback takes its context when Lua returns nothing is not modelled.

zlib: the loop at `luv_zlib.c:58` goes by the input left, so output that did not fit
when the last byte was consumed stays inside, an empty write with "finish" emits
nothing, and bytes after the end of a stream keep it going for ever (`overrun`);
`Zlib:write` finishes a deflate stream by default, so its second chunk is such a case.
An error drops the output that came before it. `lz_stream_delete` is the __gc of a
table, which Lua does not call, so zlib's memory is never freed.

Debugger: clear takes the hook away from the breakpoints that are left, and break takes
it from tracing without changing its flag; the message handler returns nothing, so the
error of a chunk is a null pointer for printf; `bt` runs `luv_stackwalk()`, which does
not exist.

Environment: `putenv` keeps a pointer into a Lua string (`lenv.c:101`), which the
collector may free.

## Fairness

Liveness is checked under what libuv's loop gives, and nothing the peer or the
program would have to do:

- *LuvStream*: a Lua callback returns; queued connects, writes and shutdowns
  complete, and closes are called back (weak fairness: the loop polls every
  descriptor and runs its closing queue in each iteration).
- *LuvWatch*: callbacks return and the collector runs in the end (weak); sent
  datagrams and closes are called back (strong: other events of the same handle may
  come first over and over, and every round of the loop still gets to them).
- *Emitter*: listeners return and the loops of `emit` go on. `EmissionsEnd` has the
  premise that at some point the listeners register and emit no more, as it must.
- *Timers*: callbacks return, a due timer is called, time goes on. `TimeoutsFire` and
  `ExpirationEnds` exclude one kind of behaviour, `Starved`: an expiration of the list
  of one millisecond whose callbacks arm items of that list for ever.
- *NetSocket*: lookups, connects, writes and shutdowns end one way or the other,
  and queued ticks run. No fairness for data, end or the idle timer.
- *HttpServer*: `parser:execute` returns (weak); the shutdown and the tick that
  emits "close" happen (strong, since incoming data disables both for a moment
  over and over, and every round of the loop still gets to them).
- *HttpClient*: the same, with the ticks of the lookup and of the close. Nothing the
  server would have to send is assumed.
- *DnsAres*: the timer goes off and Lua callbacks return (weak); `ares_process_fd`
  returns and gives a waiting query its answer or its timeout in the end (strong:
  c-ares retries a bounded number of times, but does other work in between).
- *Zlib*: the loop of `lz_stream_write` is C code that runs to its end (weak fairness of
  its rounds and of its return).
- *LuvRegistry*, *SecureContext*, *SecurePair*, *Debugger*, *Environ*: safety only. That a pair makes progress
  is the invariant `NoLostWakeUp`: whenever the loop is idle nothing is left that
  could move.

## Proofs

The safety properties of eleven modules are proved for every value of the constants. The
bounds then stand for any number: they only have to be natural numbers. These, and
what the named assumptions of the modules say (the durations are positive, no timeout
is an idle object, the lengths of chunks are positive, the handle types are among the
five, the high water mark is positive, the peer sends at most two chunks, no chunk of
the program has the name of something else on the wire, the file operations are those
of `luv_fs.c` and a query is none of them), are the only assumptions. A module of proofs
extends the modules it is about; two have more than one.

| Proofs | About | Theorems | What the inductive invariant adds |
|---|---|---|---|
| LuvStreamProofs | LuvStream | `TypeCorrect` (`TypeOK`), `NoFault` (`NoFaultUnlessMisused`), `RefsCover` (`RefsCoverOutstanding`), `Anchored` (`AnchoredWhileActive`), `CollectedLate` (`CollectedOnlyAfterClose`) | `AnchorMatches`, `Coherent` |
| LuvProofs | LuvWatch | `WatchNoFault` (`NoFaultUnlessMisused`), `WatchRefs` (`RefsSound`) | `AnchorMatches`, `FramesFit`, `ActiveIsStarted`, `UnheldIsClosed` |
| LuvProofs | LuvRegistry | `CallbacksNeverMixedUp` (`CallbacksSound`), `FreeListStaysSound` (`FreeSlotsSound`, with `RequestsGiveUpTheirSlots` for its part `RequestsLeaveNothing`) | `FreeList`, and what each user owns: `RequestsOwn`, `ParsersOwn`, `GensOwn`, `ConnsOwn`; `RequestsReady`, `ParsingReady`, `RequestsName` |
| TimersProofs | Timers | `Lists` (`ListsSound`), `Overdue` (`NeverOverdue`) | nothing: `ListsSound` is inductive |
| TimersLinkedProofs | TimersLinked | `LinksStaySound` (`LinksSound`), `TimersImplemented` (the refinement `ImplementsTimers`) | `Linkage` with a `Ring` per list, `Objects` |
| NetSocketProofs | NetSocket | `Sockets` (`SocketSound`), `TimerOff` (the action property `DestroyedTimerOff`) | `InOrder`, `QueueFlushed`, `PendingBounds`, `ShutdownWaits` |
| NetSocketProofs | Emitter | `ListenersAreKept` (`ListenersKept`), `EmissionsReachEachOnce` (`EachListenerOnce`) | `Fits`, `FrameSound` of every emission in progress |
| LuvProofs | SecureContext | `ContextsStaySound` (`ContextsSound`) from `Stores`, `Leaks` and `Trust`, one for each part | `Ownership` (until misuse), `CutIsDropped` |
| SecurePairProofs | SecurePair | `PairDeliversInOrder` (`DeliveredInOrder`), with `EngineUsedBeforeDestroy` for its part `NoUseAfterDestroy` | `EngineGone`, `Control`, `Sends`, `Awake`, `Receives`, `Counts` |
| HttpServerProofs | HttpServer | `Framing` (`WellFramed`), `Requests` (`RequestsSound`) | `ConnSound`, `ParserSound`, `Encoded`, and while no response is out of turn `WireOrdered`, `InTurn` |
| HttpClientProofs | HttpClient | `Requests` (`RequestSound`, with `Heads` for its part `HeadIsOwn`), `Closes` (the action property `QuietAfterClose`), `ChunkSizes` | `QueueOrWire`, `HeadFirst`, `TicksOnce`, `TokensOwn` |

Each proof has the same shape: `Init => Inv`, one lemma or case per action for
`Inv /\ [Next]_vars => Inv'`, combined in one theorem (`Invariance`, `RegistrySpecInv`, ...), and then the properties
from `Inv`. Every invariant was also checked by TLC on the instance of its run.
The theorems with a property name the one the run checks; `TypeOK` and
`CollectedOnlyAfterClose` of LuvStream, and `ChunkSizes`, rest on the proofs alone.

The arguments, and why the invariants need what they add:

- *Streams.* The asserts look at the registry anchor, the counting argument is about
  the number: `AnchorMatches` says that the registry holds the userdata exactly while
  the count is positive. `Coherent` says how the flags hang together: a read in
  progress was started and not stopped (so its callback finds a reference); an object
  the program let go of was closed, and a closed one is closing in libuv (so the
  collector cannot run); a callback that waits for Lua has a native handle. Then each
  callback finds at least the reference of the request it completes, `ReturnRequest`
  gives up exactly that one, and `luv_on_close`, which runs only when no request is
  left, gives up its own and the rest. `AnchoredWhileActive` follows: everything that
  makes libuv call back is counted in `Outstanding`.
- *Other handles.* The count is not a bound here but an equation (`RefsAccounted`), so
  the invariant has to know which callbacks a type can have (`FramesFit`), that
  nothing runs without a reference of its own (`ActiveIsStarted`), and who may be
  collected: the only object nobody holds that was not closed is that of a failed
  spawn (`UnheldIsClosed`).
- *Registry slots.* `FreeList` gives the free list as a sequence of distinct slots that
  belong to nobody, each naming the next; while the list was not cut, every slot that
  belongs to nobody is on it. `luaL_ref` takes the first element or makes a new slot,
  `luaL_unref` puts one in front (`RefSound`, `UnrefSound`, and `LeakSound` for a slot
  nobody will give up), and each says which slots changed hands. So an owner's slots
  are left alone by everybody else's calls, and what is left to show per action is that
  the user in it owned the slots it gives up.
- *Timer lists.* An operation changes one list, so three lemmas about sequences do the
  work: unlinking an item (`UnlinkKeeps`, `UnlinkSorted`, `UnlinkHead`), appending
  one of age zero (`AppendKeeps`), taking the first (`TailKeeps`). A timer stays in
  time because unlinking leaves a first item that is no older than the first was,
  and an appended item is first only in a list that was empty. `NeverOverdue` follows:
  the first item is the oldest, and a timer that is not due covers it.
- *Linked timer lists.* A list in use is a `Ring`: from the list object along
  `_idlePrev` one meets the items, each once, and comes back, and along `_idleNext` the
  same in reverse. A ring determines its items (`WalkUnique`), so the sequence the
  refinement mapping reads off the links is the ring (`ItemsOfRing`). `RemoveRing` and
  `LinkRing` show that remove and append do to rings what `Unlink` and `Append` do to
  sequences. `Linkage` says that the items in no ring are linked to themselves or not at
  all, and `Objects` that the list object `expiration` walks is in use or closed. One
  lemma per action shows that it keeps both and is a step of Timers or none.
- *Emitter.* Closing holes moves a registration to a lower slot or leaves it where it is
  (`Lowered`), whichever border Lua takes for `#t`. `Compact` is a loop, and an
  induction over its rounds gives the same for all of it (`RoundsExist`,
  `CompactLowers`). So a listener that was called stays out of the slots `ipairs` has yet
  to reach, for every emission on the stack at once (`FrameSound`): a new
  registration has a new name, and no slot moves up. An emission that is not disturbed
  still finds whom it owes a call in the slots ahead, without a hole between them.
  `Fits` says that `table.insert` never needs a slot beyond the registrations made.
- *net.Socket.* The three places a chunk can be in are one sequence
  (`wire \o uvWrites \o connectQueue`), which stays 1, 2, 3, ... until something fails
  (`InOrder`); a completed request moves the border between two of them (`MoveHead`).
  A write must not overtake the queue, so the queue is empty once it was flushed and
  nothing turns `_connecting` on again (`QueueFlushed`); what was written before done
  is on the wire when its shutdown is complete (`ShutdownWaits`).
- *TLS contexts.* `Ownership`: every store has at most one reference; a store in use
  is allocated; two contexts share none but the root store (`Apart`), so freeing one
  never touches another's; a store that is not freed has a user who will free it
  (`HasOwner`), unless a bad first certificate left it behind. Each action creates,
  swaps, fills or frees at most one store, which is what its lemma is about.
- *TLS connection.* `EngineGone`: destroy closes the engine and makes the encrypted
  stream unwritable, so no later call of `cycle` enters encrypted:_push; those that are
  still on the stack were there when the pair was destroyed, and that is what `ripped`
  says. Every other use of the engine in the model looks first whether it is there
  (getSession and getCipher, which do not, are outside).
- *Order through the pair.* What the program wrote is one line: the chunks on the wire,
  those in the engine's output, in the hands of a frame on the stack, and pending
  (`Sends`); what the peer sent is another: the chunks delivered, those in the hands of
  a `_push`, in the engine's input, pending and still in the socket's queue
  (`Receives`). A step of any method moves the border between two neighbours of one
  line and leaves the other alone. This needs which frames may lie above which
  (`StackFits` in `Control`), that while the engine is up the encrypted stream has at
  most one entry pending and some frame on the stack will take it (`Awake`), and that a
  stream's `bytes` are at least its pending entries and those the engine was asked to
  take (`Counts`). From the reversal of two waiting chunks on
  (`queued`) the first line is only claimed to lose nothing.
- *HTTP server.* `Framed` counts and compares positions; the invariant says the same by
  position (`Ordered`: at most one "continue", then the head, then a body in the
  encoding announced, and the last chunk at the end), which an appended piece keeps.
  It needs that responses take turns (`InTurn`) and that the encoding in use is the one
  announced (`Encoded`). `RequestsEnd` needs that a message that was begun has its
  request ended by whatever stops the parser, and that nothing is parsed after "close".
- *HTTP client.* The pieces are framed across the change from queue to wire
  (`QueueOrWire`) and the head is first whatever the stage (`HeadFirst`). "close" comes
  by a tick that is queued once (`TicksOnce`), and only of a destroyed socket, for
  which no parser callback, lookup or connection does anything. Every token kept belongs to the latest message (`TokensOwn`).
- *Chunk sizes.* `tonumber16` is a recursive function. What it computes is proved by
  taking the smallest number for which the claim fails (`Smallest`, from `WFMin` of the
  library, which takes a set where the induction rules take an operator): the
  definition by recursion (`tonumber16Def`), then that it is the identity below ten and
  larger than its argument from ten on (`tonumber16Value`). So the size the server
  reads is right exactly below ten: `RequestFramed` excuses no chunk it need not.

Trying to prove `TimerCoversOldest` showed that two arms of the CASE in `Tick` of Timers
(a stopped timer, one that comes due) overlapped, which TLC does not notice because it
takes the first; the arms of all CASE expressions are now disjoint.

Induction over numbers, places of a list or rounds of a loop is always by the least
number for which a claim fails (`LeastNat`, `Smallest`).

Only model-checked:

- all liveness properties (fairness and ENABLED are out of the prover's reach);
- `TasksSorted` and `TasksFollowSockets` of DnsAres: RbTree writes the fix-up loops of
  `tree.h` as RECURSIVE operators, which the prover does not accept, and what the loops
  do to a tree would need an induction over trees;
- `NoLostWakeUp` and `FlushedBeforeDone` of SecurePair;
- Zlib, Debugger (whose loops over the list are RECURSIVE operators) and Environ.

## Not modelled

- `fs.lua` streams and writeFile, `dgram.lua`, `childprocess.lua`, `fiber.lua` and the
  process object: thin Lua on native parts that are modelled; a short write is
  continued and an exit taken as the end in sequential code.
- The module loader, stack, path, url, querystring, buffer: sequential or pure, and
  their content is text.
- REPL, mime and constant tables (`lconstants.c`, the built-in root
  certificates, about a third of the lines of C), option setters and the start-up
  code keep no state that several steps could get wrong.
- The http parser, OpenSSL, c-ares, yajl and libuv are external and appear only as
  their users see them. Byte counts, header text, addresses, replies of name servers,
  logging and error wording are left out of the modelled parts.
- An error thrown by a program's callback ends the process by default
  (`process.eventSource`) and is not followed further. Failed allocations are followed
  only where the code handles them (`ares_task_create`).

## Plan

1. Theorems: `NoLostWakeUp` of SecurePair, from the invariants of its order; the fix-up loops of RbTree as
   recursive functions, to prove `TasksFollowSockets` from what they keep.
2. Modules: *FsStreams* (`writeAll`, ReadStream, WriteStream) on the requests of
   LuvRegistry; *Pipe* for two general streams with pause, resume and drain; an
   abstract two-way channel that `SecurePair` implements while nothing is `queued`.
