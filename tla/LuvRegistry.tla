----------------------------- MODULE LuvRegistry -----------------------------
(***************************************************************************)
(* Who owns which slot of the Lua registry.  File requests (luv_fs.c, with *)
(* luv_io_ctx_t of utils.c), JSON parsers and generators (lyajl.c), TLS    *)
(* connections (luv_tls_conn.c) and DNS queries (luv_dns.c) keep their Lua *)
(* callbacks in the one table that luaL_ref hands slots out of.  The table *)
(* keeps its free slots in a list that runs through the slots themselves,  *)
(* so a slot given up twice, or used after it was given up, is somebody    *)
(* else's.                                                                 *)
(*                                                                         *)
(* Lua runs in the callback of a request (`running') and in the handlers   *)
(* that parsers call (`parsing'); from there it may call everything again, *)
(* a parse inside a handler of a parse too.                                *)
(* What the C code neither checks nor survives sets `abused', and the      *)
(* model stops there: completing a parser twice, parsing on after it was   *)
(* completed, asking a generator with a print callback for its buffer, and *)
(* a client that names the server again, or to a connection without an SNI *)
(* callback.                                                               *)
(***************************************************************************)
EXTENDS Integers, Sequences, SequencesExt, TLC

CONSTANTS
  Ops,        \* the file operations the program uses
  Reqs,       \* bound: file requests and DNS queries in progress
  Parsers,    \* bound: JSON parsers
  Gens,       \* bound: JSON generators
  Conns,      \* bound: TLS connections of a server
  MaxSlots,   \* bound: the slots of the registry
  MaxNested   \* bound: parses inside each other's handlers

\* The file operations, with the kind of result their success has: first the
\* ones that differ in nothing else.
luv_fs_calls ==
  [ unlink |-> "nothing", mkdir |-> "nothing", rmdir |-> "nothing", rename |-> "nothing",
    fsync |-> "nothing", fdatasync |-> "nothing", ftruncate |-> "nothing",
    chmod |-> "nothing", fchmod |-> "nothing", chown |-> "nothing", fchown |-> "nothing",
    utime |-> "nothing", futime |-> "nothing", link |-> "nothing", symlink |-> "nothing",
    readdir |-> "names", stat |-> "stats", fstat |-> "stats", lstat |-> "stats",
    readlink |-> "path", sendfile |-> "number" ]
luv_fs_open  == [open |-> "number"]
luv_fs_close == [close |-> "nothing"]
luv_fs_read  == [read |-> "chunk"]
luv_fs_write == [write |-> "number"]
Results == luv_fs_calls @@ luv_fs_open @@ luv_fs_close @@ luv_fs_read @@ luv_fs_write

NOREF == 0      \* LUA_NOREF; 0 is also the end of the free list
NoOne == "none"
Query == "query"

ASSUME RegistryAssumption ==
  /\ MaxSlots \in Nat /\ MaxNested \in Nat
  /\ Ops \subseteq DOMAIN Results /\ Query \notin Ops
  /\ NoOne \notin Ops \cup Reqs \cup Parsers

VARIABLES
  slots,      \* the registry: a sequence of [owner, next]
  free,       \* its entry 0: the first free slot
  reqs,       \* the luv_fs_ref_t or luv_dns_ref_t of every request
  running,    \* the file request whose Lua callback runs
  parsers,    \* the luvit_parser_t
  parsing,    \* the calls of yajl_parse and yajl_complete_parse in progress
  gens,       \* the slot of every generator's print callback
  conns,      \* the sni_callback_ref of every tls_conn_t, and whether it was set and used
  cut,        \* history: entry 0 was overwritten, its list is lost
  abused,     \* history: a call the C code cannot survive
  foreign     \* history: a slot was read that belongs to others

registry == <<slots, free>>
users    == <<reqs, running, parsers, parsing, gens, conns>>
registryVars == <<registry, users, cut, abused, foreign>>

\* A slot belongs to the callback or to the data of a request, to a parser, to
\* a generator, to a connection, or to nobody who will ever give it up.
Owners == {"cb", "data"} \X Reqs \cup {"parser"} \X Parsers \cup {"print"} \X Gens \cup {"sni"} \X Conns
Leaked == <<"leaked">>

Slots == 0..MaxSlots
NoRequest == [op |-> NoOne, cb |-> NOREF, data |-> NOREF]

\* A call of yajl_parse, or of yajl_complete_parse if `ending'.
ParseCalls == [p : Parsers, ending : BOOLEAN]

\* The shape of every variable.
RegistryTypeOK ==
  /\ slots \in Seq([owner : Owners \cup {Leaked, <<>>}, next : Slots]) /\ Len(slots) <= MaxSlots
  /\ free \in Slots
  /\ reqs \in [Reqs -> [op : Ops \cup {NoOne, Query}, cb : Slots, data : Slots]]
  /\ running \in Reqs \cup {NoOne}
  /\ parsers \in [Parsers -> [st : {"none", "open", "completed"}, r : Slots]]
  /\ parsing \in Seq(ParseCalls) /\ Len(parsing) <= MaxNested
  /\ gens \in [Gens -> [live : BOOLEAN, r : Slots]]
  /\ conns \in [Conns -> [st : {"none", "set", "used"}, r : Slots]]
  /\ cut \in BOOLEAN /\ abused \in BOOLEAN
  /\ foreign \in BOOLEAN

RegistryInit ==
  /\ slots = <<>> /\ free = 0
  /\ reqs = [r \in Reqs |-> NoRequest] /\ running = NoOne
  /\ parsers = [p \in Parsers |-> [st |-> "none", r |-> NOREF]] /\ parsing = <<>>
  /\ gens = [g \in Gens |-> [live |-> FALSE, r |-> NOREF]]
  /\ conns = [c \in Conns |-> [st |-> "none", r |-> NOREF]]
  /\ cut = FALSE /\ abused = FALSE /\ foreign = FALSE

-----------------------------------------------------------------------------
\* luaL_ref and luaL_unref, on a registry value t = [slots, free].

Registry == [slots |-> slots, free |-> free]

RefSlot(t) == IF t.free # 0 THEN t.free ELSE Len(t.slots) + 1

luaL_ref(t, owner) ==
  LET r == RefSlot(t) IN
  [slots |-> IF t.free # 0 THEN [t.slots EXCEPT ![r] = [owner |-> owner, next |-> 0]]
                           ELSE Append(t.slots, [owner |-> owner, next |-> 0]),
   free  |-> IF t.free # 0 THEN t.slots[r].next ELSE 0]

luaL_unref(t, r) ==
  IF r = NOREF THEN t
  ELSE [slots |-> [t.slots EXCEPT ![r] = [owner |-> <<>>, next |-> t.free]], free |-> r]

\* A slot that is not given up when its owner is gone.
Leak(t, r) == IF r = NOREF THEN t ELSE [t EXCEPT !.slots[r].owner = Leaked]

\* The registry after a call, as far as the bound lets it grow.
Becomes(t) == Len(t.slots) <= MaxSlots /\ slots' = t.slots /\ free' = t.free

OwnerOf(r) == IF r = NOREF THEN <<>> ELSE slots[r].owner

-----------------------------------------------------------------------------
\* File requests.

\* The values a result is.
Values(kind) ==
  CASE kind = "nothing" -> <<>>
    [] kind = "chunk"   -> <<"chunk", "length">>
    [] OTHER            -> <<"value">>

\* An error is one table, with or without a path in it.
luv_push_async_error == <<"error">>

\* luv_process_fs_result: what it pushes, and the number it returns, which counts
\* neither the error nor the nil before the results.
luv_process_fs_result(op, ok) ==
  [pushed |-> IF ok THEN <<"nil">> \o Values(Results[op]) ELSE luv_push_async_error,
   argc   |-> IF ~ok \/ Results[op] = "nothing" THEN 0 ELSE IF Results[op] = "chunk" THEN 2 ELSE 1]

\* luv_acall of luv_after_fs: the function called is the value below argc + 1
\* arguments, on a stack with the callback and what was pushed.
luv_acall(res) ==
  LET stack == <<"callback">> \o res.pushed
  IN  stack[Len(stack) - (res.argc + 1)]

\* luv_io_ctx_add and luv_io_ctx_callback_add on a fresh luv_io_ctx_t: the data
\* first, then the callback, if there is one.
luv_io_ctx_add(t, op, owner) == IF op = "write" THEN luaL_ref(t, owner) ELSE t
luv_io_ctx_callback_add(t, owner) == luaL_ref(t, owner)

Calls == ~foreign /\ ~abused

\* A request with a callback of its own.
Queue(r, op) ==
  LET t1 == luv_io_ctx_add(Registry, op, <<"data", r>>) IN
  /\ Calls /\ reqs[r].op = NoOne
  /\ Becomes(luv_io_ctx_callback_add(t1, <<"cb", r>>))
  /\ reqs' = [reqs EXCEPT ![r] =
       [op |-> op, cb |-> RefSlot(t1), data |-> IF op = "write" THEN RefSlot(Registry) ELSE NOREF]]
  /\ UNCHANGED <<running, parsers, parsing, gens, conns, cut, abused, foreign>>

\* FS_CALL with a callback, accepted: the request is queued.
FS_CALL_queued(r, op) == Queue(r, op)

\* FS_CALL with a callback, refused: the error is raised and nobody gives the
\* references up.
FS_CALL_refused(op) ==
  /\ Calls
  /\ Becomes(luv_io_ctx_callback_add(luv_io_ctx_add(Registry, op, Leaked), Leaked))
  /\ UNCHANGED <<users, cut, abused, foreign>>

\* FS_CALL without a callback, whether it fails or not: only the data of a
\* write was anchored, and it stays.
FS_CALL_sync(op) ==
  /\ Calls /\ op = "write"
  /\ Becomes(luv_io_ctx_add(Registry, op, Leaked))
  /\ UNCHANGED <<users, cut, abused, foreign>>

\* Mutant: the same reference is given up for the data and for the callback.
luv_io_ctx_unref_twice(t, q) == luaL_unref(luaL_unref(t, q.cb), q.cb)

luv_io_ctx_unref(t, q) == luaL_unref(luaL_unref(t, q.data), q.cb)

\* luv_after_fs: fetch the callback, give the references up, call it with the
\* error alone or with nil and the results.
luv_after_fs(r) ==
  /\ Calls /\ running = NoOne /\ parsing = <<>>
  /\ reqs[r].op \in Ops
  /\ \E ok \in BOOLEAN :
       foreign' = \/ OwnerOf(reqs[r].cb) # <<"cb", r>>
                  \/ luv_acall(luv_process_fs_result(reqs[r].op, ok)) # "callback"
  /\ Becomes(luv_io_ctx_unref(Registry, reqs[r]))
  /\ reqs' = [reqs EXCEPT ![r].cb = NOREF, ![r].data = NOREF]
  /\ running' = r
  /\ UNCHANGED <<parsers, parsing, gens, conns, cut, abused>>

\* Lua returns: uv_fs_req_cleanup and free.
luv_after_fs_return ==
  /\ Calls /\ running # NoOne /\ parsing = <<>>
  /\ reqs' = [reqs EXCEPT ![running] = NoRequest]
  /\ running' = NoOne
  /\ UNCHANGED <<registry, parsers, parsing, gens, conns, cut, abused, foreign>>

-----------------------------------------------------------------------------
\* JSON.

lyajl_new_parser(p) ==
  /\ Calls /\ parsers[p].st = "none"
  /\ Becomes(luaL_ref(Registry, <<"parser", p>>))
  /\ parsers' = [parsers EXCEPT ![p] = [st |-> "open", r |-> RefSlot(Registry)]]
  /\ UNCHANGED <<reqs, running, parsing, gens, conns, cut, abused, foreign>>

\* lyajl_parse: yajl_parse begins to call the handlers.
lyajl_parse(p) ==
  /\ Calls /\ parsers[p].st # "none" /\ Len(parsing) < MaxNested
  /\ parsing' = Append(parsing, [p |-> p, ending |-> FALSE])
  /\ UNCHANGED <<registry, reqs, running, parsers, gens, conns, cut, abused, foreign>>

\* lyajl_complete_parse: yajl_complete_parse may find a last event in the text.
lyajl_complete_parse(p) ==
  /\ Calls /\ parsers[p].st # "none" /\ Len(parsing) < MaxNested
  /\ parsing' = Append(parsing, [p |-> p, ending |-> TRUE])
  /\ UNCHANGED <<registry, reqs, running, parsers, gens, conns, cut, abused, foreign>>

\* The innermost call of a parser.
Innermost == parsing[Len(parsing)]

\* Each event loads the table of handlers from the registry and looks the
\* handler up: onNull, onBoolean, onNumber, onString ...
lyajl_on_scalar(p) == OwnerOf(parsers[p].r) = <<"parser", p>>
\* ... onStartMap, onMapKey, onEndMap, onStartArray, onEndArray.
lyajl_on_container(p) == OwnerOf(parsers[p].r) = <<"parser", p>>

lyajl_event ==
  /\ Calls /\ parsing # <<>>
  /\ foreign' = ~(lyajl_on_scalar(Innermost.p) /\ lyajl_on_container(Innermost.p))
  /\ abused' = (abused \/ parsers[Innermost.p].st = "completed")
  /\ UNCHANGED <<registry, users, cut>>

\* yajl_parse returns.
lyajl_parse_return ==
  /\ Calls /\ parsing # <<>> /\ ~Innermost.ending
  /\ parsing' = Front(parsing)
  /\ UNCHANGED <<registry, reqs, running, parsers, gens, conns, cut, abused, foreign>>

\* yajl_complete_parse returns: the table is given up each time, before the code
\* looks whether the text was complete.
lyajl_complete_parse_return ==
  LET p == Innermost.p IN
  /\ Calls /\ parsing # <<>> /\ Innermost.ending
  /\ parsing' = Front(parsing)
  /\ Becomes(luaL_unref(Registry, parsers[p].r))
  /\ abused' = (abused \/ parsers[p].st = "completed")
  /\ parsers' = [parsers EXCEPT ![p].st = "completed"]
  /\ UNCHANGED <<reqs, running, gens, conns, cut, foreign>>

\* An error in the text or in a handler unwinds the calls up to whoever catches
\* it; those of yajl_complete_parse among them do not give up their table.
lyajl_raise ==
  /\ Calls /\ parsing # <<>>
  /\ \E k \in 0..(Len(parsing) - 1) : parsing' = SubSeq(parsing, 1, k)
  /\ UNCHANGED <<registry, reqs, running, parsers, gens, conns, cut, abused, foreign>>

\* Mutant: the collector gives up the table of a parser once more.
lyajl_parser_gc_unref(p) ==
  /\ Calls /\ parsers[p].st # "none" /\ (\A k \in DOMAIN parsing : parsing[k].p # p)
  /\ Becomes(luaL_unref(Registry, parsers[p].r))
  /\ parsers' = [parsers EXCEPT ![p] = [st |-> "none", r |-> NOREF]]
  /\ UNCHANGED <<reqs, running, parsing, gens, conns, cut, abused, foreign>>

\* lyajl_parser_gc: the table of a parser that was not completed, for instance
\* after an error in the text, stays in the registry.
lyajl_parser_gc(p) ==
  /\ Calls /\ parsers[p].st # "none" /\ (\A k \in DOMAIN parsing : parsing[k].p # p)
  /\ Becomes(IF parsers[p].st = "open" THEN Leak(Registry, parsers[p].r) ELSE Registry)
  /\ parsers' = [parsers EXCEPT ![p] = [st |-> "none", r |-> NOREF]]
  /\ UNCHANGED <<reqs, running, parsing, gens, conns, cut, abused, foreign>>

lyajl_new_generator(g) ==
  /\ Calls /\ ~gens[g].live
  /\ gens' = [gens EXCEPT ![g] = [live |-> TRUE, r |-> NOREF]]
  /\ UNCHANGED <<registry, reqs, running, parsers, parsing, conns, cut, abused, foreign>>

\* lyajl_gen_config with print_callback: an earlier one is left behind.
lyajl_gen_config(g) ==
  /\ Calls /\ gens[g].live
  /\ Becomes(luaL_ref(Leak(Registry, gens[g].r), <<"print", g>>))
  /\ gens' = [gens EXCEPT ![g].r = RefSlot(Registry)]
  /\ UNCHANGED <<reqs, running, parsers, parsing, conns, cut, abused, foreign>>

lyajl_gen_on_print(g) == OwnerOf(gens[g].r) = <<"print", g>>

\* lyajl_gen_null to lyajl_gen_array_close: the text goes to the print callback,
\* if there is one.
lyajl_gen_calls(g) ==
  /\ Calls /\ gens[g].live
  /\ foreign' = ~(gens[g].r = NOREF \/ lyajl_gen_on_print(g))
  /\ UNCHANGED <<registry, users, cut, abused>>

\* lyajl_gen_get_buf does not look whether there is a buffer.
lyajl_gen_get_buf(g) ==
  /\ Calls /\ gens[g].live
  /\ abused' = (gens[g].r # NOREF)
  /\ UNCHANGED <<registry, users, cut, foreign>>

lyajl_gen_gc(g) ==
  /\ Calls /\ gens[g].live
  /\ Becomes(Leak(Registry, gens[g].r))
  /\ gens' = [gens EXCEPT ![g] = [live |-> FALSE, r |-> NOREF]]
  /\ UNCHANGED <<reqs, running, parsers, parsing, conns, cut, abused, foreign>>

-----------------------------------------------------------------------------
\* The callback of a TLS server for the name its client asks for.

\* A second call leaves the callback of the first behind.
tls_conn_set_sni_callback(c) ==
  LET t == IF conns[c].st = "set" THEN Leak(Registry, conns[c].r) ELSE Registry IN
  /\ Calls
  /\ Becomes(luaL_ref(t, <<"sni", c>>))
  /\ conns' = [conns EXCEPT ![c] = [st |-> "set", r |-> RefSlot(t)]]
  /\ UNCHANGED <<reqs, running, parsers, parsing, gens, cut, abused, foreign>>

\* The client names the server: the callback is fetched and given up.  The field
\* keeps the number, and newCONN has not set it.
sni_context_callback(c) ==
  /\ Calls
  /\ abused' = (conns[c].st # "set")
  /\ foreign' = (~abused' /\ OwnerOf(conns[c].r) # <<"sni", c>>)
  /\ Becomes(IF abused' THEN Registry ELSE luaL_unref(Registry, conns[c].r))
  /\ conns' = IF abused' THEN conns ELSE [conns EXCEPT ![c].st = "used"]
  /\ UNCHANGED <<reqs, running, parsers, parsing, gens, cut>>

\* tls_conn_close leaves a callback that was not used.
tls_conn_close(c) ==
  /\ Calls /\ conns[c].st # "none"
  /\ Becomes(IF conns[c].st = "set" THEN Leak(Registry, conns[c].r) ELSE Registry)
  /\ conns' = [conns EXCEPT ![c] = [st |-> "none", r |-> NOREF]]
  /\ UNCHANGED <<reqs, running, parsers, parsing, gens, cut, abused, foreign>>

-----------------------------------------------------------------------------
\* DNS queries.

\* luv_dns_store_callback: a query that is given no function has the reference
\* 0 that calloc left.
luv_dns_store_callback(r) ==
  \/ Queue(r, Query)
  \/ /\ Calls /\ reqs[r].op = NoOne
     /\ reqs' = [reqs EXCEPT ![r] = [op |-> Query, cb |-> NOREF, data |-> NOREF]]
     /\ UNCHANGED <<registry, running, parsers, parsing, gens, conns, cut, abused, foreign>>

\* luv_dns_get_callback when the answer comes, also from inside the call that
\* asked: the callback is fetched and given up, then the request freed.
\* luaL_unref(0) makes entry 0 point to itself, which is the end of the list.
luv_dns_get_callback(r) ==
  LET q == reqs[r] IN
  /\ Calls /\ q.op = Query
  /\ Becomes(IF q.cb = NOREF THEN [Registry EXCEPT !.free = 0] ELSE luaL_unref(Registry, q.cb))
  /\ foreign' = (q.cb # NOREF /\ OwnerOf(q.cb) # <<"cb", r>>)
  /\ cut' = (cut \/ q.cb = NOREF)
  /\ reqs' = [reqs EXCEPT ![r] = NoRequest]
  /\ UNCHANGED <<running, parsers, parsing, gens, conns, abused>>

-----------------------------------------------------------------------------
RegistryNext ==
  \/ \E r \in Reqs : luv_after_fs(r) \/ \E op \in Ops : FS_CALL_queued(r, op)
  \/ \E op \in Ops : FS_CALL_refused(op) \/ FS_CALL_sync(op)
  \/ luv_after_fs_return
  \/ \E r \in Reqs : luv_dns_store_callback(r) \/ luv_dns_get_callback(r)
  \/ \E p \in Parsers : lyajl_new_parser(p) \/ lyajl_parse(p) \/ lyajl_complete_parse(p) \/ lyajl_parser_gc(p)
  \/ lyajl_event \/ lyajl_parse_return \/ lyajl_complete_parse_return \/ lyajl_raise
  \/ \E g \in Gens : lyajl_new_generator(g) \/ lyajl_gen_config(g) \/ lyajl_gen_calls(g) \/ lyajl_gen_get_buf(g) \/ lyajl_gen_gc(g)
  \/ \E c \in Conns : tls_conn_set_sni_callback(c) \/ sni_context_callback(c) \/ tls_conn_close(c)

RegistrySpec == RegistryInit /\ [][RegistryNext]_registryVars

\* Requests are alike, and so are parsers.
Symmetry == Permutations(Reqs) \cup Permutations(Parsers)

-----------------------------------------------------------------------------
\* What somebody will still read or give up.
Held ==
  {<<<<"cb", r>>, reqs[r].cb>> : r \in Reqs} \cup {<<<<"data", r>>, reqs[r].data>> : r \in Reqs}
    \cup {<<<<"parser", p>>, parsers[p].r>> : p \in {q \in Parsers : parsers[q].st = "open"}}
    \cup {<<<<"print", g>>, gens[g].r>> : g \in Gens}
    \cup {<<<<"sni", c>>, conns[c].r>> : c \in {d \in Conns : conns[d].st = "set"}}

\* Every reference still in use names a slot that holds its owner's value, so
\* no two owners share one: callbacks never get mixed up and a chunk that is
\* being written is not collected.
RefsUnshared ==
  ~abused => \A h \in Held : h[2] # NOREF => OwnerOf(h[2]) = h[1]

\* c is the list that entry 0 and the free slots make: each names the next, and
\* the last one 0.
IsFreeList(c) ==
  LET named == Append(c, 0)
  IN  free = named[1] /\ \A k \in DOMAIN c : slots[c[k]].next = named[k + 1]

\* The free list is a list, nobody owns a slot on it, and every slot nobody owns
\* is on it, unless a query without a callback has cut the list.
FreeListSound ==
  ~abused => \E c \in SeqOf(DOMAIN slots, Len(slots)) :
    /\ IsFreeList(c)
    /\ \A k \in DOMAIN c : slots[c[k]].owner = <<>>
    /\ ~cut => \A i \in DOMAIN slots : slots[i].owner = <<>> => \E k \in DOMAIN c : c[k] = i

\* The slots of a request or a query are given up with it: a slot whose owner is
\* a request belongs to one that is in progress.
RequestsLeaveNothing ==
  ~abused => \A i \in DOMAIN slots, r \in Reqs :
    slots[i].owner \in {<<"cb", r>>, <<"data", r>>} => i \in {reqs[r].cb, reqs[r].data}

\* No callback runs that belongs to somebody else, and what is called with the
\* result of a request is its callback, not one of the values beside it.
OwnCallbacksOnly == ~abused => ~foreign

\* Nobody's slot becomes somebody else's: the references in use are their
\* owners', and the callbacks that ran were.
CallbacksSound == RefsUnshared /\ OwnCallbacksOnly

\* The free list of the registry is sound and complete, and what requests took goes
\* back to it.
FreeSlotsSound == RegistryTypeOK /\ FreeListSound /\ RequestsLeaveNothing
=============================================================================
