------------------------------- MODULE DnsAres -------------------------------
(***************************************************************************)
(* luv_dns.c: c-ares on the libuv loop.  c-ares owns its sockets and tells *)
(* luvit through ares_sockstate_cb which of them to watch; luvit keeps one *)
(* task per socket in the red-black tree ares_tasks and one timer, which   *)
(* must run exactly while there are tasks: c-ares sees timeouts only when  *)
(* it is called.  The second part are the callbacks: queries answered by   *)
(* c-ares and lookups answered by uv_getaddrinfo, with what each of them   *)
(* leaves behind on the Lua stack of luv_run.                              *)
(*                                                                         *)
(* ares_process_fd is external: while `processing' it opens, watches and   *)
(* closes sockets and answers queries in any order, and it returns only    *)
(* with a socket for every query that waits and no idle sockets left.      *)
(***************************************************************************)
EXTENDS RbTree

CONSTANTS
  Queries,      \* bound: the queries that may be in progress together
  MaxClosing    \* bound: tasks whose watcher is being closed

ASSUME DnsAssumption == MaxClosing \in Nat

VARIABLES
  ares_tasks,   \* the tree; a node's key is its socket
  ares_timer,   \* uv: the timer is active
  open,         \* c-ares: the sockets it has open
  closing,      \* uv: the number of watchers waiting for ares_poll_close_cb
  queries,      \* c-ares: what it works on: "none", "silent" (no callback), "asked";
                \* or "lost": a luv_dns_ref_t that nobody frees
  processing,   \* ares_process_fd is on the C stack
  reply,        \* a query callback has an answer to free when Lua returns
  lookup,       \* uv_getaddrinfo: as queries, or "lost" (it failed and nobody was told)
  stack,        \* values left on the stack of luv_run: "none", "one", "two", or
                \* what is at index 3: a "function" or "other"
  uncreated,    \* history: ares_task_create has failed
  fault         \* "none", or the assert that failed

watch == <<ares_tasks, ares_timer, open, closing>>
ares  == <<queries, processing, reply>>
vars  == <<watch, ares, lookup, stack, uncreated, fault>>

Requests == {"none", "silent", "asked", "lost"}

Waits(q) == queries[q] \in {"silent", "asked"}
Waiting  == \E q \in Queries : Waits(q)

\* The shape of every variable.
TypeOK ==
  /\ ares_tasks \in Trees
  /\ ares_timer \in BOOLEAN
  /\ open \subseteq Keys
  /\ closing \in 0..MaxClosing
  /\ queries \in [Queries -> Requests]
  /\ processing \in BOOLEAN
  /\ reply \in BOOLEAN
  /\ lookup \in Requests
  /\ stack \in {"none", "one", "two", "function", "other"}
  /\ uncreated \in BOOLEAN
  /\ fault \in {"none", "timeout", "first", "close", "errno"}

\* luv_dns_initialize: the timer is not started until there is a socket.
Init ==
  /\ ares_tasks = RB_INIT
  /\ ares_timer = FALSE
  /\ open = {} /\ closing = 0
  /\ queries = [q \in Queries |-> "none"]
  /\ processing = FALSE /\ reply = FALSE
  /\ lookup = "none"
  /\ stack = "none"
  /\ uncreated = FALSE /\ fault = "none"

-----------------------------------------------------------------------------
\* ares_sockstate_cb.

\* Mutant: the timer is started only when the tree is not empty yet.
SockWatch_late(sock) ==
  /\ open' = open \cup {sock}
  /\ ares_timer' = (ares_timer \/ ~RB_EMPTY(ares_tasks))
  /\ ares_tasks' = RB_INSERT(ares_tasks, sock)
  /\ UNCHANGED <<closing, uncreated, fault>>

\* read || write on a socket that has no task: the first one starts the timer.
\* ares_task_create may fail; the timer is running by then.
SockWatch(sock) ==
  LET task == RB_FIND(ares_tasks, sock) IN
  /\ open' = open \cup {sock}
  /\ task = NULL
  /\ ares_timer' = TRUE
  /\ fault' = IF ~ares_timer /\ ~RB_EMPTY(ares_tasks) THEN "first" ELSE fault
  /\ \/ ares_tasks' = RB_INSERT(ares_tasks, sock) /\ UNCHANGED uncreated
     \/ uncreated' = TRUE /\ UNCHANGED ares_tasks
  /\ UNCHANGED closing

\* Mutant: the timer runs on after the last task.
SockClose_ticking(sock) ==
  /\ open' = open \ {sock}
  /\ ares_tasks' = RB_REMOVE(ares_tasks, sock)
  /\ closing' = closing + 1
  /\ UNCHANGED <<ares_timer, fault>>

\* Neither read nor write: the socket is closed, its task leaves the tree and
\* its watcher is closed; the last one stops the timer.
SockClose(sock) ==
  LET task == RB_FIND(ares_tasks, sock)
      left == RB_REMOVE(ares_tasks, sock) IN
  /\ open' = open \ {sock}
  /\ IF task = NULL
     THEN /\ fault' = "close"
          /\ UNCHANGED <<ares_tasks, ares_timer, closing>>
     ELSE /\ ares_tasks' = left
          /\ closing' = closing + 1
          /\ ares_timer' = (ares_timer /\ ~RB_EMPTY(left))
          /\ UNCHANGED fault

ares_poll_close_cb ==
  /\ fault = "none"
  /\ closing > 0 /\ ~processing
  /\ closing' = closing - 1
  /\ UNCHANGED <<ares_tasks, ares_timer, open, ares, lookup, stack, uncreated, fault>>

-----------------------------------------------------------------------------
\* Calls into c-ares.

\* The stack of luv_run after a value was pushed and not popped.
Left(below, value) ==
  CASE below = "none" -> "one"
    [] below = "one"  -> "two"
    [] below = "two"  -> value
    [] OTHER -> below

\* luv_dns_store_callback: only a function is stored.
luv_dns_store_callback == {"silent", "asked"}

\* ares_query and ares_gethostbyaddr: send on an open socket or open one.
Ask(q, r) ==
  /\ queries' = [queries EXCEPT ![q] = r]
  /\ \/ open # {} /\ UNCHANGED <<watch, uncreated, fault>>
     \/ \E sock \in Keys \ open : SockWatch(sock)

\* luv_dns_queryA and its like, from the main program or from a callback: store
\* the callback, then ask.  A name c-ares refuses is answered before it returns
\* and leaves nothing behind.
luv_dns_query(q) ==
  /\ fault = "none" /\ ~Waits(q)
  /\ \E r \in luv_dns_store_callback : Ask(q, r)
  /\ UNCHANGED <<processing, reply, lookup, stack>>

\* c-ares: the statuses other than ARES_SUCCESS, up to ARES_ECANCELLED.
AresErrors == 1..24
ARES_EBADSTR == 17

\* ares_errno_string: the statuses that have a case; any other fails its assert.
ares_errno_string == 0..24

\* luv_push_ares_async_error: the error is built and handed to the callback.
luv_push_ares_async_error(rc) ==
  fault' = IF rc \in ares_errno_string THEN "none" ELSE "errno"

\* luv_dns_getHostByAddr: an address that neither inet_pton reads is answered at
\* once, and without a callback its request is not freed.
luv_dns_getHostByAddr(q) ==
  /\ fault = "none" /\ ~Waits(q)
  /\ \E r \in luv_dns_store_callback :
       \/ Ask(q, r)
       \/ /\ r = "asked"
          /\ luv_push_ares_async_error(ARES_EBADSTR)
          /\ UNCHANGED <<queries, watch, uncreated>>
       \/ /\ r = "silent"
          /\ queries' = [queries EXCEPT ![q] = "lost"]
          /\ UNCHANGED <<watch, uncreated, fault>>
  /\ UNCHANGED <<processing, reply, lookup, stack>>

\* luv_ares_timeout.
luv_ares_timeout ==
  /\ fault = "none"
  /\ ares_timer /\ ~processing
  /\ fault' = IF RB_EMPTY(ares_tasks) THEN "timeout" ELSE "none"
  /\ processing' = TRUE
  /\ UNCHANGED <<watch, queries, reply, lookup, stack, uncreated>>

\* luv_ares_poll_cb: uv_timer_again starts the timer, which has repeat set.
luv_ares_poll_cb ==
  /\ fault = "none"
  /\ ~RB_EMPTY(ares_tasks) /\ ~processing
  /\ ares_timer' = TRUE
  /\ processing' = TRUE
  /\ UNCHANGED <<ares_tasks, open, closing, queries, reply, lookup, stack, uncreated, fault>>

\* ares_process_fd goes on: no callback of a query is waiting for Lua.
AresRuns == fault = "none" /\ processing /\ ~reply

\* Another server or a TCP connection is tried.
AresOpens ==
  /\ AresRuns /\ Waiting
  /\ \E sock \in Keys \ open : SockWatch(sock)
  /\ UNCHANGED <<ares, lookup, stack>>

\* A socket failed or is not needed any more.
AresCloses ==
  /\ AresRuns
  /\ closing < MaxClosing
  /\ \E sock \in open : SockClose(sock)
  /\ UNCHANGED <<ares, lookup, stack, uncreated>>

\* The common course of the query callbacks: luv_dns_get_callback fetches and
\* releases the callback; what is not a function stays on the stack and ends
\* it; an error is handed over; an answer is parsed, handed over and freed
\* after Lua has returned.
Answer(q, owned) ==
  /\ AresRuns /\ Waits(q)
  /\ queries' = [queries EXCEPT ![q] = "none"]
  /\ \/ queries[q] = "silent" /\ stack' = Left(stack, "other") /\ UNCHANGED <<reply, fault>>
     \/ queries[q] = "asked" /\ (\E rc \in AresErrors : luv_push_ares_async_error(rc)) /\ UNCHANGED <<reply, stack>>
     \/ queries[q] = "asked" /\ reply' = owned /\ UNCHANGED <<stack, fault>>
  /\ UNCHANGED <<watch, processing, lookup, uncreated>>

\* A, AAAA and CNAME: a hostent to be freed.
queryHost_callback(q) == Answer(q, TRUE)
queryNs_callback(q)   == Answer(q, TRUE)
\* MX, TXT and SRV: a list of records to be freed.
queryMx_callback(q)   == Answer(q, TRUE)
queryList_callback(q) == Answer(q, TRUE)
\* The hostent of a reverse query belongs to c-ares.
getHostByAddr_callback(q) == Answer(q, FALSE)

query_callback(q) ==
  \/ queryHost_callback(q) \/ queryNs_callback(q)
  \/ queryMx_callback(q) \/ queryList_callback(q)
  \/ getHostByAddr_callback(q)

\* Lua returns to the callback, which frees the answer.
CallbackReturns ==
  /\ fault = "none" /\ reply
  /\ reply' = FALSE
  /\ UNCHANGED <<watch, queries, processing, lookup, stack, uncreated, fault>>

\* ares_process_fd returns.
AresReturns ==
  /\ AresRuns
  /\ Waiting <=> open # {}
  /\ processing' = FALSE
  /\ UNCHANGED <<watch, queries, reply, lookup, stack, uncreated, fault>>

-----------------------------------------------------------------------------
\* Lookups with uv_getaddrinfo.

\* luv_dns_getAddrInfo: one lookup at a time is enough here.
luv_dns_getAddrInfo ==
  /\ fault = "none"
  /\ lookup \in {"none", "lost"}
  /\ lookup' \in luv_dns_store_callback
  /\ UNCHANGED <<watch, ares, stack, uncreated, fault>>

\* luv_push_gai_async_error calls back only when the value at index 3 of the
\* stack is a function.  With n values left behind earlier, the callback is at
\* n + 1 and the error at n + 2.
gai_error_calls == stack \in {"two", "function"}

\* luv_dns_getaddrinfo_callback: nobody asked, an answer, or an error.
luv_dns_getaddrinfo_callback ==
  /\ fault = "none" /\ ~processing
  /\ \/ lookup = "silent" /\ lookup' = "none" /\ stack' = Left(stack, "other")
     \/ lookup = "asked" /\ lookup' = "none" /\ UNCHANGED stack
     \/ /\ lookup = "asked"
        /\ lookup' = IF gai_error_calls THEN "none" ELSE "lost"
        /\ stack' = IF gai_error_calls THEN stack ELSE Left(Left(stack, "function"), "other")
  /\ UNCHANGED <<watch, ares, uncreated, fault>>

-----------------------------------------------------------------------------
Next ==
  \/ \E q \in Queries : luv_dns_query(q) \/ luv_dns_getHostByAddr(q) \/ query_callback(q)
  \/ luv_ares_timeout \/ luv_ares_poll_cb \/ ares_poll_close_cb
  \/ AresOpens \/ AresCloses \/ CallbackReturns \/ AresReturns
  \/ luv_dns_getAddrInfo \/ luv_dns_getaddrinfo_callback

Spec == Init /\ [][Next]_vars

\* The timer fires, Lua and c-ares return, and c-ares, called again and again,
\* gives a query up after a number of timeouts.
Fairness ==
  /\ WF_vars(luv_ares_timeout) /\ WF_vars(CallbackReturns)
  /\ SF_vars(AresReturns)
  /\ \A q \in Queries : SF_vars(query_callback(q))

FairSpec == Spec /\ Fairness

-----------------------------------------------------------------------------
\* The tree behaves as the set of watched sockets, in order, and stays a
\* balanced, consistently linked tree through every insertion and removal that
\* c-ares brings about.
TasksSorted ==
  /\ Linked(ares_tasks) /\ Balanced(ares_tasks)
  /\ LET w == Walk(ares_tasks, RB_MIN(ares_tasks))
     IN  /\ \A i \in 1..Len(w) - 1 : w[i] < w[i + 1]
         /\ {w[i] : i \in 1..Len(w)} = Nodes(ares_tasks)

\* As long as tasks can be created, every socket of c-ares is watched.
SocketsWatched == ~uncreated => Nodes(ares_tasks) = open

\* The timer runs exactly while there are sockets: c-ares is called in time for
\* its timeouts, and an idle program is not kept alive by it.
TimerWhileTasks == ~uncreated => (ares_timer <=> ~RB_EMPTY(ares_tasks))

\* The asserts of luv_dns.c hold as long as tasks can be created.
AssertsHold == ~uncreated => fault = "none"

\* A query that was sent is answered or given up: there is always the timer to
\* bring c-ares back.  Not so once a task could not be created (`uncreated'): then
\* the timer runs over an empty tree and its assert fails first, although the comment
\* at luv_dns.c:150 says that the query will eventually time out.
QueriesEnd == \A q \in Queries : Waits(q) ~> (~Waits(q) \/ uncreated)

\* Tasks, timer and asserts follow the sockets of c-ares, through every order in
\* which it opens, watches and closes them.
TasksFollowSockets == TypeOK /\ SocketsWatched /\ TimerWhileTasks /\ AssertsHold
=============================================================================
