---------------------------- MODULE SecureContext ----------------------------
(***************************************************************************)
(* luv_tls.c: the secure contexts of TLS and the certificate stores they   *)
(* verify with.  A context wraps an SSL_CTX, which owns one X509_STORE and *)
(* frees it when it gets another or goes itself; ca_store is luvit's own   *)
(* pointer to it.  The built-in root certificates are one store for the    *)
(* whole process, which every context points to and none may free.         *)
(*                                                                         *)
(* Connections (SSL objects) keep the SSL_CTX alive after the context was  *)
(* closed or collected, and SNI may move one to another context.  Some steps *)
(* raise an error: createCredentials of tls.lua then drops the context.    *)
(* Others return false, which it ignores.  Calls the code cannot survive set *)
(* `mishandled': addRootCerts on a context that has the root store, addCRL on *)
(* one without a store, any call on a closed one, and closing one with the *)
(* root store under its connections.                                       *)
(***************************************************************************)
EXTENDS Integers, Sequences

CONSTANTS
  Ctxs,        \* bound: the contexts of the program
  Certs,       \* the certificates the program adds
  MaxStores,   \* bound: certificate stores allocated
  MaxConns     \* bound: connections per context

ASSUME ContextAssumption == MaxStores \in Nat /\ MaxConns \in Nat

NULL == 0
RootCert == "root"

VARIABLES
  stores,      \* every X509_STORE allocated: references and contents
  root,        \* root_cert_store
  sc,          \* the tls_sc_t with its SSL_CTX, its connections, and the references
               \* on the certificates of their peers; conns counts the references
               \* of connections on the SSL_CTX
  given,       \* history: the certificates a context reported as added
  stray,       \* history: the first certificate for this context was bad
  tainted,     \* history: something was added to the root store
  keyLost,     \* history: a peer's public key has a reference nobody can give up
  mishandled   \* history: a call the code cannot survive

history == <<given, stray, tainted, keyLost>>
contextVars == <<stores, root, sc, history, mishandled>>

NewStore == [refs |-> 1, certs |-> {}, crl |-> FALSE]
NoContext == [st |-> "none", ca |-> NULL, store |-> NULL, conns |-> 0, peer |-> 0, chain |-> "none"]

X509_STOREs == [refs : -1..1, certs : SUBSET (Certs \cup {RootCert}), crl : BOOLEAN]

tls_sc_ts ==
  [st : {"none", "open", "dropped", "closed"}, ca : 0..MaxStores, store : 0..MaxStores,
   conns : 0..MaxConns, peer : 0..2 * MaxConns, chain : {"none", "whole", "cut"}]

\* The shape of every variable.
ContextTypeOK ==
  /\ stores \in Seq(X509_STOREs) /\ Len(stores) <= MaxStores
  /\ root \in 0..MaxStores
  /\ sc \in [Ctxs -> tls_sc_ts]
  /\ given \in [Ctxs -> SUBSET Certs]
  /\ stray \in [Ctxs -> BOOLEAN]
  /\ tainted \in BOOLEAN /\ keyLost \in BOOLEAN /\ mishandled \in BOOLEAN

ContextInit ==
  /\ stores = <<>> /\ root = NULL
  /\ sc = [c \in Ctxs |-> NoContext]
  /\ given = [c \in Ctxs |-> {}]
  /\ stray = [c \in Ctxs |-> FALSE]
  /\ tainted = FALSE /\ keyLost = FALSE /\ mishandled = FALSE

-----------------------------------------------------------------------------
\* OpenSSL, as this file uses it.

X509_STORE_free(ss, s) == IF s = NULL THEN ss ELSE [ss EXCEPT ![s].refs = @ - 1]

\* The store a context had is freed, even if it is the same one.
SSL_CTX_set_cert_store(ss, x, s) == [stores |-> X509_STORE_free(ss, x.store), sc |-> [x EXCEPT !.store = s]]

\* The SSL_CTX goes with the last of the context and its connections.
SSL_CTX_free(ss, x) == IF x.conns = 0 THEN X509_STORE_free(ss, x.store) ELSE ss

AddTo(ss, s, certs) == [ss EXCEPT ![s].certs = @ \cup certs]

\* The references on the certificates of the peers of a context.
SSL_get_peer_certificate(x) == [x EXCEPT !.peer = @ + 1]
X509_free(x) == [x EXCEPT !.peer = @ - 1]

-----------------------------------------------------------------------------
\* Whether a text became a memory BIO, which an empty one does not: str2bio for
\* the setters that raise, _lua_load_bio for those that return false.
str2bio == BOOLEAN
_lua_load_bio == BOOLEAN

\* The certificate in the argument, none if it cannot be read.
_lua_load_x509 ==
  UNION {IF bio THEN {{}} \cup {{x} : x \in Certs} ELSE {{}} : bio \in _lua_load_bio}

Usable(c) == ~mishandled /\ sc[c].st = "open"

\* An error is raised and createCredentials drops the context.
Raise(c) == sc' = [sc EXCEPT ![c].st = "dropped"]

newSC == NoContext

\* tls_sc_create: SSL_CTX_new comes with a store of its own.  An unknown method
\* is refused before anything is allocated.
tls_sc_create(c) ==
  /\ ~mishandled /\ sc[c].st = "none" /\ Len(stores) < MaxStores
  /\ stores' = Append(stores, NewStore)
  /\ sc' = [sc EXCEPT ![c] = [newSC EXCEPT !.st = "open", !.store = Len(stores) + 1]]
  /\ UNCHANGED <<root, history, mishandled>>

\* tls_sc_set_key: a key that cannot be read, with its passphrase, raises.
tls_sc_set_key(c) ==
  /\ Usable(c)
  /\ \E bio \in str2bio : Raise(c) \/ (bio /\ UNCHANGED sc)
  /\ UNCHANGED <<stores, root, history, mishandled>>

\* SSL_CTX_use_certificate_chain: first the certificate itself; an earlier chain
\* is thrown away before the new one is read, so a failure may leave a part.
SSL_CTX_use_certificate_chain(old) == {<<old, FALSE>>, <<"cut", FALSE>>, <<"whole", TRUE>>}

tls_sc_set_cert(c) ==
  /\ Usable(c)
  /\ \E r \in SSL_CTX_use_certificate_chain(sc[c].chain) :
       sc' = [sc EXCEPT ![c].chain = r[1], ![c].st = IF r[2] THEN "open" ELSE "dropped"]
  /\ UNCHANGED <<stores, root, history, mishandled>>

\* tls_sc_set_ciphers raises for a list without a known cipher.
tls_sc_set_ciphers(c) ==
  /\ Usable(c)
  /\ Raise(c) \/ UNCHANGED sc
  /\ UNCHANGED <<stores, root, history, mishandled>>

\* X509_STORE_load_bio adds certificates until one fails; what was added stays.
X509_STORE_load_bio == {r \in (SUBSET Certs) \X BOOLEAN : r[2] => r[1] # {}}

\* tls_sc_add_trusted_cert: a first certificate brings a store, set at once.
tls_sc_add_trusted_cert(c) ==
  LET fresh == sc[c].ca = NULL
      ss    == IF fresh THEN Append(stores, NewStore) ELSE stores
      s     == IF fresh THEN Len(stores) + 1 ELSE sc[c].ca
      set   == IF fresh THEN SSL_CTX_set_cert_store(ss, [sc[c] EXCEPT !.ca = s], s)
               ELSE [stores |-> ss, sc |-> sc[c]]
  IN
  /\ Usable(c) /\ (fresh => Len(stores) < MaxStores)
  /\ \E r \in X509_STORE_load_bio :
       /\ stores' = AddTo(set.stores, s, r[1])
       /\ sc' = [sc EXCEPT ![c] = IF r[2] THEN set.sc ELSE [set.sc EXCEPT !.st = "dropped"]]
       /\ given' = [given EXCEPT ![c] = @ \cup r[1]]
       /\ tainted' = (tainted \/ (s = root /\ r[1] # {}))
  /\ UNCHANGED <<root, stray, keyLost, mishandled>>

\* tls_sc_add_ca_cert: a bad certificate returns false; when it is the first,
\* ca_store points to a new store that is never set.
tls_sc_add_ca_cert(c) ==
  LET fresh == sc[c].ca = NULL
      ss    == IF fresh THEN Append(stores, NewStore) ELSE stores
      s     == IF fresh THEN Len(stores) + 1 ELSE sc[c].ca
      kept  == [sc[c] EXCEPT !.ca = s]
      set   == IF fresh THEN SSL_CTX_set_cert_store(ss, kept, s) ELSE [stores |-> ss, sc |-> kept]
  IN
  /\ Usable(c) /\ (fresh => Len(stores) < MaxStores)
  /\ \E x509 \in _lua_load_x509 :
       /\ given' = [given EXCEPT ![c] = @ \cup x509]
       /\ tainted' = (tainted \/ (x509 # {} /\ s = root))
       /\ stray' = [stray EXCEPT ![c] = @ \/ (x509 = {} /\ fresh)]
       /\ IF x509 = {} THEN stores' = ss /\ sc' = [sc EXCEPT ![c] = kept]
          ELSE stores' = AddTo(set.stores, s, x509) /\ sc' = [sc EXCEPT ![c] = set.sc]
  /\ UNCHANGED <<root, keyLost, mishandled>>

\* tls_sc_add_root_certs: the first call fills the store, and false is returned
\* when that fails half way; later calls take it as it is.
tls_sc_add_root_certs(c) ==
  LET new    == root = NULL
      r      == IF new THEN Len(stores) + 1 ELSE root
      filled == IF new THEN Append(stores, [NewStore EXCEPT !.certs = {RootCert}]) ELSE stores
      set    == SSL_CTX_set_cert_store(filled, [sc[c] EXCEPT !.ca = r], r)
  IN
  /\ Usable(c) /\ (new => Len(stores) < MaxStores)
  /\ root' = r
  /\ \/ new /\ stores' = Append(stores, NewStore) /\ UNCHANGED <<sc, mishandled>>
     \/ /\ stores' = set.stores
        /\ sc' = [sc EXCEPT ![c] = set.sc]
        /\ mishandled' = (sc[c].store = r)
  /\ UNCHANGED history

\* tls_sc_add_crl: into whatever store ca_store is, which then checks lists for
\* every certificate.  A bad list returns false.
tls_sc_add_crl(c) ==
  /\ Usable(c)
  /\ \E read \in _lua_load_bio :
       /\ mishandled' = (read /\ sc[c].ca = NULL)
       /\ stores' = IF ~read \/ sc[c].ca = NULL THEN stores ELSE [stores EXCEPT ![sc[c].ca].crl = TRUE]
       /\ tainted' = (tainted \/ (read /\ root # NULL /\ sc[c].ca = root))
  /\ UNCHANGED <<root, sc, given, stray, keyLost>>

-----------------------------------------------------------------------------
\* SSL_new in newCONN, for a context that createCredentials returned.
SSL_new(c) ==
  /\ Usable(c) /\ sc[c].conns < MaxConns
  /\ sc' = [sc EXCEPT ![c].conns = @ + 1]
  /\ UNCHANGED <<stores, root, history, mishandled>>

\* sni_context_callback: the program's function names a context for the server
\* name, and SSL_set_SSL_CTX moves the connection there.  It keeps its reference
\* on the context it began with, so it holds two from now on; SSL_free below
\* gives up one at a time.
SSL_set_SSL_CTX(c, d) ==
  /\ Usable(d) /\ sc[c].conns > 0 /\ sc[d].conns < MaxConns
  /\ sc' = [sc EXCEPT ![d].conns = @ + 1]
  /\ UNCHANGED <<stores, root, history, mishandled>>

\* The handshake brings the certificate of the peer, if it has one.
SSL_handshake(c) ==
  /\ ~mishandled /\ sc[c].peer < sc[c].conns
  /\ sc' = [sc EXCEPT ![c].peer = @ + 1]
  /\ UNCHANGED <<stores, root, history, mishandled>>

\* tls_conn_get_peer_certificate takes a reference on the certificate, copies
\* its fields to a table and gives it up at the end.  The public key, and the
\* RSA key in it, it never gives up.
tls_conn_get_peer_certificate(c) ==
  /\ ~mishandled /\ sc[c].conns > 0 /\ sc[c].peer > 0
  /\ sc' = [sc EXCEPT ![c] = X509_free(SSL_get_peer_certificate(sc[c]))]
  /\ keyLost' = TRUE
  /\ UNCHANGED <<stores, root, given, stray, tainted, mishandled>>

\* SSL_free in tls_conn_close, for one context the connection refers to: the
\* certificate of the peer goes with it.
SSL_free(c) ==
  \E n \in {0, 1} :
  LET x == [sc[c] EXCEPT !.conns = @ - 1, !.peer = @ - n] IN
  /\ ~mishandled /\ sc[c].conns > 0
  /\ IF n = 0 THEN sc[c].peer < sc[c].conns ELSE sc[c].peer > 0
  /\ sc' = [sc EXCEPT ![c] = x]
  /\ stores' = IF x.st = "closed" THEN SSL_CTX_free(stores, x) ELSE stores
  /\ UNCHANGED <<root, history, mishandled>>

\* Mutant: the root store is freed with the context.
tls_sc_close_root(c) ==
  /\ ~mishandled /\ sc[c].st \in {"open", "dropped"}
  /\ stores' = SSL_CTX_free(stores, sc[c])
  /\ sc' = [sc EXCEPT ![c].st = "closed"]
  /\ UNCHANGED <<root, history, mishandled>>

\* tls_sc_close, from Lua or from the collector: the root store is taken out of
\* the SSL_CTX first, under the connections that may still need it.
tls_sc_close(c) ==
  LET x == IF sc[c].store = root THEN [sc[c] EXCEPT !.store = NULL] ELSE sc[c] IN
  /\ ~mishandled /\ sc[c].st \in {"open", "dropped"}
  /\ stores' = SSL_CTX_free(stores, x)
  /\ sc' = [sc EXCEPT ![c] = [x EXCEPT !.st = "closed"]]
  /\ mishandled' = (sc[c].conns > 0 /\ sc[c].store = root)
  /\ UNCHANGED <<root, history>>

-----------------------------------------------------------------------------
ContextNext == \E c \in Ctxs :
  \/ tls_sc_create(c) \/ tls_sc_set_key(c) \/ tls_sc_set_cert(c) \/ tls_sc_set_ciphers(c)
  \/ tls_sc_add_trusted_cert(c) \/ tls_sc_add_ca_cert(c)
  \/ tls_sc_add_root_certs(c) \/ tls_sc_add_crl(c)
  \/ SSL_new(c) \/ SSL_handshake(c) \/ tls_conn_get_peer_certificate(c) \/ SSL_free(c)
  \/ tls_sc_close(c)
  \/ \E d \in Ctxs : SSL_set_SSL_CTX(c, d)

ContextSpec == ContextInit /\ [][ContextNext]_contextVars

-----------------------------------------------------------------------------
InUse(c) == sc[c].st \in {"open", "dropped"} \/ sc[c].conns > 0

\* Every store that a context or a connection may still read is allocated, the
\* one root store that they share included, in whatever order they are closed.
StoresAlive ==
  ~mishandled =>
    /\ root # NULL => stores[root].refs = 1
    /\ \A c \in Ctxs : InUse(c) => sc[c].store # NULL /\ stores[sc[c].store].refs = 1
    /\ \A c \in Ctxs : sc[c].st = "open" /\ sc[c].ca # NULL => stores[sc[c].ca].refs = 1

\* No store is freed twice.
FreedOnce == ~mishandled => \A s \in DOMAIN stores : stores[s].refs >= 0

\* Nothing stays allocated when no context and no connection is left, except
\* the root store and the stores that were never set.
StoresFreed ==
  ~mishandled /\ (\A c \in Ctxs : ~InUse(c) /\ ~stray[c]) =>
    \A s \in DOMAIN stores : s # root => stores[s].refs = 0

\* A certificate that was reported as added is in the store that connections of
\* the context are verified with, unless its first certificate was bad or the
\* root store replaced what it had.
AddedIsTrusted ==
  ~mishandled => \A c \in Ctxs :
    sc[c].st = "open" /\ ~stray[c] /\ sc[c].store # root => given[c] \subseteq stores[sc[c].store].certs

\* Contexts are isolated: one trusts what it was given and perhaps the root
\* certificates, and checks revocation lists only if it asked for it, unless
\* somebody added to the store they share.
ContextsIsolated ==
  ~mishandled /\ ~tainted => \A c \in Ctxs : sc[c].st = "open" =>
    /\ stores[sc[c].store].certs \subseteq given[c] \cup {RootCert}
    /\ \A d \in Ctxs \ {c} :
         sc[d].st = "open" /\ sc[c].store = sc[d].store => sc[c].store = root /\ ~stores[root].crl

\* No connection is made from a context with a part of a certificate chain.
NoCutChain == \A c \in Ctxs : sc[c].conns > 0 /\ sc[c].st = "open" => sc[c].chain # "cut"

\* The certificate of a peer is not kept past the connection it came with,
\* however often the program asks for it.
PeersFreed == \A c \in Ctxs : sc[c].peer <= sc[c].conns

\* No store is used after it was freed, or freed twice.
StoresSound == StoresAlive /\ FreedOnce

\* Neither stores nor certificates of peers outlive their users.
NothingLeaked == StoresFreed /\ PeersFreed

\* A context trusts and presents what it was given: all that was reported as
\* added, nothing of another context, and no part of a chain.
TrustSound == AddedIsTrusted /\ ContextsIsolated /\ NoCutChain

\* In whatever order contexts are configured, connected, moved between and closed:
\* every store lives as long as it may be read and no longer, and a context trusts
\* what it was given.
ContextsSound == ContextTypeOK /\ StoresSound /\ NothingLeaked /\ TrustSound
=============================================================================
