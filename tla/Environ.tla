------------------------------- MODULE Environ -------------------------------
(***************************************************************************)
(* The environment: the functions of lenv.c on the C library's array of    *)
(* strings, and the table process.env of luvit.lua on top of them, which   *)
(* may be changed while pairs() walks it.                                  *)
(*                                                                         *)
(* setenv copies its argument, putenv does not: an entry made by lenv_put  *)
(* is the memory of a Lua string.  When the collector takes a string that  *)
(* the array still names, what the functions read there is anything; this  *)
(* sets `stale' and the model stops.                                       *)
(***************************************************************************)
EXTENDS Integers, Sequences, SequencesExt

CONSTANTS
  Names, Values, \* of environment variables
  MaxEntries,    \* bound: the length of the array
  MaxCalls       \* bound: calls that change it

ASSUME EnvironAssumption == MaxEntries \in Nat /\ MaxCalls \in Nat

nil == "nil"
NoWalk == [on |-> FALSE, keys |-> <<>>, index |-> 0, start |-> {}, touched |-> {}]

VARIABLES
  environ, \* the array: name, value, and whether it is a Lua string
  kept,    \* the names whose put string the program still refers to
  walk,    \* pairs(process.env): the names fetched at its start, how many were yielded
  calls,   \* how many calls changed the array
  asked,   \* history: what every name was last given
  stale    \* history: memory of a collected string was read

environVars == <<environ, kept, walk, calls, asked, stale>>

\* The shape of every variable.
EnvironTypeOK ==
  /\ environ \in Seq([name : Names, value : Values, lua : BOOLEAN]) /\ Len(environ) <= MaxEntries
  /\ kept \subseteq Names
  /\ walk \in [on : BOOLEAN, keys : Seq(Names), index : Nat, start : SUBSET Names, touched : SUBSET Names]
  /\ calls \in 0..MaxCalls
  /\ asked \in [Names -> Values \cup {nil}]
  /\ stale \in BOOLEAN

EnvironInit ==
  /\ environ = <<>> /\ kept = {} /\ walk = NoWalk /\ calls = 0
  /\ asked = [n \in Names |-> nil] /\ stale = FALSE

-----------------------------------------------------------------------------
\* The C library: every function looks at the names of the entries.

Entry(n, v, lua) == [name |-> n, value |-> v, lua |-> lua]
Has(env, n) == \E i \in DOMAIN env : env[i].name = n
Position(env, n) == SelectInSeq(env, LAMBDA e : e.name = n)
getenv(env, n) == IF Has(env, n) THEN env[Position(env, n)].value ELSE nil
unsetenv(env, n) == SelectSeq(env, LAMBDA e : e.name # n)
Replaced(env, e) == IF Has(env, e.name) THEN [env EXCEPT ![Position(env, e.name)] = e] ELSE Append(env, e)
setenv(env, n, v, overwrite) == IF Has(env, n) /\ ~overwrite THEN env ELSE Replaced(env, Entry(n, v, FALSE))
putenv(env, n, v) == Replaced(env, Entry(n, v, TRUE))

\* Some entry is the memory of a string that was collected.
Collected == \E i \in DOMAIN environ : environ[i].lua /\ environ[i].name \notin kept

-----------------------------------------------------------------------------
\* lenv.c

\* A call that changes the entry of n.  Going through the array, it reads them all.
Call(n, env, keeps, value) ==
  /\ ~stale /\ calls < MaxCalls /\ calls' = calls + 1
  /\ Len(env) <= MaxEntries
  /\ environ' = env /\ kept' = keeps
  /\ asked' = [asked EXCEPT ![n] = value]
  /\ stale' = Collected
  /\ walk' = IF walk.on THEN [walk EXCEPT !.touched = @ \cup {n}] ELSE walk

lenv_set(n, v, overwrite) ==
  Call(n, setenv(environ, n, v, overwrite), kept, IF overwrite \/ asked[n] = nil THEN v ELSE asked[n])

\* The string handed to put is the entry.
lenv_put(n, v) == Call(n, putenv(environ, n, v), kept \cup {n}, v)

lenv_unset(n) == Call(n, unsetenv(environ, n), kept, nil)

lenv_get(n) == getenv(environ, n)

lenv_keys == [i \in DOMAIN environ |-> environ[i].name]

\* The program lets go of the string it gave to put, and the collector takes it.
collect ==
  /\ ~stale
  /\ \E n \in kept : kept' = kept \ {n}
  /\ UNCHANGED <<environ, walk, calls, asked, stale>>

-----------------------------------------------------------------------------
\* process.env

newindex(n, v) == lenv_set(n, v, TRUE)
newindex_nil(n) == lenv_unset(n)

pairs ==
  /\ ~stale /\ ~walk.on
  /\ walk' = [on |-> TRUE, keys |-> lenv_keys, index |-> 0, start |-> ToSet(lenv_keys), touched |-> {}]
  /\ stale' = Collected
  /\ UNCHANGED <<environ, kept, calls, asked>>

\* Mutant: the walk asks for the names again at every step.
pairs_next_again ==
  /\ ~stale /\ walk.on /\ walk.index < Len(lenv_keys)
  /\ walk' = [walk EXCEPT !.index = @ + 1, !.keys = lenv_keys]
  /\ stale' = Collected
  /\ UNCHANGED <<environ, kept, calls, asked>>

\* The next name with the value it has now, which may be nil.
pairs_next ==
  /\ ~stale /\ walk.on /\ walk.index < Len(walk.keys)
  /\ walk' = [walk EXCEPT !.index = @ + 1]
  /\ stale' = Collected
  /\ UNCHANGED <<environ, kept, calls, asked>>

pairs_end ==
  /\ ~stale /\ walk.on
  /\ walk.index >= Len(walk.keys)
  /\ walk' = NoWalk
  /\ UNCHANGED <<environ, kept, calls, asked, stale>>

EnvironNext ==
  \/ \E n \in Names, v \in Values : lenv_set(n, v, FALSE) \/ lenv_put(n, v) \/ newindex(n, v)
  \/ \E n \in Names : newindex_nil(n)
  \/ collect \/ pairs \/ pairs_next \/ pairs_end

EnvironSpec == EnvironInit /\ [][EnvironNext]_environVars

-----------------------------------------------------------------------------
\* While no string of put was collected, reading a variable gives what it was last
\* given, whichever of set, put and unset were mixed before.
ReadsCurrent == ~stale => \A n \in Names : lenv_get(n) = asked[n]

\* A walk over process.env yields every variable that was there when it began and
\* none twice, whatever its body sets and unsets on the way.
WalksSound ==
  LET yielded == SubSeq(walk.keys, 1, walk.index) IN
  /\ walk.on /\ ~stale => \A i, j \in DOMAIN yielded : yielded[i] = yielded[j] => i = j
  /\ walk.on /\ ~stale /\ walk.index = Len(walk.keys) => ToSet(yielded) = walk.start

\* What a program sees of the environment.
EnvironSound == EnvironTypeOK /\ ReadsCurrent /\ WalksSound
=============================================================================
