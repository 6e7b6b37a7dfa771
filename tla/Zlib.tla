-------------------------------- MODULE Zlib --------------------------------
(***************************************************************************)
(* A compressing or decompressing stream: Zlib of zlib.lua on the write    *)
(* loop of luv_zlib.c.  Input and output are counted in units; what is     *)
(* inside is zlib's, which is external: a call of its filter takes input   *)
(* and gives output until it has no more of the one or no more room for    *)
(* the other.                                                              *)
(*                                                                         *)
(* The handlers of "data", "drain", "error" and "end" run inside           *)
(* Zlib:write and may write, end or close the same stream.                 *)
(***************************************************************************)
EXTENDS Integers, Sequences, FiniteSetsExt

CONSTANTS
  LUAL_BUFFERSIZE, \* the output units a buffer holds
  MaxInput,        \* bound: the units of a chunk
  MaxStream,       \* bound: the units of a compressed stream
  MaxGain,         \* bound: the output units that one call of a filter comes to know
  MaxWrites        \* bound: calls of write

ASSUME ZlibAssumption ==
  /\ LUAL_BUFFERSIZE \in Nat \ {0}
  /\ MaxInput \in Nat /\ MaxStream \in Nat /\ MaxGain \in Nat /\ MaxWrites \in Nat

VARIABLES
  z,       \* the z_t: method, output not given yet, input up to the end of the stream, and its end
  call,    \* lz_stream_write in progress: avail_in, flush, the output so far, rc
  drains,  \* how many calls of Zlib:write have a handler of "data" running and "drain" to emit
  self,    \* the Zlib object: whether it has its stream, and whether "end" was emitted
  writes,  \* how many writes were made
  hist     \* history: units the filter came to know, given by "data" and dropped with an error, and mishaps

zlibVars == <<z, call, drains, self, writes, hist>>

Flushes == {"none", "sync", "full", "finish"}
Good == {"Z_OK", "Z_STREAM_END", "Z_BUF_ERROR"}
NoCall == [active |-> FALSE, avail_in |-> 0, flush |-> "none", out |-> 0, rc |-> "Z_OK"]
\* No output is larger than what all the calls of the filters can come to know.
MaxOutput == MaxGain * MaxInput * MaxWrites

\* The shape of every variable.
ZlibTypeOK ==
  /\ z \in [method : {"inflate", "deflate"}, held : 0..MaxOutput, todo : 0..MaxStream, over : BOOLEAN, bad : BOOLEAN]
  /\ call \in [active : BOOLEAN, avail_in : 0..MaxInput, flush : Flushes, out : 0..MaxOutput, rc : Good \cup {"Z_DATA_ERROR"}]
  /\ drains \in 0..MaxWrites
  /\ self \in [zlib : BOOLEAN, ended : BOOLEAN]
  /\ writes \in 0..MaxWrites
  /\ hist \in [known : 0..MaxOutput, given : 0..MaxOutput, dropped : 0..MaxOutput, late : BOOLEAN, overrun : BOOLEAN]

\* lz_stream_new: a decompressing stream ends after some number of units, which
\* the data decides; a compressing one when it is told to.
lz_stream_new(method) ==
  {[method |-> method, held |-> 0, todo |-> n, over |-> FALSE, bad |-> FALSE] :
     n \in IF method = "inflate" THEN 1..MaxStream ELSE {0}}

ZlibInit ==
  /\ z \in lz_stream_new("inflate") \cup lz_stream_new("deflate")
  /\ call = NoCall /\ drains = 0
  /\ self = [zlib |-> TRUE, ended |-> FALSE] /\ writes = 0
  /\ hist = [known |-> 0, given |-> 0, dropped |-> 0, late |-> FALSE, overrun |-> FALSE]

-----------------------------------------------------------------------------
\* zlib.  A call takes `in' units, learns `gain' units of output and gives `out'.

\* How much it may take and give: it stops for want of input or of room.
Moves(left, gain, lazy) ==
  {m \in [in : 0..call.avail_in, out : 0..LUAL_BUFFERSIZE] :
     /\ m.in <= left /\ m.out <= z.held + gain
     /\ m.in = 0 => gain = 0
     /\ \/ m.out = LUAL_BUFFERSIZE
        \/ m.in = Min({call.avail_in, left}) /\ (lazy \/ m.out = z.held + gain)}

Outcome(m, gain, e, rc) == [in |-> m.in, out |-> m.out, gain |-> gain, z |-> e, rc |-> rc]

\* deflate: it may keep output back while it is not told to flush; after its last
\* block it gives what is left and takes no input any more.
deflate ==
  IF z.over /\ call.avail_in > 0
  THEN LET out == Min({z.held, LUAL_BUFFERSIZE})
       IN  {Outcome([in |-> 0, out |-> out], 0, [z EXCEPT !.held = @ - out], "Z_BUF_ERROR")}
  ELSE UNION {{LET held == z.held + g - m.out
                   over == call.flush = "finish" /\ m.in = call.avail_in
               IN  Outcome(m, g, [z EXCEPT !.held = held, !.over = over],
                           IF over /\ held = 0 THEN "Z_STREAM_END" ELSE "Z_OK") :
                 m \in Moves(MaxInput, g, call.flush = "none")} : g \in 0..MaxGain}

\* inflate: it stops at the end of the stream, whatever follows; data it cannot
\* read it never reads.
inflate ==
  (IF z.todo > 0 THEN {Outcome([in |-> 0, out |-> 0], 0, [z EXCEPT !.bad = TRUE], "Z_DATA_ERROR")} ELSE {})
    \cup IF z.bad THEN {}
         ELSE UNION {{LET held == z.held + g - m.out
                          over == z.todo = m.in /\ held = 0
                      IN  Outcome(m, g, [z EXCEPT !.held = held, !.todo = @ - m.in, !.over = over],
                                  IF over THEN "Z_STREAM_END" ELSE IF call.flush = "finish" THEN "Z_BUF_ERROR" ELSE "Z_OK") :
                        m \in Moves(z.todo, g, FALSE)} : g \in 0..MaxGain}

filter == IF z.method = "deflate" THEN deflate ELSE inflate

-----------------------------------------------------------------------------
\* lz_stream_write

\* Mutant: the loop goes on until the end of the stream.
Looping_toEnd == call.avail_in > 0 \/ ~z.over

Looping == call.avail_in > 0

\* Mutant: the output of a call that reports Z_BUF_ERROR is not added.
AddSize_noBuf(o) == IF o.rc \in {"Z_OK", "Z_STREAM_END"} THEN o.out ELSE 0

\* luaL_addsize: not reached after an error.
AddSize(o) == IF o.rc \in Good THEN o.out ELSE 0

\* One round of the loop; an error leaves it.
lz_stream_write ==
  /\ call.active /\ Looping /\ call.rc \in Good
  /\ \E o \in filter :
       /\ z' = o.z
       /\ call' = [call EXCEPT !.avail_in = @ - o.in, !.out = @ + AddSize(o), !.rc = o.rc]
       /\ hist' = [hist EXCEPT !.known = @ + o.gain, !.overrun = @ \/ (z.over /\ call.avail_in > 0)]
  /\ UNCHANGED <<drains, self, writes>>

\* Its return, and what Zlib:write does with it: nil and the error, the output
\* before it being lost, or the text.  "data" is emitted when there is some, and
\* "drain" after its handlers.
lz_stream_write_return ==
  /\ call.active /\ (Looping => call.rc \notin Good)
  /\ call' = NoCall
  /\ IF call.rc \in Good
     THEN /\ hist' = [hist EXCEPT !.given = @ + call.out, !.late = @ \/ (self.ended /\ call.out > 0)]
          /\ drains' = IF call.out > 0 THEN drains + 1 ELSE drains
     ELSE /\ hist' = [hist EXCEPT !.dropped = @ + call.out]
          /\ UNCHANGED drains
  /\ UNCHANGED <<z, self, writes>>

-----------------------------------------------------------------------------
\* Zlib, called by the program, by a pipe or by a handler.

\* Zlib:write without a flag leaves the flag to the binding, which takes the
\* last of flush_opts.
Flag(flag) == IF flag = "nil" THEN "finish" ELSE flag

\* A stream that was ended or closed, and a chunk that is nil, raise an error.
write ==
  /\ ~call.active /\ self.zlib /\ writes < MaxWrites
  /\ writes' = writes + 1
  /\ \E n \in 0..MaxInput, flag \in Flushes \cup {"nil"} :
       call' = [NoCall EXCEPT !.active = TRUE, !.avail_in = n, !.flush = Flag(flag)]
  /\ UNCHANGED <<z, drains, self, hist>>

\* The handlers of "data" have returned.
emit_drain ==
  /\ ~call.active /\ drains > 0
  /\ drains' = drains - 1
  /\ UNCHANGED <<z, call, self, writes, hist>>

done ==
  /\ ~call.active
  /\ self' = [zlib |-> FALSE, ended |-> TRUE]
  /\ UNCHANGED <<z, call, drains, writes, hist>>

close ==
  /\ ~call.active
  /\ self' = [self EXCEPT !.zlib = FALSE]
  /\ UNCHANGED <<z, call, drains, writes, hist>>

ZlibNext == lz_stream_write \/ lz_stream_write_return \/ write \/ emit_drain \/ done \/ close

ZlibSpec == ZlibInit /\ [][ZlibNext]_zlibVars

\* The loop is C code that runs to its end.
ZlibFairness == WF_zlibVars(lz_stream_write \/ lz_stream_write_return)

-----------------------------------------------------------------------------
\* Every unit of output that zlib came to know was given to the program, is still
\* inside, waits in the buffer of the write, or was lost with an error: the loop
\* neither drops nor repeats the output of a call, whatever the call returned.
OutputConserved == hist.known = hist.given + hist.dropped + z.held + call.out

\* Every write returns, except one that brings input to a stream which has ended:
\* no call of zlib takes it, and the loop waits for that (luv_zlib.c:58).
WritesEnd == call.active ~> (~call.active \/ hist.overrun)

\* "data" never follows "end", also when a handler of "data" ends the stream and
\* others write to it.
NoDataAfterEnd == ~hist.late

\* What the program gets of a stream: all that the loop got out of zlib, and nothing
\* after "end".  What stays inside zlib when the input is used up (z.held) is not lost
\* but may never come.
StreamSound == ZlibTypeOK /\ OutputConserved /\ NoDataAfterEnd
=============================================================================
