--------------------------- MODULE BatchExecution ---------------------------
(***************************************************************************)
(* Executions of one prepared INSERT, UPDATE or DELETE with parameters:    *)
(* execute() and executeBatch() of db/api/PreparedStatement.js, atomic,    *)
(* in chunks and row by row, over execute() and executeBatch() of          *)
(* db/engine/StatementManager.js.                                          *)
(*                                                                         *)
(* A row is the width of its widest value.  The host reads parameter data  *)
(* in the format last registered for the statement: a single execution     *)
(* registers the widths of the PREPARE every time, a batch the widths of   *)
(* its own rows, and only when they differ from those of the batch before. *)
(* Requests are answered in the order they were sent (HostConnection); the *)
(* host's work and the code that runs on the reply are one step.           *)
(***************************************************************************)
EXTENDS Naturals, Sequences, SequencesExt, FiniteSetsExt

CONSTANTS Calls,      \* invocations of execute() and executeBatch()
          Batches,    \* the sequences of rows they may be given
          FullWidth,  \* the width of the parameter at PREPARE
          ChunkSize,  \* opts.chunkSize of the calls that pass one
          MaxBlock,   \* rows of one request (32000)
          QueryTimeout,  \* has the statement a query timeout
          Drops       \* may the connection drop

ASSUME BatchAssumption ==
  /\ FullWidth \in Nat \ {0}
  /\ ChunkSize \in Nat \ {0} /\ MaxBlock \in Nat \ {0}
  /\ Batches \subseteq Seq(1..FullWidth) \ {<<>>}
  /\ QueryTimeout \in BOOLEAN /\ Drops \in BOOLEAN

Modes == {"single", "atomic", "chunked", "each"}

VARIABLES
  pc,         \* "idle", "ready" for an engine call, "change", "execute",
              \* "done", "rejected", "rejected with counts"
  mode,       \* how the call executes its rows
  rows,       \* its rows
  from,       \* the first row of its engine call
  at,         \* the first row of its request
  counts,     \* its updateCounts, as far as they are filled in
  lastSentWidths, \* of the statement, 0 for null
  cancelled,  \* PreparedStatement#cancelled
  queue,      \* the calls whose requests are out, in the order of the host
  up,         \* the connection
  format,     \* host: the registered width, 0 for none
  written,    \* host: the rows it executed
  misread,    \* host: the calls whose data came in another format
  blind,      \* the calls whose reply did not count: interrupted or lost
  overlapped, \* did two calls run at the same time
  singles     \* was a single execution made between two batches

callVars == <<pc, mode, rows, from, at, counts>>
clientVars == <<lastSentWidths, cancelled>>
hostVars == <<format, written, misread>>
historyVars == <<blind, overlapped, singles>>
vars == <<callVars, clientVars, queue, up, hostVars, historyVars>>

Running(c) == pc[c] \in {"ready", "change", "execute"}

TypeOK ==
  /\ pc \in [Calls -> {"idle", "ready", "change", "execute", "done",
                       "rejected", "rejected with counts"}]
  /\ mode \in [Calls -> Modes]
  /\ \A c \in Calls : pc[c] # "idle" =>
       /\ rows[c] \in Batches
       /\ from[c] \in 1..Len(rows[c]) /\ at[c] \in from[c]..Len(rows[c])
       /\ counts[c] \in [1..Len(rows[c]) -> {"none", "done", "failed"}]
  /\ lastSentWidths \in 0..FullWidth /\ format \in 0..FullWidth
  /\ cancelled \in BOOLEAN /\ up \in BOOLEAN
  /\ IsInjective(queue)
  /\ \A c \in Calls : c \in ToSet(queue) <=> pc[c] \in {"change", "execute"}

Init ==
  /\ pc = [c \in Calls |-> "idle"]
  /\ mode = [c \in Calls |-> "single"]
  /\ rows = [c \in Calls |-> <<>>]
  /\ from = [c \in Calls |-> 0] /\ at = [c \in Calls |-> 0]
  /\ counts = [c \in Calls |-> <<>>]
  /\ lastSentWidths = 0 /\ cancelled = FALSE
  /\ queue = <<>> /\ up = TRUE
  /\ format = 0 /\ written = {} /\ misread = {}
  /\ blind = {} /\ overlapped = FALSE /\ singles = FALSE

-----------------------------------------------------------------------------
(* The rows of one engine call, and those of one request.                   *)
End(c) == CASE mode[c] = "atomic"  -> Len(rows[c])
            [] mode[c] = "chunked" -> Min({from[c] + ChunkSize - 1, Len(rows[c])})
            [] OTHER -> from[c]

Block(c) == at[c] .. Min({at[c] + MaxBlock - 1, End(c)})

IsBatch(c) == mode[c] \in {"atomic", "chunked"}

Width(c) == IF IsBatch(c) THEN Max({rows[c][i] : i \in from[c]..End(c)})
            ELSE FullWidth

(* updateCounts of the error of an engine call: rows before n were done.    *)
CountsUpTo(c, n) == [i \in 1..Len(rows[c]) |->
  IF i < from[c] THEN counts[c][i] ELSE IF i < n THEN "done" ELSE "failed"]

-----------------------------------------------------------------------------
(* How an engine call ends for its caller.                                  *)

Rejects(c, how) == /\ pc' = [pc EXCEPT ![c] = how]
                   /\ UNCHANGED <<mode, rows, from, at>>

(* The rows of the engine call are accounted for; on to the next ones.      *)
Proceeds(c, what) ==
  /\ counts' = [counts EXCEPT ![c] =
       [i \in DOMAIN @ |-> IF i \in from[c]..End(c) THEN what ELSE @[i]]]
  /\ UNCHANGED <<mode, rows>>
  /\ IF End(c) = Len(rows[c])
     THEN pc' = [pc EXCEPT ![c] = IF "failed" \in Range(counts'[c])
                                  THEN "rejected with counts" ELSE "done"]
          /\ UNCHANGED <<from, at>>
     ELSE /\ pc' = [pc EXCEPT ![c] = "ready"]
          /\ from' = [from EXCEPT ![c] = End(c) + 1]
          /\ at' = [at EXCEPT ![c] = End(c) + 1]

(* Mutant: the chunks after a failed one are executed.                      *)
ThrowsOn(c, isSqlError) ==
  IF mode[c] \in {"chunked", "each"} THEN Proceeds(c, "failed")
  ELSE Rejects(c, "rejected") /\ UNCHANGED counts

(* An error without update counts.  A chunk then counts as failed, with all *)
(* the rows after it; row by row, an SqlError fails one row.                *)
Throws(c, isSqlError) ==
  CASE mode[c] = "chunked" ->
         /\ counts' = [counts EXCEPT ![c] = CountsUpTo(c, from[c])]
         /\ Rejects(c, "rejected with counts")
    [] mode[c] = "each" /\ isSqlError -> Proceeds(c, "failed")
    [] OTHER -> Rejects(c, "rejected") /\ UNCHANGED counts

(* A BatchUpdateError of the engine, after n rows of the block.             *)
ThrowsCounts(c, n) ==
  IF IsBatch(c)
  THEN /\ counts' = [counts EXCEPT ![c] = CountsUpTo(c, at[c] + n)]
       /\ Rejects(c, "rejected with counts")
  ELSE Throws(c, TRUE)

(* With a query timeout, a call that finds itself cancelled afterwards      *)
(* throws HY008 whatever the engine returned or threw.                      *)
Interrupted == QueryTimeout /\ cancelled

-----------------------------------------------------------------------------
Begin(c, m, rs) ==
  /\ pc[c] = "idle"
  /\ m = "single" => Len(rs) = 1
  /\ m = "chunked" => Len(rs) > ChunkSize
  /\ pc' = [pc EXCEPT ![c] = "ready"]
  /\ mode' = [mode EXCEPT ![c] = m]
  /\ rows' = [rows EXCEPT ![c] = rs]
  /\ from' = [from EXCEPT ![c] = 1] /\ at' = [at EXCEPT ![c] = 1]
  /\ counts' = [counts EXCEPT ![c] = [i \in 1..Len(rs) |-> "none"]]
  /\ overlapped' = (overlapped \/ \E d \in Calls : Running(d))
  /\ singles' = (singles \/ m \in {"single", "each"})
  /\ UNCHANGED <<clientVars, queue, up, hostVars, blind>>

(* Cancelled before it began: HY008 at once, and the flag is used up.       *)
StartCancelled(c) ==
  /\ pc[c] = "ready"
  /\ cancelled
  /\ cancelled' = FALSE
  /\ Throws(c, TRUE)
  /\ UNCHANGED <<lastSentWidths, queue, up, hostVars, historyVars>>

(* Mutant: a batch registers its widths when they are larger.               *)
NeedsFormatIfWider(c) == ~IsBatch(c) \/ lastSentWidths < Width(c)

NeedsFormat(c) == ~IsBatch(c) \/ lastSentWidths # Width(c)

Start(c) ==
  /\ pc[c] = "ready"
  /\ ~cancelled
  /\ up
  /\ pc' = [pc EXCEPT ![c] = IF NeedsFormat(c) THEN "change" ELSE "execute"]
  /\ queue' = Append(queue, c)
  /\ UNCHANGED <<mode, rows, from, at, counts, clientVars, up, hostVars,
                 historyVars>>

IsNext(c, what) == up /\ pc[c] = what /\ Head(queue) = c

(* The format is registered; the request with the data follows.             *)
Changed(c) ==
  /\ IsNext(c, "change")
  /\ format' = Width(c)
  /\ lastSentWidths' = IF IsBatch(c) THEN Width(c) ELSE lastSentWidths
  /\ pc' = [pc EXCEPT ![c] = "execute"]
  /\ queue' = Append(Tail(queue), c)
  /\ UNCHANGED <<mode, rows, from, at, counts, cancelled, up, written, misread,
                 historyVars>>

(* The host executes the first n rows of the block.                         *)
Runs(c, n) ==
  /\ written' = written \cup {<<c, at[c] + i>> : i \in 0..n - 1}
  /\ misread' = IF format = Width(c) THEN misread ELSE misread \cup {c}
  /\ UNCHANGED format

IsLastBlock(c) == End(c) \in Block(c)

(* A block of many is done; the next one is sent.                           *)
BlockDone(c) ==
  /\ IsNext(c, "execute")
  /\ ~IsLastBlock(c)
  /\ Runs(c, Cardinality(Block(c)))
  /\ at' = [at EXCEPT ![c] = @ + MaxBlock]
  /\ queue' = Append(Tail(queue), c)
  /\ UNCHANGED <<pc, mode, rows, from, counts, clientVars, up, historyVars>>

Finished(c) ==
  /\ IsNext(c, "execute")
  /\ IsLastBlock(c)
  /\ ~Interrupted
  /\ Runs(c, Cardinality(Block(c)))
  /\ Proceeds(c, "done")
  /\ queue' = Tail(queue)
  /\ UNCHANGED <<clientVars, up, historyVars>>

(* Mutant: the rows of earlier blocks are left out of the count.            *)
FailedFromStart(c, n) ==
  /\ IsNext(c, "execute")
  /\ ~Interrupted
  /\ n < Cardinality(Block(c))
  /\ Runs(c, n)
  /\ IF IsBatch(c)
     THEN /\ counts' = [counts EXCEPT ![c] = CountsUpTo(c, from[c] + n)]
          /\ Rejects(c, "rejected with counts")
     ELSE Throws(c, TRUE)
  /\ queue' = Tail(queue)
  /\ UNCHANGED <<clientVars, up, historyVars>>

(* SQLERRD tells how many rows of the block were done before the error.     *)
Failed(c, n) ==
  /\ IsNext(c, "execute")
  /\ ~Interrupted
  /\ n < Cardinality(Block(c))
  /\ Runs(c, n)
  /\ ThrowsCounts(c, n)
  /\ queue' = Tail(queue)
  /\ UNCHANGED <<clientVars, up, historyVars>>

FormatRefused(c) ==
  /\ IsNext(c, "change")
  /\ ~Interrupted
  /\ Throws(c, TRUE)
  /\ queue' = Tail(queue)
  /\ UNCHANGED <<clientVars, up, hostVars, historyVars>>

(* The reply ends the engine call, but the call was cancelled meanwhile.    *)
EndsInterrupted(c) ==
  /\ Interrupted
  /\ \/ IsNext(c, "change") /\ UNCHANGED hostVars
     \/ /\ IsNext(c, "execute")
        /\ \E n \in 0..Cardinality(Block(c)) :
             /\ n = Cardinality(Block(c)) => IsLastBlock(c)
             /\ Runs(c, n)
  /\ cancelled' = FALSE
  /\ Throws(c, TRUE)
  /\ queue' = Tail(queue)
  /\ blind' = blind \cup {c}
  /\ UNCHANGED <<lastSentWidths, up, overlapped, singles>>

(* The watchdog of a call that runs, or cancel() by the client at any time. *)
Cancel ==
  /\ ~cancelled
  /\ cancelled' = TRUE
  /\ UNCHANGED <<callVars, lastSentWidths, queue, up, hostVars, historyVars>>

(* The connection is lost; the host may have executed the request that was  *)
(* first, or part of it.                                                    *)
Drop ==
  /\ Drops /\ up
  /\ up' = FALSE
  /\ \/ UNCHANGED hostVars
     \/ \E c \in Calls : IsNext(c, "execute") /\ \E n \in 1..Cardinality(Block(c)) : Runs(c, n)
  /\ blind' = blind \cup ToSet(queue)
  /\ UNCHANGED <<callVars, clientVars, queue, overlapped, singles>>

(* Mutant: a call that loses its connection keeps the turn.                 *)
LostKeepingTurn(c) ==
  /\ ~up
  /\ \/ pc[c] = "ready" /\ ~cancelled
     \/ queue # <<>> /\ c = Head(queue)
  /\ Throws(c, FALSE)
  /\ UNCHANGED <<queue, clientVars, up, hostVars, historyVars>>

Lost(c) ==
  /\ ~up
  /\ \/ pc[c] = "ready" /\ ~cancelled /\ UNCHANGED queue
     \/ queue # <<>> /\ c = Head(queue) /\ queue' = Tail(queue)
  /\ IF Interrupted THEN Throws(c, TRUE) ELSE Throws(c, FALSE)
  /\ cancelled' = (cancelled /\ ~Interrupted)
  /\ UNCHANGED <<lastSentWidths, up, hostVars, historyVars>>

-----------------------------------------------------------------------------
CallStep(c) ==
  \/ StartCancelled(c) \/ Start(c) \/ Changed(c) \/ FormatRefused(c)
  \/ BlockDone(c) \/ Finished(c) \/ EndsInterrupted(c) \/ Lost(c)
  \/ \E n \in 0..MaxBlock - 1 : Failed(c, n)

Next ==
  \/ \E c \in Calls : CallStep(c)
  \/ \E c \in Calls, m \in Modes, rs \in Batches : Begin(c, m, rs)
  \/ Cancel \/ Drop

Spec == Init /\ [][Next]_vars

(* Promises continue and the host answers, unless the connection is lost.   *)
FairSpec == Spec /\ \A c \in Calls : WF_vars(CallStep(c))

-----------------------------------------------------------------------------
(* The update counts a call ends with are what the host did: a row counted  *)
(* as done was done, and one counted as failed was not, unless the reply    *)
(* was overtaken by a cancel or lost with the connection; through every     *)
(* nesting of requests in chunks in calls.                                  *)
CountsAreTrue ==
  \A c \in Calls : pc[c] \in {"done", "rejected with counts"} =>
    \A i \in DOMAIN rows[c] :
      /\ counts[c][i] # "none"
      /\ counts[c][i] = "done" => <<c, i>> \in written
      /\ counts[c][i] = "failed" /\ c \notin blind => <<c, i>> \notin written

(* opts.chunkSize, PreparedStatement.js 535-538: when a chunk fails only    *)
(* the rows before it are in.  No row of a batch is executed after one that *)
(* was not, whichever of its requests and chunks fails.                     *)
RowsInOrder ==
  \A c \in Calls : IsBatch(c) =>
    \A i \in DOMAIN rows[c] : <<c, i>> \in written => \A j \in 1..i : <<c, j>> \in written

(* As long as calls do not overlap and none of them is a single execution,  *)
(* the host reads every batch in the format it was encoded in: the format   *)
(* may be left unregistered exactly when the widths are those of the batch  *)
(* before, whatever failed or was interrupted in between.                   *)
FormatsAgreeUnlessMixed == ~overlapped /\ ~singles => misread = {}

(* A call ends, cancelled, refused, lost or done.                           *)
CallsEnd == \A c \in Calls : Running(c) ~> ~Running(c)
=============================================================================
