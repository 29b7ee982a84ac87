------------------------- MODULE PreparedStatements -------------------------
(***************************************************************************)
(* The life of prepared statements on one database connection:             *)
(* db/api/Connection.js prepare(), close() and abort(),                    *)
(* db/api/PreparedStatementCache.js, db/api/PreparedStatement.js,          *)
(* db/api/ResultSet.js, db/engine/StatementManager.js and                  *)
(* db/engine/CursorManager.js, over the RPBs of the host server.           *)
(*                                                                         *)
(* A statement s is one PreparedStatement; a handle is the engine's record *)
(* of a prepare and is named after the statement that prepared it.  Every  *)
(* request is a sendAndReceive(): the connection lets one at a time out    *)
(* (HostConnection), so the server's effect and the code that runs on the  *)
(* reply, up to its next await, are one step.  Which of the waiting        *)
(* requests comes next is left open.                                       *)
(***************************************************************************)
EXTENDS Integers, FiniteSets, Sequences, SequencesExt

CONSTANTS Stmts,      \* the statements the client prepares
          Uncached,   \* those prepared with cache: false or a cursor name
          Sqls,       \* SQL texts, up to the case and spacing of their words
          Clashing,   \* texts that differ in the case or spacing of a literal
          Capacity,   \* of the statement cache
          RpbIds,     \* the largest RPB id: nextRpbId() wraps after it
          CloseEarly, \* may the client close() a statement while a request of it
                      \* is out, executing or given up by a timeout
          LeaveOpen,  \* may it close() one whose result set is still open
          Timeouts,   \* may a query timeout or a cancel() overtake an execution
          ConnEnds,   \* does it close() or abort() the connection
          Conn,       \* Connection.close(), as one that closes handles
          None

ASSUME StatementsAssumption ==
  /\ Uncached \subseteq Stmts
  /\ Clashing \subseteq Sqls
  /\ Capacity \in Nat \ {0}
  /\ RpbIds \in Nat \ {0}
  /\ CloseEarly \in BOOLEAN /\ LeaveOpen \in BOOLEAN
  /\ ConnEnds \in BOOLEAN /\ Timeouts \in BOOLEAN
  /\ Conn \notin Stmts /\ None \notin Stmts

Ids == 1..RpbIds
Closers == Stmts \cup {Conn}

VARIABLES
  cache,      \* PreparedStatementCache #map: idle handles, oldest first
  phase,      \* Connection.close(): open, drain, statements, cursors, down
  plan,       \* the handles that phase has still to close
  counter,    \* rpbCounter
  life,       \* of each statement
  sql,        \* its SQL text
  handle,     \* the handle it holds
  main,       \* the request its prepare() or execute() waits for
  results,    \* its result set in the hands of the client
  closing,    \* the request of a running closeStatement() or closeCursor()
  victim,     \* the handle it closes
  rpb,        \* stmt.rpbId of each handle, 0 before it has one
  dead,       \* handles with stmt.closed
  statements, \* StatementManager #statements: handles, by RPB id
  cursor,     \* CursorManager #cursors: RPB ids with an entry
  server      \* the RPBs on the host

apiVars == <<life, sql, handle, results>>
closeVars == <<closing, victim>>
connVars == <<phase, plan>>
engineVars == <<counter, rpb, dead, statements, cursor>>
vars == <<cache, phase, plan, counter, life, sql, handle, main, results,
          closing, victim, rpb, dead, statements, cursor, server>>

TypeOK ==
  /\ cache \in Seq([sql : Sqls, handle : Stmts])
  /\ Len(cache) <= Capacity
  /\ phase \in {"open", "drain", "statements", "cursors", "down"}
  /\ plan \in SUBSET Stmts
  /\ counter \in 0..RpbIds
  /\ life \in [Stmts -> {"new", "preparing", "open", "closed", "failed"}]
  /\ sql \in [Stmts -> Sqls \cup {None}]
  /\ handle \in [Stmts -> Stmts \cup {None}]
  /\ main \in [Stmts -> {"idle", "create", "prepare", "open", "stream",
                         "fetch", "close"}]
  /\ results \in [Stmts -> BOOLEAN]
  /\ closing \in [Closers -> {"idle", "cursor", "delete"}]
  /\ victim \in [Closers -> Stmts \cup {None}]
  /\ rpb \in [Stmts -> 0..RpbIds]
  /\ dead \in SUBSET Stmts
  /\ statements \in [Ids -> Stmts \cup {None}]
  /\ cursor \in SUBSET Ids
  /\ server \in [Ids -> {"none", "rpb", "prepared", "cursor"}]

Init ==
  /\ cache = <<>>
  /\ phase = "open" /\ plan = {}
  /\ counter = 0
  /\ life = [s \in Stmts |-> "new"]
  /\ sql = [s \in Stmts |-> None]
  /\ handle = [s \in Stmts |-> None]
  /\ main = [s \in Stmts |-> "idle"]
  /\ results = [s \in Stmts |-> FALSE]
  /\ closing = [k \in Closers |-> "idle"]
  /\ victim = [k \in Closers |-> None]
  /\ rpb = [s \in Stmts |-> 0]
  /\ dead = {}
  /\ statements = [i \in Ids |-> None]
  /\ cursor = {}
  /\ server = [i \in Ids |-> "none"]

-----------------------------------------------------------------------------
(* Requests.                                                                *)

Up == phase # "down"

(* A request of the statement, or of the closeStatement() or closeCursor()  *)
(* that k runs, is answered.                                                *)
Answered(s, kinds) == Up /\ main[s] \in kinds
AnsweredTo(k, kind) == Up /\ closing[k] = kind

Rpb(s) == rpb[handle[s]]

-----------------------------------------------------------------------------
(* Connection.prepare() and StatementManager.prepareStatement().            *)

(* normalizeKey() folds case and spacing in literals too.                   *)
SameKey(q, r) == q = r \/ {q, r} \subseteq Clashing

(* Mutant: whatever is cached is served.                                    *)
InCacheAny(q) == 1..Len(cache)

InCache(q) == {i \in 1..Len(cache) : SameKey(cache[i].sql, q)}
Cached == {cache[i].handle : i \in 1..Len(cache)}

(* acquire() finds an idle handle and removes it from the cache.            *)
Acquire(s, q) ==
  \E i \in InCache(q) :
    /\ handle' = [handle EXCEPT ![s] = cache[i].handle]
    /\ life' = [life EXCEPT ![s] = "open"]
    /\ cache' = RemoveAt(cache, i)
    /\ UNCHANGED <<main, counter, rpb>>

(* Mutant: the counter is not stored.                                       *)
NextRpbIdStuck == 1

NextRpbId == IF counter = RpbIds THEN 1 ELSE counter + 1

(* A new handle takes the next RPB id and creates its RPB.                  *)
Create(s) ==
  /\ counter' = NextRpbId
  /\ rpb' = [rpb EXCEPT ![s] = NextRpbId]
  /\ handle' = [handle EXCEPT ![s] = s]
  /\ life' = [life EXCEPT ![s] = "preparing"]
  /\ main' = [main EXCEPT ![s] = "create"]
  /\ cache' = cache

Prepare(s, q) ==
  /\ phase = "open"
  /\ life[s] = "new"
  /\ sql' = [sql EXCEPT ![s] = q]
  /\ \/ s \notin Uncached /\ Acquire(s, q)
     \/ (s \in Uncached \/ InCache(q) = {}) /\ Create(s)
  /\ UNCHANGED <<connVars, closeVars, results, dead, statements, cursor, server>>

(* Either request of a prepare may be refused: prepare() throws, and an RPB *)
(* that was created stays on the host.                                      *)
PrepareFails(s) ==
  /\ Answered(s, {"create", "prepare"})
  /\ life' = [life EXCEPT ![s] = "failed"]
  /\ main' = [main EXCEPT ![s] = "idle"]
  /\ UNCHANGED <<cache, connVars, sql, handle, results, closeVars, engineVars, server>>

Created(s) ==
  /\ Answered(s, {"create"})
  /\ server' = [server EXCEPT ![rpb[s]] = "rpb"]
  /\ main' = [main EXCEPT ![s] = "prepare"]
  /\ UNCHANGED <<cache, connVars, apiVars, closeVars, engineVars>>

(* The handle enters #statements and prepare() returns the statement, even  *)
(* if the connection is being closed meanwhile.                             *)
Prepared(s) ==
  /\ Answered(s, {"prepare"})
  /\ server[rpb[s]] # "none"
  /\ server' = [server EXCEPT ![rpb[s]] = "prepared"]
  /\ statements' = [statements EXCEPT ![rpb[s]] = s]
  /\ life' = [life EXCEPT ![s] = "open"]
  /\ main' = [main EXCEPT ![s] = "idle"]
  /\ UNCHANGED <<cache, connVars, sql, handle, results, closeVars, counter,
                 rpb, dead, cursor>>

-----------------------------------------------------------------------------
(* Execution of a query.  An execution without a result set changes nothing *)
(* of this and is left out, as is CHANGE_DESCRIPTOR before it.              *)

(* execute() reads the whole result set; executeForStream() and             *)
(* executeQuery() return it to the client.                                  *)
Execute(s) ==
  /\ Up
  /\ life[s] = "open"
  /\ main[s] = "idle"
  /\ handle[s] \notin dead
  /\ \E kind \in {"open", "stream"} : main' = [main EXCEPT ![s] = kind]
  /\ UNCHANGED <<cache, connVars, apiVars, closeVars, engineVars, server>>

(* OPEN_AND_DESCRIBE succeeds: the cursor is registered, and execute() goes *)
(* on to fetch.                                                             *)
Opened(s) ==
  /\ Answered(s, {"open", "stream"})
  /\ server[Rpb(s)] = "prepared"
  /\ server' = [server EXCEPT ![Rpb(s)] = "cursor"]
  /\ cursor' = cursor \cup {Rpb(s)}
  /\ main' = [main EXCEPT ![s] = IF @ = "open" THEN "fetch" ELSE "idle"]
  /\ results' = [results EXCEPT ![s] = (@ \/ main[s] = "stream")]
  /\ UNCHANGED <<cache, connVars, life, sql, handle, closeVars, counter, rpb,
                 dead, statements>>

(* The same, but the timer of #runWithCancellation() went off while the     *)
(* request was out: HY008 is thrown, and nobody closes the cursor.          *)
OpenedTooLate(s) ==
  /\ Timeouts
  /\ Answered(s, {"open", "stream"})
  /\ server[Rpb(s)] = "prepared"
  /\ server' = [server EXCEPT ![Rpb(s)] = "cursor"]
  /\ cursor' = cursor \cup {Rpb(s)}
  /\ main' = [main EXCEPT ![s] = "idle"]
  /\ UNCHANGED <<cache, connVars, apiVars, closeVars, counter, rpb, dead, statements>>

(* An SQL error, which is certain when the cursor is open already (-502) or *)
(* the RPB is gone: the execution throws.                                   *)
OpenFails(s) ==
  /\ Answered(s, {"open", "stream"})
  /\ main' = [main EXCEPT ![s] = "idle"]
  /\ UNCHANGED <<cache, connVars, apiVars, closeVars, engineVars, server>>

(* Mutant: execute() without the rs.close() of its finally block.           *)
AfterRowsUnclosed(s) == main' = [main EXCEPT ![s] = "idle"]

(* The finally block of execute() closes the cursor, if it has an entry.    *)
AfterRows(s) ==
  main' = [main EXCEPT ![s] = IF Rpb(s) \in cursor THEN "close" ELSE "idle"]

(* FETCH is answered with the end of the data or an error; a block of rows  *)
(* before it, and a next() of the client, change nothing here.              *)
Fetched(s) ==
  /\ Answered(s, {"fetch"})
  /\ AfterRows(s)
  /\ UNCHANGED <<cache, connVars, apiVars, closeVars, engineVars, server>>

(* close() of a result set in the client's hands, which outlives the       *)
(* close() of its statement.                                                *)
ResultsClose(s) ==
  /\ Up
  /\ results[s]
  /\ main[s] = "idle"
  /\ results' = [results EXCEPT ![s] = FALSE]
  /\ main' = [main EXCEPT ![s] = IF Rpb(s) \in cursor THEN "close" ELSE "idle"]
  /\ UNCHANGED <<cache, connVars, life, sql, handle, closeVars, engineVars, server>>

(* CLOSE of the cursor of an RPB: the entry goes, also when the host has no *)
(* such cursor (-501); if the RPB itself is gone the error keeps it.        *)
CursorClosed(i) ==
  /\ server' = [server EXCEPT ![i] = IF @ = "cursor" THEN "prepared" ELSE @]
  /\ cursor' = IF server[i] = "none" THEN cursor ELSE cursor \ {i}

Closed(s) ==
  /\ Answered(s, {"close"})
  /\ CursorClosed(Rpb(s))
  /\ main' = [main EXCEPT ![s] = "idle"]
  /\ UNCHANGED <<cache, connVars, apiVars, closeVars, counter, rpb, dead, statements>>

-----------------------------------------------------------------------------
(* Closing.                                                                 *)

(* closeStatement(h), run by k: the cursor if it has an entry, then the     *)
(* descriptor and the RPB, which are one request here: the host does        *)
(* nothing between them that anybody sees.                                  *)
Retire(k, h) ==
  IF h \in dead
    THEN UNCHANGED <<closing, victim>>
    ELSE /\ closing' = [closing EXCEPT ![k] =
                          IF rpb[h] \in cursor THEN "cursor" ELSE "delete"]
         /\ victim' = [victim EXCEPT ![k] = h]

(* Mutant: the capacity is compared with > instead of >=.                   *)
DisplacedLate(q) ==
  IF InCache(q) # {} THEN InCache(q)
  ELSE IF Len(cache) > Capacity THEN {1} ELSE {}

(* The entry that release() displaces: the one with the same SQL, or the    *)
(* oldest of a full cache.                                                  *)
Displaced(q) ==
  IF InCache(q) # {} THEN InCache(q)
  ELSE IF Len(cache) >= Capacity THEN {1} ELSE {}

(* Mutant: put(), which forgets the displaced handle.                       *)
GiveBackPut(s) ==
  LET entry == [sql |-> sql[s], handle |-> handle[s]]
  IN \/ /\ Displaced(sql[s]) = {}
        /\ cache' = Append(cache, entry)
        /\ UNCHANGED <<closing, victim>>
     \/ \E i \in Displaced(sql[s]) :
          /\ cache' = Append(RemoveAt(cache, i), entry)
          /\ UNCHANGED <<closing, victim>>

(* #returnHandleToCache() of an open connection.                            *)
GiveBack(s) ==
  LET entry == [sql |-> sql[s], handle |-> handle[s]]
  IN \/ /\ Displaced(sql[s]) = {}
        /\ cache' = Append(cache, entry)
        /\ UNCHANGED <<closing, victim>>
     \/ \E i \in Displaced(sql[s]) :
          /\ cache' = Append(RemoveAt(cache, i), entry)
          /\ Retire(s, cache[i].handle)

(* Mutant: close() without its #closed flag.                                *)
CloseTwice(s) ==
  /\ Up
  /\ life[s] \in {"open", "closed"}
  /\ main[s] = "idle" \/ CloseEarly
  /\ ~results[s] \/ LeaveOpen
  /\ closing[s] = "idle"
  /\ life' = [life EXCEPT ![s] = "closed"]
  /\ IF s \in Uncached \/ phase # "open"
       THEN Retire(s, handle[s]) /\ cache' = cache
       ELSE GiveBack(s)
  /\ UNCHANGED <<connVars, sql, handle, main, results, engineVars, server>>

(* PreparedStatement.close().                                               *)
Close(s) ==
  /\ Up
  /\ life[s] = "open"
  /\ main[s] = "idle" \/ CloseEarly
  /\ ~results[s] \/ LeaveOpen
  /\ life' = [life EXCEPT ![s] = "closed"]
  /\ IF s \in Uncached \/ phase # "open"
       THEN Retire(s, handle[s]) /\ cache' = cache
       ELSE GiveBack(s)
  /\ UNCHANGED <<connVars, sql, handle, main, results, engineVars, server>>

(* The cursor is closed, or the host said why not; closeAll() of the        *)
(* CursorManager stops here and forgets the entry in either case.           *)
VictimCursorClosed(k) ==
  /\ AnsweredTo(k, "cursor")
  /\ IF k = Conn /\ phase = "cursors"
       THEN /\ server' = [server EXCEPT ![rpb[victim[k]]] =
                            IF @ = "cursor" THEN "prepared" ELSE @]
            /\ cursor' = cursor \ {rpb[victim[k]]}
            /\ closing' = [closing EXCEPT ![k] = "idle"]
            /\ victim' = [victim EXCEPT ![k] = None]
       ELSE /\ CursorClosed(rpb[victim[k]])
            /\ closing' = [closing EXCEPT ![k] = "delete"]
            /\ victim' = victim
  /\ UNCHANGED <<cache, connVars, apiVars, main, counter, rpb, dead, statements>>

(* Mutant: closeStatement() forgets to drop the handle from #statements.    *)
VictimDeletedKept(k) ==
  /\ AnsweredTo(k, "delete")
  /\ server' = [server EXCEPT ![rpb[victim[k]]] = "none"]
  /\ dead' = dead \cup {victim[k]}
  /\ closing' = [closing EXCEPT ![k] = "idle"]
  /\ victim' = [victim EXCEPT ![k] = None]
  /\ UNCHANGED <<cache, connVars, apiVars, main, counter, rpb, cursor, statements>>

VictimDeleted(k) ==
  /\ AnsweredTo(k, "delete")
  /\ server' = [server EXCEPT ![rpb[victim[k]]] = "none"]
  /\ dead' = dead \cup {victim[k]}
  /\ statements' = [statements EXCEPT ![rpb[victim[k]]] = None]
  /\ closing' = [closing EXCEPT ![k] = "idle"]
  /\ victim' = [victim EXCEPT ![k] = None]
  /\ UNCHANGED <<cache, connVars, apiVars, main, counter, rpb, cursor>>

-----------------------------------------------------------------------------
(* Connection.close() and abort(), and DbConnection.close() in both.        *)

InStatements == {statements[i] : i \in Ids} \ {None}

ConnClose ==
  /\ ConnEnds
  /\ phase = "open"
  /\ phase' = "drain"
  /\ plan' = Cached
  /\ cache' = <<>>
  /\ UNCHANGED <<apiVars, main, closeVars, engineVars, server>>

ConnAbort ==
  /\ ConnEnds
  /\ phase = "open"
  /\ phase' = "statements"
  /\ plan' = InStatements
  /\ UNCHANGED <<cache, apiVars, main, closeVars, engineVars, server>>

(* Mutant: closeAll() returns at the first statement that is closed.        *)
ConnNextReturning ==
  /\ closing[Conn] = "idle"
  /\ phase \in {"drain", "statements", "cursors"}
  /\ \E h \in plan \ dead :
       /\ plan' = plan \ {h}
       /\ IF phase = "cursors" /\ rpb[h] \notin cursor
            THEN UNCHANGED <<closing, victim>>
            ELSE Retire(Conn, h)
  /\ UNCHANGED <<cache, phase, apiVars, main, engineVars, server>>

(* The loop of a phase goes on to its next handle.  The order is that of a  *)
(* Map; any order is allowed here.                                          *)
ConnNext ==
  /\ closing[Conn] = "idle"
  /\ phase \in {"drain", "statements", "cursors"}
  /\ \E h \in plan :
       /\ plan' = plan \ {h}
       /\ IF phase = "cursors" /\ rpb[h] \notin cursor
            THEN UNCHANGED <<closing, victim>>
            ELSE IF phase = "cursors"
            THEN /\ closing' = [closing EXCEPT ![Conn] = "cursor"]
                 /\ victim' = [victim EXCEPT ![Conn] = h]
            ELSE Retire(Conn, h)
  /\ UNCHANGED <<cache, phase, apiVars, main, engineVars, server>>

(* The loop is done.  At the end the socket is destroyed: requests that are *)
(* still unanswered stay so.                                                *)
ConnPhase ==
  /\ closing[Conn] = "idle"
  /\ plan = {}
  /\ \/ /\ phase = "drain"
        /\ phase' = "statements"
        /\ plan' = InStatements
     \/ /\ phase = "statements"
        /\ phase' = "cursors"
        /\ plan' = {s \in Stmts : rpb[s] \in cursor}
     \/ /\ phase = "cursors"
        /\ phase' = "down"
        /\ plan' = {}
  /\ UNCHANGED <<cache, apiVars, main, closeVars, engineVars, server>>

-----------------------------------------------------------------------------
Reply(s) ==
  \/ PrepareFails(s) \/ Created(s) \/ Prepared(s)
  \/ Opened(s) \/ OpenedTooLate(s) \/ OpenFails(s) \/ Fetched(s) \/ Closed(s)

CloseReply(k) == VictimCursorClosed(k) \/ VictimDeleted(k)

Client ==
  \E s \in Stmts :
    \/ \E q \in Sqls : Prepare(s, q)
    \/ Execute(s) \/ ResultsClose(s) \/ Close(s)

Next ==
  \/ Client
  \/ \E s \in Stmts : Reply(s)
  \/ \E k \in Closers : CloseReply(k)
  \/ ConnClose \/ ConnAbort \/ ConnNext \/ ConnPhase

Spec == Init /\ [][Next]_vars

(* Every request gets its turn and is answered (the queue of the connection *)
(* is first come, first served), and the loops of close() go on; the client *)
(* need not do anything.                                                    *)
Fairness ==
  /\ \A s \in Stmts : WF_vars(Reply(s))
  /\ \A k \in Closers : WF_vars(CloseReply(k))
  /\ WF_vars(ConnNext \/ ConnPhase)

FairSpec == Spec /\ Fairness

-----------------------------------------------------------------------------
(* Properties.                                                              *)

(* While the connection is open, a statement that prepare() returned keeps  *)
(* its RPB until its own close(): no eviction, duplicate or other close     *)
(* takes it away.                                                           *)
OpenStatementsKeepTheirRpb ==
  phase = "open" => \A s \in Stmts : life[s] = "open" =>
     /\ server[Rpb(s)] \in {"prepared", "cursor"}
     /\ statements[Rpb(s)] = handle[s]
     /\ \A k \in Closers : victim[k] # handle[s]

(* A handle that the cache can hand out is prepared on the host and has no  *)
(* cursor there that would make its next execution fail with -502.          *)
CachedHandlesAreReady ==
  phase = "open" => \A h \in Cached :
     /\ server[rpb[h]] = "prepared"
     /\ rpb[h] \notin cursor
     /\ h \notin dead

(* A statement runs the SQL text its client asked for, whoever prepared the *)
(* handle it was given and whatever the cache has evicted since.  Texts that*)
(* normalizeKey() does not tell apart are excepted.                         *)
HandleRunsOwnSql ==
  \A s \in Stmts : life[s] = "open" =>
    sql[handle[s]] = sql[s] \/ {sql[handle[s]], sql[s]} \subseteq Clashing

(* Every RPB on the host is cached, held by an open statement, being        *)
(* prepared or being closed; only a prepare that failed leaves one behind.  *)
NoRpbLeaks ==
  phase = "open" => \A i \in Ids : server[i] # "none" =>
     \E h \in Stmts :
       /\ rpb[h] = i
       /\ \/ h \in Cached
          \/ \E s \in Stmts : handle[s] = h /\ life[s] \in {"preparing", "open"}
          \/ \E k \in Closers : victim[k] = h
          \/ life[h] = "failed"

(* Whenever no request is outstanding, the client's books agree with the    *)
(* host: #statements with the prepared RPBs and #cursors with the cursors.  *)
AtRest == /\ \A s \in Stmts : main[s] = "idle"
          /\ \A k \in Closers : closing[k] = "idle"

BooksMatchHost ==
  AtRest /\ phase = "open" =>
    \A i \in Ids :
      /\ statements[i] # None <=> server[i] \in {"prepared", "cursor"}
      /\ i \in cursor <=> server[i] = "cursor"

(* close() and abort() come to their end, whatever the statements are doing *)
(* and even if some of them are closed by their clients at the same time.   *)
CloseCompletes == phase # "open" ~> phase = "down"

(* PreparedStatementCache.js: the cache holds only idle, not-in-use handles.*)
(* A statement uses its handle from prepare() to close(), while a request of*)
(* it is out, and while its result set is open.                             *)
InUse(s) == \/ life[s] \in {"preparing", "open"}
            \/ main[s] # "idle"
            \/ results[s]

CacheHoldsOnlyIdle ==
  \A s \in Stmts : InUse(s) => handle[s] \notin Cached

(* Each handle is leased as HandleLease says.  A handle that two statements *)
(* use, that is cached twice, or used and cached, is leased to nobody.      *)
ASSUME LeaseAssumption == {"unborn", "shared", "idle", "retired"} \cap Stmts = {}

Lessees(h) == {s \in Stmts : handle[s] = h /\ InUse(s)}
Entries(h) == {i \in 1..Len(cache) : cache[i].handle = h}

LeaseOf(h) ==
  CASE rpb[h] = 0 -> "unborn"
    [] Cardinality(Lessees(h)) + Cardinality(Entries(h)) > 1 -> "shared"
    [] Lessees(h) # {} -> CHOOSE s \in Stmts : s \in Lessees(h)
    [] Entries(h) # {} -> "idle"
    [] OTHER -> "retired"

Lease == INSTANCE HandleLease WITH
           Handles <- Stmts, Owners <- Stmts,
           Unborn <- "unborn", Idle <- "idle", Retired <- "retired",
           owner <- [h \in Stmts |-> LeaseOf(h)]

(* The lease semantics of the cache: a handle is used by one statement at   *)
(* most, executions and open result sets included, is in the cache once and *)
(* only while nobody uses it, and is never used again once it is retired.   *)
(* It takes clients that close a statement at rest: see CacheHoldsOnlyIdle. *)
ImplementsLease == Lease!Spec
=============================================================================
