-------------------------- MODULE QueryStatements --------------------------
(***************************************************************************)
(* db/api/Statement.js: one plain statement, its executions and the result *)
(* sets they return.  query() and execute() with generated keys prepare a  *)
(* handle of their own and close it; executeQuery() leaves its handle in   *)
(* #activeHandle, for the close() of the result set or of the statement.   *)
(* execute() sends its SQL without a handle; so does executeBatch(), which  *)
(* leaves #lastResultSet as it is and is not modelled.                      *)
(*                                                                         *)
(* A handle and a result set are named after the call that made them.      *)
(* Exchanges are served in the order they were sent.                       *)
(***************************************************************************)
EXTENDS Naturals, FiniteSets

CONSTANTS Calls,   \* calls of query(), executeQuery(), execute()
          None     \* no handle, no result set

ASSUME QueryAssumption == None \notin Calls

VARIABLES
  stmt,          \* close() of the statement: open, result set, handle, closed
  active,        \* #activeHandle
  activeClosed,  \* #activeHandleClosed
  last,          \* #lastResultSet
  cancelled,     \* #cancelled
  more,          \* the result set getMoreResults() is closing
  kind,          \* what each call is
  pc,            \* where each call is
  awaits,        \* the handle whose close a call, or close(), waits for
  handle,        \* the handles on the host
  rs,            \* the result sets of the clients
  newest,        \* history: the last executeQuery() that began
  overlapped,    \* history: a call or close() began during another call
  stale          \* history: the close of an older result set met a new handle

statementVars == <<stmt, active, activeClosed, last, cancelled>>
histories == <<newest, overlapped, stale>>
vars == <<statementVars, more, kind, pc, awaits, handle, rs, histories>>

Closer == "close"   \* close() of the statement, where it waits like a call

InFlight(c) == pc[c] \notin {"idle", "done", "failed"}

TypeOK ==
  /\ stmt \in {"open", "result set", "handle", "closed"}
  /\ active \in Calls \cup {None}
  /\ activeClosed \in BOOLEAN
  /\ last \in Calls \cup {None}
  /\ cancelled \in BOOLEAN
  /\ more \in Calls \cup {None}
  /\ kind \in [Calls -> {"executeQuery", "own", "immediate"}]
  /\ pc \in [Calls -> {"idle", "closing old", "preparing", "executing",
                       "finishing", "failing", "done", "failed"}]
  /\ awaits \in [Calls \cup {Closer} -> Calls \cup {None}]
  /\ handle \in [Calls -> {"none", "prepared", "cursor", "closing", "closed"}]
  /\ rs \in [Calls -> {"none", "open", "closing", "closed"}]
  /\ newest \in Calls \cup {None}
  /\ overlapped \in BOOLEAN
  /\ stale \in BOOLEAN

Init ==
  /\ stmt = "open"
  /\ active = None
  /\ activeClosed = FALSE
  /\ last = None
  /\ cancelled = FALSE
  /\ more = None
  /\ kind \in [Calls -> {"executeQuery", "own", "immediate"}]
  /\ pc = [c \in Calls |-> "idle"]
  /\ awaits = [c \in Calls \cup {Closer} |-> None]
  /\ handle = [c \in Calls |-> "none"]
  /\ rs = [c \in Calls |-> "none"]
  /\ newest = None
  /\ overlapped = FALSE
  /\ stale = FALSE

-----------------------------------------------------------------------------
(* Closing handles.                                                         *)

(* closeStatement() of a handle, up to its first await: a handle that was   *)
(* closed is left alone.                                                    *)
Closing(h) == IF h \in Calls /\ handle[h] \in {"prepared", "cursor"}
                THEN [handle EXCEPT ![h] = "closing"] ELSE handle

(* #closeActiveHandle(), up to its first await, on behalf of who.           *)
CloseActive(who) ==
  LET target == IF activeClosed THEN None ELSE active
  IN /\ active' = IF activeClosed THEN active ELSE None
     /\ activeClosed' = TRUE
     /\ awaits' = [awaits EXCEPT ![who] = target]
     /\ handle' = Closing(target)

CloseOwn(c) ==
  /\ awaits' = [awaits EXCEPT ![c] = c]
  /\ handle' = Closing(c)
  /\ UNCHANGED <<active, activeClosed>>

Settled(h) == h # None => handle[h] = "closed"

(* The replies to closeStatement(); what was sent before is answered first. *)
(* Errors are ignored: the handle is closed for the client.                 *)
HandleClosed(h) ==
  /\ handle[h] = "closing"
  /\ pc[h] # "executing"
  /\ handle' = [handle EXCEPT ![h] = "closed"]
  /\ UNCHANGED <<statementVars, more, kind, pc, awaits, rs, histories>>

-----------------------------------------------------------------------------
(* query(), execute(), executeQuery().                                      *)

Start(c) ==
  /\ pc[c] = "idle"
  /\ stmt = "open"
  /\ last' = None
  /\ overlapped' = (overlapped \/ \E d \in Calls : InFlight(d))

(* #runWithCancellation() throws before it executes.                        *)
Refused == cancelled /\ cancelled' = FALSE
Admitted == ~cancelled /\ UNCHANGED cancelled

StartQuery(c) ==
  /\ Start(c)
  /\ kind[c] = "executeQuery"
  /\ CloseActive(c)
  /\ newest' = c
  /\ pc' = [pc EXCEPT ![c] = "closing old"]
  /\ UNCHANGED <<stmt, cancelled, more, kind, rs, stale>>

(* The old handle is closed: the new one is prepared.                       *)
OldClosed(c) ==
  /\ pc[c] = "closing old"
  /\ Settled(awaits[c])
  /\ pc' = [pc EXCEPT ![c] = "preparing"]
  /\ UNCHANGED <<statementVars, more, kind, awaits, handle, rs, histories>>

(* Mutant: query() closes the active handle first, as executeQuery() does.  *)
StartOwnClosing(c) ==
  /\ Start(c)
  /\ kind[c] = "own"
  /\ CloseActive(c)
  /\ pc' = [pc EXCEPT ![c] = "preparing"]
  /\ UNCHANGED <<stmt, cancelled, more, kind, rs, newest, stale>>

StartOwn(c) ==
  /\ Start(c)
  /\ kind[c] = "own"
  /\ pc' = [pc EXCEPT ![c] = "preparing"]
  /\ UNCHANGED <<stmt, active, activeClosed, cancelled, more, kind, awaits,
                 handle, rs, newest, stale>>

StartImmediate(c) ==
  /\ Start(c)
  /\ kind[c] = "immediate"
  /\ \/ Refused /\ pc' = [pc EXCEPT ![c] = "failed"]
     \/ Admitted /\ pc' = [pc EXCEPT ![c] = "executing"]
  /\ UNCHANGED <<stmt, active, activeClosed, more, kind, awaits, handle, rs,
                 newest, stale>>

PrepareFails(c) ==
  /\ pc[c] = "preparing"
  /\ pc' = [pc EXCEPT ![c] = "failed"]
  /\ UNCHANGED <<statementVars, more, kind, awaits, handle, rs, histories>>

(* The handle is prepared and becomes the active one, if it is not the      *)
(* call's own; what is in #activeHandle then is overwritten.                *)
Prepared(c) ==
  /\ pc[c] = "preparing"
  /\ Admitted
  /\ handle' = [handle EXCEPT ![c] = "prepared"]
  /\ IF kind[c] = "executeQuery"
       THEN active' = c /\ activeClosed' = FALSE
       ELSE UNCHANGED <<active, activeClosed>>
  /\ pc' = [pc EXCEPT ![c] = "executing"]
  /\ UNCHANGED <<stmt, last, more, kind, awaits, rs, histories>>

(* The same when the statement was cancelled before: the new handle is      *)
(* closed at once and the call fails.                                       *)
PreparedCancelled(c) ==
  /\ pc[c] = "preparing"
  /\ Refused
  /\ handle' = [handle EXCEPT ![c] = "closing"]
  /\ IF kind[c] = "executeQuery"
       THEN active' = None /\ activeClosed' = TRUE
       ELSE UNCHANGED <<active, activeClosed>>
  /\ awaits' = [awaits EXCEPT ![c] = c]
  /\ pc' = [pc EXCEPT ![c] = "failing"]
  /\ UNCHANGED <<stmt, last, more, kind, rs, histories>>

(* The host has opened a cursor: executeQuery() returns the result set.     *)
ExecutedQuery(c) ==
  /\ pc[c] = "executing"
  /\ kind[c] = "executeQuery"
  /\ handle' = IF handle[c] = "prepared" THEN [handle EXCEPT ![c] = "cursor"] ELSE handle
  /\ rs' = [rs EXCEPT ![c] = "open"]
  /\ last' = c
  /\ pc' = [pc EXCEPT ![c] = "done"]
  /\ UNCHANGED <<stmt, active, activeClosed, cancelled, more, kind, awaits, histories>>

(* query() reads its rows, execute() its keys; both close their handle.     *)
ExecutedOwn(c) ==
  /\ pc[c] = "executing"
  /\ kind[c] = "own"
  /\ CloseOwn(c)
  /\ pc' = [pc EXCEPT ![c] = "finishing"]
  /\ UNCHANGED <<stmt, last, cancelled, more, kind, rs, histories>>

ExecutedImmediate(c) ==
  /\ pc[c] = "executing"
  /\ kind[c] = "immediate"
  /\ pc' = [pc EXCEPT ![c] = "done"]
  /\ UNCHANGED <<statementVars, more, kind, awaits, handle, rs, histories>>

(* Mutant: executeQuery() that fails forgets its handle without closing it. *)
ExecuteFailsUnclosed(c) ==
  /\ pc[c] = "executing"
  /\ active' = IF kind[c] = "executeQuery" THEN None ELSE active
  /\ awaits' = [awaits EXCEPT ![c] = None]
  /\ cancelled' = FALSE
  /\ pc' = [pc EXCEPT ![c] = "failing"]
  /\ UNCHANGED <<stmt, activeClosed, last, handle, more, kind, rs, histories>>

(* The execution fails, comes after the query timeout, or has no result set *)
(* where executeQuery() wants one.  A timeout has set #cancelled, and its   *)
(* error clears it.                                                         *)
ExecuteFails(c) ==
  /\ pc[c] = "executing"
  /\ CASE kind[c] = "executeQuery" -> CloseActive(c)
       [] kind[c] = "own" -> CloseOwn(c)
       [] kind[c] = "immediate" -> UNCHANGED <<active, activeClosed, awaits, handle>>
  /\ cancelled' \in {cancelled, FALSE}
  /\ pc' = [pc EXCEPT ![c] = "failing"]
  /\ UNCHANGED <<stmt, last, more, kind, rs, histories>>

Ends(c) ==
  /\ pc[c] \in {"finishing", "failing"}
  /\ Settled(awaits[c])
  /\ pc' = [pc EXCEPT ![c] = IF @ = "finishing" THEN "done" ELSE "failed"]
  /\ UNCHANGED <<statementVars, more, kind, awaits, handle, rs, histories>>

-----------------------------------------------------------------------------
(* Result sets, getMoreResults(), cancel() and close().                     *)

(* ResultSet.close() closes the cursor first, once.                         *)
ResultsClose(c) ==
  /\ rs[c] = "open"
  /\ rs' = [rs EXCEPT ![c] = "closing"]
  /\ UNCHANGED <<statementVars, more, kind, pc, awaits, handle, histories>>

(* The cursor is closed, and the onClose hook closes whatever handle is     *)
(* active by then.                                                          *)
ResultsClosed(c) ==
  /\ rs[c] = "closing"
  /\ rs' = [rs EXCEPT ![c] = "closed"]
  /\ stale' = (stale \/ (~activeClosed /\ active \notin {None, c}))
  /\ LET target == IF activeClosed THEN None ELSE active
         h == IF target = None THEN handle ELSE Closing(target)
     IN handle' = IF h[c] = "cursor" THEN [h EXCEPT ![c] = "prepared"] ELSE h
  /\ active' = IF activeClosed THEN active ELSE None
  /\ activeClosed' = TRUE
  /\ UNCHANGED <<stmt, last, cancelled, more, kind, pc, awaits, newest, overlapped>>

(* No execution queues further results: getMoreResults() closes the current *)
(* result set and then forgets it, or whatever has replaced it meanwhile.   *)
MoreResults ==
  /\ more = None
  /\ last # None
  /\ more' = last
  /\ rs' = [rs EXCEPT ![last] = IF @ = "open" THEN "closing" ELSE @]
  /\ UNCHANGED <<statementVars, kind, pc, awaits, handle, histories>>

MoreResultsClosed ==
  /\ more # None
  /\ rs[more] = "closed"
  /\ more' = None
  /\ last' = None
  /\ UNCHANGED <<stmt, active, activeClosed, cancelled, kind, pc, awaits, handle,
                 rs, histories>>

Cancel ==
  /\ cancelled' = TRUE
  /\ UNCHANGED <<stmt, active, activeClosed, last, more, kind, pc, awaits, handle,
                 rs, histories>>

Close ==
  /\ stmt = "open"
  /\ stmt' = "result set"
  /\ rs' = IF last = None THEN rs
           ELSE [rs EXCEPT ![last] = IF @ = "open" THEN "closing" ELSE @]
  /\ awaits' = [awaits EXCEPT ![Closer] =
                  IF last # None /\ rs[last] = "open" THEN last ELSE None]
  /\ overlapped' = (overlapped \/ \E d \in Calls : InFlight(d))
  /\ UNCHANGED <<active, activeClosed, last, cancelled, more, kind, pc, handle,
                 newest, stale>>

(* The result set of close() is closed, the safety net follows.             *)
CloseHandle ==
  /\ stmt = "result set"
  /\ awaits[Closer] # None => rs[awaits[Closer]] = "closed"
  /\ stmt' = "handle"
  /\ last' = None
  /\ CloseActive(Closer)
  /\ UNCHANGED <<cancelled, more, kind, pc, rs, histories>>

Closed ==
  /\ stmt = "handle"
  /\ Settled(awaits[Closer])
  /\ stmt' = "closed"
  /\ UNCHANGED <<active, activeClosed, last, cancelled, more, kind, pc, awaits,
                 handle, rs, histories>>

-----------------------------------------------------------------------------

CallStep(c) ==
  \/ StartQuery(c) \/ OldClosed(c) \/ StartOwn(c) \/ StartImmediate(c)
  \/ PrepareFails(c) \/ Prepared(c) \/ PreparedCancelled(c)
  \/ ExecutedQuery(c) \/ ExecutedOwn(c) \/ ExecutedImmediate(c)
  \/ ExecuteFails(c) \/ Ends(c)
  \/ HandleClosed(c) \/ ResultsClose(c) \/ ResultsClosed(c)

Next ==
  \/ \E c \in Calls : CallStep(c)
  \/ MoreResults \/ MoreResultsClosed \/ Cancel
  \/ Close \/ CloseHandle \/ Closed

Spec == Init /\ [][Next]_vars

-----------------------------------------------------------------------------
(* Properties.                                                              *)

(* As long as calls do not overlap, no handle is forgotten: one that is     *)
(* still on the host is the active one or that of a call in flight, through *)
(* every failure, cancel and discarded result set; close() leaves none.     *)
HandlesAccounted ==
  ~overlapped =>
    /\ \A c \in Calls : handle[c] \in {"prepared", "cursor"} =>
          InFlight(c) \/ (active = c /\ ~activeClosed)
    /\ stmt = "closed" => \A c \in Calls : handle[c] \in {"none", "closing", "closed"}

(* Statement.js 249-253: the handle is tied to the life of the result set.  *)
(* The result set of the newest executeQuery() keeps its cursor until it or *)
(* the statement is closed, unless an older result set was closed while the *)
(* handle of a newer one was active: its hook closes that one.              *)
ResultsUsableUnlessStale ==
  ~overlapped /\ ~stale /\ stmt = "open" =>
    \A c \in Calls : rs[c] = "open" /\ newest = c => handle[c] = "cursor"
=============================================================================
