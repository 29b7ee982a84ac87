----------------------- MODULE QueryStatements_proof -----------------------
(***************************************************************************)
(* Proofs about QueryStatements, for any number of calls of any kind.      *)
(***************************************************************************)
EXTENDS QueryStatements, TLAPS

-----------------------------------------------------------------------------
(* The invariant.                                                           *)

OnHost(h) == handle[h] \in {"prepared", "cursor"}
IsActive(h) == active = h /\ ~activeClosed

(* Where a handle and a result set come from, however calls overlap.        *)
Births ==
  \A c \in Calls :
    /\ pc[c] \in {"idle", "closing old", "preparing"} => handle[c] = "none"
    /\ pc[c] # "done" => rs[c] = "none"
    /\ rs[c] # "none" => kind[c] = "executeQuery"
    /\ pc[c] = "closing old" => kind[c] = "executeQuery"
    /\ pc[c] = "preparing" => kind[c] # "immediate"

(* One call at a time, and none after close() began.                        *)
OneCall ==
  /\ \A c, d \in Calls : InFlight(c) /\ InFlight(d) => c = d
  /\ stmt # "open" => \A c \in Calls : ~InFlight(c)

(* A handle on the host is the active one, or that of an execution that     *)
(* closes it itself; there is no active one while an executeQuery() is about*)
(* to make its own, and none on the host once close() has closed it.        *)
Accounted ==
  /\ \A c \in Calls : OnHost(c) =>
       IsActive(c) \/ (kind[c] = "own" /\ pc[c] = "executing")
  /\ \A c \in Calls :
       pc[c] \in {"closing old", "preparing"} /\ kind[c] = "executeQuery" =>
         active = None \/ activeClosed
  /\ stmt \in {"handle", "closed"} => \A c \in Calls : ~OnHost(c)

(* The newest executeQuery() has its handle, then its cursor.               *)
NewestReady ==
  /\ \A c \in Calls : InFlight(c) /\ kind[c] = "executeQuery" => newest = c
  /\ ~stale /\ stmt = "open" =>
       \A c \in Calls : newest = c =>
         /\ pc[c] = "executing" /\ kind[c] = "executeQuery" => handle[c] = "prepared"
         /\ rs[c] = "open" => handle[c] = "cursor"

Sequential == ~overlapped => OneCall /\ Accounted /\ NewestReady

QueryInv == TypeOK /\ Births /\ Sequential

-----------------------------------------------------------------------------
(* Closing handles.                                                         *)

LEMMA ClosingHandles ==
  ASSUME TypeOK, NEW h \in Calls \cup {None}
  PROVE  /\ Closing(h) \in [Calls -> {"none", "prepared", "cursor", "closing", "closed"}]
         /\ \A c \in Calls :
              Closing(h)[c] = IF c = h /\ OnHost(c) THEN "closing" ELSE handle[c]
BY DEF TypeOK, Closing, OnHost

(* What #closeActiveHandle() leaves.                                        *)
LEMMA ClosesActive ==
  ASSUME TypeOK, NEW who \in Calls \cup {Closer}, CloseActive(who)
  PROVE  /\ active' \in Calls \cup {None} /\ activeClosed' = TRUE
         /\ awaits' \in [Calls \cup {Closer} -> Calls \cup {None}]
         /\ handle' \in [Calls -> {"none", "prepared", "cursor", "closing", "closed"}]
         /\ \A c \in Calls :
              handle'[c] = IF IsActive(c) /\ OnHost(c) THEN "closing" ELSE handle[c]
<1> DEFINE target == IF activeClosed THEN None ELSE active
<1>1. target \in Calls \cup {None}
  BY DEF TypeOK
<1>2. \A c \in Calls : c = target <=> IsActive(c)
  BY QueryAssumption DEF IsActive
<1>3. /\ handle' = Closing(target) /\ activeClosed' = TRUE
      /\ active' = IF activeClosed THEN active ELSE None
      /\ awaits' = [awaits EXCEPT ![who] = target]
  BY DEF CloseActive
<1>4. /\ active' \in Calls \cup {None} /\ awaits' \in [Calls \cup {Closer} -> Calls \cup {None}]
  BY <1>1, <1>3 DEF TypeOK
<1> HIDE DEF target
<1> QED BY <1>1, <1>2, <1>3, <1>4, ClosingHandles

LEMMA ClosesOwn ==
  ASSUME TypeOK, NEW c \in Calls, CloseOwn(c)
  PROVE  /\ awaits' \in [Calls \cup {Closer} -> Calls \cup {None}]
         /\ handle' \in [Calls -> {"none", "prepared", "cursor", "closing", "closed"}]
         /\ \A d \in Calls :
              handle'[d] = IF d = c /\ OnHost(d) THEN "closing" ELSE handle[d]
         /\ active' = active /\ activeClosed' = activeClosed
BY ClosingHandles DEF TypeOK, CloseOwn

(* The close of a result set.                                               *)
LEMMA ClosesResults ==
  ASSUME TypeOK, NEW c \in Calls, ResultsClosed(c)
  PROVE  /\ active' \in Calls \cup {None} /\ activeClosed' = TRUE
         /\ handle' \in [Calls -> {"none", "prepared", "cursor", "closing", "closed"}]
         /\ \A d \in Calls :
              handle'[d] = IF IsActive(d) /\ OnHost(d) THEN "closing"
                           ELSE IF d = c /\ handle[d] = "cursor" THEN "prepared"
                           ELSE handle[d]
<1> DEFINE target == IF activeClosed THEN None ELSE active
           h == IF target = None THEN handle ELSE Closing(target)
<1>1. target \in Calls \cup {None}
  BY DEF TypeOK
<1>2. \A d \in Calls : d = target <=> IsActive(d)
  BY QueryAssumption DEF IsActive
<1>3. /\ handle' = IF h[c] = "cursor" THEN [h EXCEPT ![c] = "prepared"] ELSE h
      /\ activeClosed' = TRUE /\ active' = IF activeClosed THEN active ELSE None
  BY DEF ResultsClosed
<1>4. active' \in Calls \cup {None}
  BY <1>3 DEF TypeOK
<1> HIDE DEF target
<1>5. /\ h \in [Calls -> {"none", "prepared", "cursor", "closing", "closed"}]
      /\ \A d \in Calls : h[d] = IF IsActive(d) /\ OnHost(d) THEN "closing" ELSE handle[d]
  <2>1. CASE target = None
    <3>1. h = handle /\ \A d \in Calls : ~IsActive(d)
      BY <1>2, <2>1, QueryAssumption
    <3> QED BY <3>1 DEF TypeOK
  <2>2. CASE target # None
    <3>1. h = Closing(target)
      BY <2>2
    <3> HIDE DEF h
    <3> QED BY <1>1, <1>2, <3>1, ClosingHandles
  <2> QED BY <2>1, <2>2
<1> HIDE DEF h
<1> QED BY <1>3, <1>4, <1>5 DEF OnHost

-----------------------------------------------------------------------------
(* Types and births, whatever overlaps.                                     *)

LEMMA InitQuery == Init => QueryInv
BY QueryAssumption DEF Init, QueryInv, TypeOK, Births, Sequential, OneCall, Accounted,
   NewestReady, OnHost, IsActive, InFlight

LEMMA StartTypes ==
  ASSUME TypeOK, NEW c \in Calls, Start(c)
  PROVE  last' \in Calls \cup {None} /\ overlapped' \in BOOLEAN
BY DEF TypeOK, Start

LEMMA NextTypes == TypeOK /\ [Next]_vars => TypeOK'
<1> SUFFICES ASSUME TypeOK, [Next]_vars PROVE TypeOK'
  OBVIOUS
<1> USE DEF statementVars, histories
<1>1. ASSUME NEW c \in Calls, CallStep(c) PROVE TypeOK'
  <2>1. CASE StartQuery(c)
    BY <2>1, ClosesActive, StartTypes DEF StartQuery, TypeOK
  <2>2. CASE OldClosed(c) \/ PrepareFails(c) \/ ExecutedImmediate(c) \/ Ends(c)
    BY <2>2 DEF OldClosed, PrepareFails, ExecutedImmediate, Ends, TypeOK
  <2>3. CASE StartOwn(c)
    BY <2>3, StartTypes DEF StartOwn, TypeOK, Start
  <2>4. CASE StartImmediate(c)
    BY <2>4, StartTypes DEF StartImmediate, TypeOK, Start, Refused, Admitted
  <2>5. CASE Prepared(c)
    BY <2>5 DEF Prepared, Admitted, TypeOK
  <2>6. CASE PreparedCancelled(c)
    BY <2>6 DEF PreparedCancelled, Refused, TypeOK
  <2>7. CASE ExecutedQuery(c)
    BY <2>7 DEF ExecutedQuery, TypeOK
  <2>8. CASE ExecutedOwn(c)
    BY <2>8, ClosesOwn DEF ExecutedOwn, TypeOK
  <2>9. CASE ExecuteFails(c)
    <3>1. CASE kind[c] = "executeQuery"
      BY <2>9, <3>1, ClosesActive DEF ExecuteFails, TypeOK
    <3>2. CASE kind[c] = "own"
      BY ZenonT(60), <2>9, <3>2, ClosesOwn DEF ExecuteFails, TypeOK
    <3>3. CASE kind[c] = "immediate"
      BY <2>9, <3>3 DEF ExecuteFails, TypeOK
    <3> QED BY <3>1, <3>2, <3>3 DEF TypeOK
  <2>10. CASE HandleClosed(c)
    BY <2>10 DEF HandleClosed, TypeOK
  <2>11. CASE ResultsClose(c)
    BY <2>11 DEF ResultsClose, TypeOK
  <2>12. CASE ResultsClosed(c)
    BY <2>12, ClosesResults DEF ResultsClosed, TypeOK
  <2> QED BY <1>1, <2>1, <2>2, <2>3, <2>4, <2>5, <2>6, <2>7, <2>8, <2>9, <2>10,
             <2>11, <2>12 DEF CallStep
<1>2. CASE MoreResults
  BY <1>2 DEF MoreResults, TypeOK
<1>3. CASE MoreResultsClosed \/ Cancel \/ Closed
  BY <1>3 DEF MoreResultsClosed, Cancel, Closed, TypeOK
<1>4. CASE Close
  BY <1>4 DEF Close, TypeOK
<1>5. CASE CloseHandle
  BY <1>5, ClosesActive DEF CloseHandle, TypeOK
<1>6. CASE UNCHANGED vars
  BY <1>6 DEF vars, TypeOK
<1> QED BY <1>1, <1>2, <1>3, <1>4, <1>5, <1>6 DEF Next

LEMMA NextBirths == TypeOK /\ Births /\ [Next]_vars => Births'
<1> SUFFICES ASSUME TypeOK, Births, [Next]_vars PROVE Births'
  OBVIOUS
<1> USE DEF statementVars, histories
<1>1. ASSUME NEW c \in Calls, CallStep(c) PROVE Births'
  <2>1. CASE StartQuery(c)
    <3>1. \A d \in Calls : handle[d] = "none" => handle'[d] = "none"
      BY <2>1, ClosesActive DEF StartQuery, OnHost
    <3> QED BY <2>1, <3>1 DEF StartQuery, Start, Births, TypeOK
  <2>2. CASE OldClosed(c) \/ PrepareFails(c) \/ ExecutedImmediate(c) \/ Ends(c)
    <3>1. /\ UNCHANGED <<handle, rs, kind>>
          /\ pc'[c] \in {"preparing", "failed", "done"} /\ pc[c] # "done"
          /\ pc'[c] = "preparing" => pc[c] = "closing old"
          /\ \A d \in Calls \ {c} : pc'[d] = pc[d]
      BY <2>2 DEF OldClosed, PrepareFails, ExecutedImmediate, Ends, TypeOK
    <3> QED BY <3>1 DEF Births
  <2>3. CASE StartOwn(c) \/ StartImmediate(c)
    <3>1. /\ pc[c] = "idle" /\ UNCHANGED <<handle, rs, kind>>
          /\ pc'[c] \in {"preparing", "failed", "executing"}
          /\ pc'[c] = "preparing" => kind[c] = "own"
          /\ \A d \in Calls \ {c} : pc'[d] = pc[d]
      BY <2>3 DEF StartOwn, StartImmediate, Start, TypeOK
    <3> QED BY <3>1 DEF Births
  <2>4. CASE Prepared(c) \/ PreparedCancelled(c)
    <3>1. /\ pc[c] = "preparing" /\ UNCHANGED <<rs, kind>>
          /\ pc'[c] \in {"executing", "failing"}
          /\ \A d \in Calls \ {c} : pc'[d] = pc[d] /\ handle'[d] = handle[d]
      BY <2>4 DEF Prepared, PreparedCancelled, TypeOK
    <3> QED BY <3>1 DEF Births
  <2>5. CASE ExecutedQuery(c)
    <3>1. /\ pc'[c] = "done" /\ kind[c] = "executeQuery" /\ kind' = kind
          /\ \A d \in Calls \ {c} :
               pc'[d] = pc[d] /\ handle'[d] = handle[d] /\ rs'[d] = rs[d]
      BY <2>5 DEF ExecutedQuery, TypeOK
    <3> QED BY <3>1 DEF Births
  <2>6. CASE ExecutedOwn(c)
    <3>1. \A d \in Calls : handle[d] = "none" => handle'[d] = "none"
      BY <2>6, ClosesOwn DEF ExecutedOwn, OnHost
    <3> QED BY <2>6, <3>1 DEF ExecutedOwn, Births, TypeOK
  <2>7. CASE ExecuteFails(c)
    <3>1. \A d \in Calls : handle[d] = "none" => handle'[d] = "none"
      <4>1. CASE kind[c] = "executeQuery"
        BY <2>7, <4>1, ClosesActive DEF ExecuteFails, OnHost
      <4>2. CASE kind[c] = "own"
        BY <2>7, <4>2, ClosesOwn DEF ExecuteFails, OnHost
      <4>3. CASE kind[c] = "immediate"
        BY <2>7, <4>3 DEF ExecuteFails
      <4> QED BY <4>1, <4>2, <4>3 DEF TypeOK
    <3> QED BY <2>7, <3>1 DEF ExecuteFails, Births, TypeOK
  <2>8. CASE HandleClosed(c)
    BY <2>8 DEF HandleClosed, Births, TypeOK
  <2>9. CASE ResultsClose(c)
    BY <2>9 DEF ResultsClose, Births, TypeOK
  <2>10. CASE ResultsClosed(c)
    <3>1. \A d \in Calls : handle[d] = "none" => handle'[d] = "none"
      BY <2>10, ClosesResults DEF OnHost
    <3> QED BY <2>10, <3>1 DEF ResultsClosed, Births, TypeOK
  <2> QED BY <1>1, <2>1, <2>2, <2>3, <2>4, <2>5, <2>6, <2>7, <2>8, <2>9, <2>10
          DEF CallStep
<1>2. CASE MoreResults
  BY <1>2 DEF MoreResults, Births, TypeOK
<1>3. CASE MoreResultsClosed \/ Cancel \/ Closed
  BY <1>3 DEF MoreResultsClosed, Cancel, Closed, Births
<1>4. CASE Close
  BY <1>4 DEF Close, Births, TypeOK
<1>5. CASE CloseHandle
  <2>1. \A d \in Calls : handle[d] = "none" => handle'[d] = "none"
    BY <1>5, ClosesActive DEF CloseHandle, OnHost
  <2> QED BY <1>5, <2>1 DEF CloseHandle, Births
<1>6. CASE UNCHANGED vars
  BY <1>6 DEF vars, Births
<1> QED BY <1>1, <1>2, <1>3, <1>4, <1>5, <1>6 DEF Next

-----------------------------------------------------------------------------
(* Calls one after the other.                                               *)

LEMMA NextOneCall ==
  ASSUME TypeOK, OneCall, [Next]_vars, ~overlapped'
  PROVE  OneCall'
<1> USE DEF statementVars, histories
<1>1. ASSUME NEW c \in Calls, CallStep(c) PROVE OneCall'
  <2>1. CASE StartQuery(c) \/ StartOwn(c) \/ StartImmediate(c)
    <3>1. /\ \A d \in Calls : ~InFlight(d)
          /\ stmt' = "open"
          /\ \A d \in Calls \ {c} : pc'[d] = pc[d]
      BY <2>1 DEF StartQuery, StartOwn, StartImmediate, Start, TypeOK
    <3> QED BY <3>1 DEF OneCall, InFlight
  <2>2. CASE ~(StartQuery(c) \/ StartOwn(c) \/ StartImmediate(c))
    <3>1. /\ stmt' = stmt
          /\ \A d \in Calls : InFlight(d)' => InFlight(d)
      BY <1>1, <2>2 DEF CallStep, OldClosed, PrepareFails, Prepared, PreparedCancelled,
         ExecutedQuery, ExecutedOwn, ExecutedImmediate, ExecuteFails, Ends, HandleClosed,
         ResultsClose, ResultsClosed, InFlight, TypeOK
    <3> QED BY <3>1 DEF OneCall
  <2> QED BY <2>1, <2>2
<1>2. CASE Close
  BY <1>2 DEF Close, OneCall, InFlight
<1>3. CASE CloseHandle \/ Closed \/ MoreResults \/ MoreResultsClosed \/ Cancel
  BY <1>3 DEF CloseHandle, Closed, MoreResults, MoreResultsClosed, Cancel, OneCall,
     InFlight
<1>4. CASE UNCHANGED vars
  BY <1>4 DEF vars, OneCall, InFlight
<1> QED BY <1>1, <1>2, <1>3, <1>4 DEF Next

-----------------------------------------------------------------------------
(* What the steps of calls that follow one another do to handles.           *)
Inv == OneCall /\ Accounted /\ NewestReady

(* While no call is executing, what is on the host is active.               *)
LEMMA OnlyActive ==
  ASSUME Accounted, \A d \in Calls : pc[d] # "executing"
  PROVE  \A d \in Calls : OnHost(d) => IsActive(d)
BY DEF Accounted

(* The close of the active handle by a call, or by close().                 *)
LEMMA NoneLeft ==
  ASSUME TypeOK, NEW who \in Calls \cup {Closer}, CloseActive(who),
         \A d \in Calls : OnHost(d) => IsActive(d)
  PROVE  activeClosed' /\ \A d \in Calls : ~OnHost(d)'
<1>1. \A d \in Calls : handle'[d] = IF IsActive(d) /\ OnHost(d) THEN "closing" ELSE handle[d]
  BY ClosesActive
<1>2. activeClosed' = TRUE
  BY ClosesActive
<1> QED BY <1>1, <1>2 DEF OnHost

(* Then there is nothing left to account for.                               *)
LEMMA NothingToAccount ==
  ASSUME activeClosed', \A d \in Calls : ~OnHost(d)'
  PROVE  Accounted'
BY DEF Accounted

LEMMA StartsQuery ==
  ASSUME TypeOK, Births, Inv, NEW c \in Calls, StartQuery(c), ~overlapped'
  PROVE  Accounted' /\ NewestReady'
<1>1. /\ pc[c] = "idle" /\ rs[c] = "none" /\ \A d \in Calls : ~InFlight(d)
      /\ pc'[c] = "closing old" /\ \A d \in Calls \ {c} : pc'[d] = pc[d]
      /\ rs' = rs /\ newest' = c
  BY DEF StartQuery, Start, Births, TypeOK
<1>2. \A d \in Calls : OnHost(d) => IsActive(d)
  BY <1>1, OnlyActive DEF InFlight, Inv
<1>3. Accounted'
  BY <1>2, NoneLeft, NothingToAccount DEF StartQuery
<1>4. NewestReady'
  BY <1>1 DEF NewestReady, InFlight
<1> QED BY <1>3, <1>4

(* A call begins that takes no part in the active handle.                   *)
LEMMA StartsOther ==
  ASSUME TypeOK, Births, Inv, NEW c \in Calls, StartOwn(c) \/ StartImmediate(c)
  PROVE  Accounted' /\ NewestReady'
<1>1. /\ pc[c] = "idle" /\ rs[c] = "none" /\ kind[c] # "executeQuery"
      /\ pc'[c] \in {"preparing", "executing", "failed"}
      /\ \A d \in Calls \ {c} : pc'[d] = pc[d]
      /\ UNCHANGED <<handle, active, activeClosed, stmt, kind, rs, newest, stale>>
  BY DEF StartOwn, StartImmediate, Start, Births, TypeOK
<1>2. Accounted'
  BY <1>1 DEF Accounted, Inv, OnHost, IsActive
<1>3. NewestReady'
  BY <1>1 DEF NewestReady, Inv, InFlight
<1> QED BY <1>2, <1>3

(* A call goes on and does nothing to handles and result sets.              *)
LEMMA GoesOn ==
  ASSUME TypeOK, Births, Inv, NEW c \in Calls,
         OldClosed(c) \/ PrepareFails(c) \/ ExecutedImmediate(c) \/ Ends(c)
  PROVE  Accounted' /\ NewestReady'
<1> USE DEF statementVars, histories
<1>1. /\ pc'[c] # "executing" /\ InFlight(c)
      /\ pc'[c] \in {"closing old", "preparing"} => pc[c] = "closing old"
      /\ pc[c] = "executing" => kind[c] = "immediate"
      /\ \A d \in Calls \ {c} : pc'[d] = pc[d]
      /\ UNCHANGED <<handle, active, activeClosed, stmt, kind, rs, newest, stale>>
  BY DEF OldClosed, PrepareFails, ExecutedImmediate, Ends, InFlight, TypeOK
<1>2. Accounted'
  BY <1>1 DEF Accounted, Inv, OnHost, IsActive
<1>3. NewestReady'
  BY <1>1 DEF NewestReady, Inv, InFlight
<1> QED BY <1>2, <1>3

(* The handle of a call is prepared.  That of executeQuery() finds none     *)
(* active, since the call closed what was there and is the only one.        *)
LEMMA IsPrepared ==
  ASSUME TypeOK, Births, Inv, NEW c \in Calls, Prepared(c) \/ PreparedCancelled(c)
  PROVE  Accounted' /\ NewestReady'
<1> USE DEF histories
<1>1. /\ pc[c] = "preparing" /\ rs[c] = "none" /\ InFlight(c)
      /\ pc'[c] \in {"executing", "failing"}
      /\ pc'[c] = "executing" => handle'[c] = "prepared"
      /\ pc'[c] = "failing" => handle'[c] = "closing"
      /\ \A d \in Calls \ {c} : pc'[d] = pc[d] /\ handle'[d] = handle[d]
      /\ UNCHANGED <<stmt, kind, rs, newest, stale>>
  BY DEF Prepared, PreparedCancelled, Births, InFlight, TypeOK
<1>2. /\ stmt = "open" /\ \A d \in Calls \ {c} : ~InFlight(d)
      /\ \A d \in Calls \ {c} : pc[d] # "executing"
  BY <1>1 DEF Inv, OneCall, InFlight
<1>3. Accounted'
  <2>1. CASE kind[c] = "executeQuery"
    <3>1. \A d \in Calls : ~IsActive(d)
      BY <1>1, <2>1, QueryAssumption DEF Inv, Accounted, IsActive
    <3>2. \A d \in Calls \ {c} : ~OnHost(d)
      BY <1>2, <3>1 DEF Inv, Accounted
    <3>3. \A d \in Calls \ {c} : ~OnHost(d)' /\ pc'[d] \notin {"closing old", "preparing"}
      BY <1>1, <1>2, <3>2 DEF OnHost, InFlight
    <3>4. pc'[c] = "executing" => IsActive(c)'
      BY <2>1 DEF Prepared, PreparedCancelled, IsActive, TypeOK
    <3> QED BY <1>1, <1>2, <3>3, <3>4 DEF Accounted, OnHost
  <2>2. CASE kind[c] # "executeQuery"
    <3>1. UNCHANGED <<active, activeClosed>>
      BY <2>2 DEF Prepared, PreparedCancelled
    <3>2. kind[c] = "own"
      BY <1>1, <2>2 DEF Births, TypeOK
    <3> QED BY <1>1, <1>2, <2>2, <3>1, <3>2 DEF Inv, Accounted, OnHost, IsActive
  <2> QED BY <2>1, <2>2
<1>4. NewestReady'
  BY <1>1, <1>2 DEF Inv, NewestReady, InFlight
<1> QED BY <1>3, <1>4

(* executeQuery() returns its result set: its handle is the active one.     *)
LEMMA ReturnsResults ==
  ASSUME TypeOK, Births, Inv, NEW c \in Calls, ExecutedQuery(c)
  PROVE  Accounted' /\ NewestReady'
<1> USE DEF histories
<1>1. /\ pc[c] = "executing" /\ kind[c] = "executeQuery" /\ InFlight(c) /\ pc'[c] = "done"
      /\ handle[c] = "prepared" => handle'[c] = "cursor"
      /\ handle[c] # "prepared" => handle'[c] = handle[c]
      /\ \A d \in Calls \ {c} : pc'[d] = pc[d] /\ handle'[d] = handle[d] /\ rs'[d] = rs[d]
      /\ UNCHANGED <<stmt, active, activeClosed, kind, newest, stale>>
  BY DEF ExecutedQuery, InFlight, TypeOK
<1>2. newest = c /\ (~stale /\ stmt = "open" => handle[c] = "prepared")
  BY <1>1 DEF Inv, NewestReady
<1>3. Accounted'
  <2>1. OnHost(c)' => IsActive(c)'
    BY <1>1 DEF Inv, Accounted, OnHost, IsActive
  <2>2. \A d \in Calls : OnHost(d)' => OnHost(d)
    BY <1>1 DEF OnHost
  <2> QED BY <1>1, <2>1, <2>2 DEF Inv, Accounted, IsActive
<1>4. NewestReady'
  BY <1>1, <1>2 DEF Inv, NewestReady, InFlight
<1> QED BY <1>3, <1>4

(* A call ends the use of its own handle, or fails with the active one.     *)
LEMMA ClosesItsHandle ==
  ASSUME TypeOK, Births, Inv, NEW c \in Calls, ExecutedOwn(c) \/ ExecuteFails(c)
  PROVE  Accounted' /\ NewestReady'
<1> USE DEF histories
<1>1. /\ pc[c] = "executing" /\ rs[c] = "none" /\ InFlight(c)
      /\ pc'[c] \in {"finishing", "failing"}
      /\ \A d \in Calls \ {c} : pc'[d] = pc[d]
      /\ UNCHANGED <<stmt, kind, rs, newest, stale>>
  BY DEF ExecutedOwn, ExecuteFails, Births, InFlight, TypeOK
<1>2. stmt = "open" /\ \A d \in Calls \ {c} : ~InFlight(d)
  BY <1>1 DEF Inv, OneCall
<1>3. \A d \in Calls \ {c} : OnHost(d) => IsActive(d)
  BY <1>2 DEF Inv, Accounted, InFlight
<1>4. CASE kind[c] = "executeQuery"
  <2>1. \A d \in Calls : OnHost(d) => IsActive(d)
    BY <1>3, <1>4 DEF Inv, Accounted
  <2>2. CloseActive(c)
    BY <1>4 DEF ExecutedOwn, ExecuteFails
  <2>3. Accounted'
    BY <2>1, <2>2, NoneLeft, NothingToAccount
  <2>4. newest = c
    BY <1>1, <1>4 DEF Inv, NewestReady
  <2>5. NewestReady'
    BY <1>1, <1>2, <2>4 DEF NewestReady, InFlight
  <2> QED BY <2>3, <2>5
<1>5. CASE kind[c] # "executeQuery"
  <2>1. /\ UNCHANGED <<active, activeClosed>> /\ (kind[c] = "own" => ~OnHost(c)')
        /\ (kind[c] # "own" => handle' = handle)
        /\ \A d \in Calls \ {c} : handle'[d] = handle[d]
    <3>1. CASE kind[c] = "own"
      <4>1. CloseOwn(c)
        BY <3>1 DEF ExecutedOwn, ExecuteFails
      <4> QED BY <3>1, <4>1, ClosesOwn DEF OnHost
    <3>2. CASE kind[c] = "immediate"
      BY <3>2 DEF ExecutedOwn, ExecuteFails
    <3> QED BY <1>5, <3>1, <3>2 DEF TypeOK
  <2>2. \A d \in Calls : OnHost(d)' => IsActive(d)'
    <3>1. OnHost(c)' => OnHost(c) /\ kind[c] # "own"
      BY <2>1 DEF OnHost
    <3>2. \A d \in Calls : OnHost(d)' => IsActive(d)
      BY <1>3, <2>1, <3>1 DEF Inv, Accounted, OnHost
    <3> QED BY <2>1, <3>2 DEF IsActive
  <2>3. Accounted'
    BY <1>1, <1>2, <2>1, <2>2 DEF Accounted, InFlight
  <2>4. NewestReady'
    BY <1>1, <1>2, <1>5, <2>1 DEF Inv, NewestReady, Births, InFlight
  <2> QED BY <2>3, <2>4
<1> QED BY <1>4, <1>5

LEMMA HandleIsClosed ==
  ASSUME TypeOK, Births, Inv, NEW c \in Calls, HandleClosed(c)
  PROVE  Accounted' /\ NewestReady'
<1> USE DEF statementVars, histories
<1>1. /\ handle[c] = "closing" /\ handle'[c] = "closed"
      /\ \A d \in Calls \ {c} : handle'[d] = handle[d]
      /\ UNCHANGED <<stmt, active, activeClosed, kind, pc, rs, newest, stale>>
  BY DEF HandleClosed, TypeOK
<1>2. Accounted'
  BY <1>1 DEF Inv, Accounted, OnHost, IsActive
<1>3. NewestReady'
  BY <1>1 DEF Inv, NewestReady, InFlight
<1> QED BY <1>2, <1>3

(* The hook of a result set takes the handle of a newer one with it; that is*)
(* what `stale' notes.                                                      *)
LEMMA ResultsAreClosed ==
  ASSUME TypeOK, Births, Inv, NEW c \in Calls, ResultsClosed(c)
  PROVE  Accounted' /\ NewestReady'
<1>1. /\ rs[c] = "closing" /\ rs'[c] = "closed" /\ \A d \in Calls \ {c} : rs'[d] = rs[d]
      /\ stale' = (stale \/ (~activeClosed /\ active \notin {None, c}))
      /\ UNCHANGED <<stmt, kind, pc, newest>>
  BY DEF ResultsClosed, TypeOK
<1>2. /\ activeClosed' = TRUE
      /\ \A d \in Calls :
           handle'[d] = IF IsActive(d) /\ OnHost(d) THEN "closing"
                        ELSE IF d = c /\ handle[d] = "cursor" THEN "prepared"
                        ELSE handle[d]
  BY ClosesResults
<1>3. \A d \in Calls : OnHost(d)' => OnHost(d) /\ ~IsActive(d)
  BY <1>2 DEF OnHost
<1>4. Accounted'
  BY <1>1, <1>2, <1>3 DEF Inv, Accounted
<1>5. pc[c] = "done"
  BY <1>1 DEF Births
<1>6. ASSUME ~stale', stmt = "open", NEW d \in Calls, newest = d
      PROVE  /\ pc[d] = "executing" /\ kind[d] = "executeQuery" => handle'[d] = "prepared"
             /\ rs'[d] = "open" => handle'[d] = "cursor"
  <2>1. IsActive(d) => d = c
    BY <1>1, <1>6, QueryAssumption DEF IsActive
  <2>2. d # c /\ handle[d] \in {"prepared", "cursor"} => handle'[d] = handle[d]
    BY <1>2, <2>1
  <2> QED BY <1>1, <1>5, <1>6, <2>2 DEF Inv, NewestReady
<1>7. \A d \in Calls : InFlight(d)' /\ kind'[d] = "executeQuery" => newest' = d
  BY <1>1 DEF Inv, NewestReady, InFlight
<1>8. NewestReady'
  BY <1>1, <1>6, <1>7 DEF NewestReady
<1> QED BY <1>4, <1>8

(* Steps that only begin to close result sets, or that touch none of this.  *)
LEMMA OtherSteps ==
  ASSUME TypeOK, Inv,
         \/ \E c \in Calls : ResultsClose(c)
         \/ MoreResults \/ MoreResultsClosed \/ Cancel \/ Close \/ Closed
         \/ UNCHANGED vars
  PROVE  Accounted' /\ NewestReady'
<1> USE DEF statementVars, histories
<1>1. /\ UNCHANGED <<active, activeClosed, kind, pc, handle, newest, stale>>
      /\ \A d \in Calls : rs'[d] = "open" => rs[d] = "open"
      /\ stmt' = "closed" => stmt \in {"handle", "closed"}
      /\ stmt' = "handle" => stmt = "handle"
      /\ stmt' = "open" => stmt = "open"
  <2>1. CASE \E c \in Calls : ResultsClose(c)
    BY <2>1 DEF ResultsClose, TypeOK
  <2>2. CASE MoreResults
    BY <2>2 DEF MoreResults, TypeOK
  <2>3. CASE Close
    BY <2>3 DEF Close, TypeOK
  <2>4. CASE MoreResultsClosed \/ Cancel \/ Closed \/ UNCHANGED vars
    BY <2>4 DEF MoreResultsClosed, Cancel, Closed, vars
  <2> QED BY <2>1, <2>2, <2>3, <2>4
<1>2. Accounted'
  BY <1>1 DEF Inv, Accounted, OnHost, IsActive
<1>3. NewestReady'
  BY <1>1 DEF Inv, NewestReady, InFlight
<1> QED BY <1>2, <1>3

LEMMA ClosesStatement ==
  ASSUME TypeOK, Inv, CloseHandle
  PROVE  Accounted' /\ NewestReady'
<1> USE DEF histories
<1>1. /\ CloseActive(Closer) /\ stmt = "result set" /\ stmt' = "handle"
      /\ UNCHANGED <<kind, pc, rs, newest, stale>>
  BY DEF CloseHandle
<1>2. \A d \in Calls : OnHost(d) => IsActive(d)
  BY <1>1, OnlyActive DEF Inv, OneCall, InFlight
<1>3. Accounted'
  BY <1>1, <1>2, NoneLeft, NothingToAccount
<1>4. NewestReady'
  BY <1>1 DEF Inv, NewestReady, InFlight
<1> QED BY <1>3, <1>4

LEMMA NextSequential == QueryInv /\ [Next]_vars => Sequential'
<1> SUFFICES ASSUME TypeOK, Births, Sequential, [Next]_vars, ~overlapped'
             PROVE  OneCall' /\ Accounted' /\ NewestReady'
  BY DEF QueryInv, Sequential
<1>1. ~overlapped
  BY DEF Next, CallStep, StartQuery, OldClosed, StartOwn, StartImmediate, Start,
     PrepareFails, Prepared, PreparedCancelled, ExecutedQuery, ExecutedOwn,
     ExecutedImmediate, ExecuteFails, Ends, HandleClosed, ResultsClose, ResultsClosed,
     MoreResults, MoreResultsClosed, Cancel, Close, CloseHandle, Closed, vars,
     statementVars, histories
<1>2. Inv
  BY <1>1 DEF Sequential, Inv
<1>3. OneCall'
  BY <1>2, NextOneCall DEF Inv
<1>4. ASSUME NEW c \in Calls, CallStep(c) PROVE Accounted' /\ NewestReady'
  BY <1>2, <1>4, StartsQuery, StartsOther, GoesOn, IsPrepared, ReturnsResults,
     ClosesItsHandle, HandleIsClosed, ResultsAreClosed, OtherSteps DEF CallStep
<1> QED BY <1>2, <1>3, <1>4, ClosesStatement, OtherSteps DEF Next

LEMMA Invariant == Spec => []QueryInv
<1>1. QueryInv /\ [Next]_vars => QueryInv'
  BY NextTypes, NextBirths, NextSequential DEF QueryInv
<1> QED BY InitQuery, <1>1, PTL DEF Spec

-----------------------------------------------------------------------------
(* Every variable keeps its type.                                           *)
THEOREM TypeCorrect == Spec => []TypeOK
<1>1. QueryInv => TypeOK
  BY DEF QueryInv
<1> QED BY <1>1, Invariant, PTL

(* Statement.js: as long as calls do not overlap, a handle on the host is   *)
(* the active one or that of a call in flight, whatever fails or is         *)
(* cancelled, and close() leaves none.                                      *)
THEOREM NoHandleForgotten == Spec => []HandlesAccounted
<1>1. QueryInv => HandlesAccounted
  <2> SUFFICES ASSUME QueryInv, ~overlapped
               PROVE  /\ \A c \in Calls : handle[c] \in {"prepared", "cursor"} =>
                           InFlight(c) \/ (active = c /\ ~activeClosed)
                      /\ stmt = "closed" =>
                           \A c \in Calls : handle[c] \in {"none", "closing", "closed"}
    BY DEF HandlesAccounted
  <2> QED BY DEF QueryInv, Sequential, Accounted, OnHost, IsActive, InFlight, TypeOK
<1> QED BY <1>1, Invariant, PTL

(* Statement.js 249-253: the result set of the newest executeQuery() keeps  *)
(* its cursor until it or the statement is closed, unless the close of an   *)
(* older result set met its handle.                                         *)
THEOREM ResultsKeepCursor == Spec => []ResultsUsableUnlessStale
<1>1. QueryInv => ResultsUsableUnlessStale
  BY DEF QueryInv, Sequential, NewestReady, ResultsUsableUnlessStale
<1> QED BY <1>1, Invariant, PTL
=============================================================================
