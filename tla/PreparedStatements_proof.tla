---------------------- MODULE PreparedStatements_proof ----------------------
(***************************************************************************)
(* Proofs about PreparedStatements, for any statements, SQL texts, cache   *)
(* size and number of RPB ids.  Who owns a handle, what it runs and that   *)
(* its RPB does not leak is proved for clients of any discipline.  That the*)
(* host has what the client believes needs hypotheses, which the theorems  *)
(* name: that RPB ids do not wrap onto ones in use (EnoughIds), and that   *)
(* clients do not close too early, leave result sets open, or time out.    *)
(***************************************************************************)
EXTENDS PreparedStatements, Integers, SequencesExt, SequenceTheorems, FiniteSetTheorems,
        TLAPS

-----------------------------------------------------------------------------
(* Lists without duplicates, and the sets of their elements.                *)

(* The elements of a list, by their index.                                  *)
LEMMA InToSet ==
  ASSUME NEW S, NEW s \in Seq(S), NEW e
  PROVE  e \in ToSet(s) <=> \E i \in 1..Len(s) : s[i] = e
BY DEF ToSet

(* A list without duplicates, by its indices.                               *)
LEMMA InjectiveSeq ==
  ASSUME NEW S, NEW s \in Seq(S)
  PROVE  IsInjective(s) <=> \A i, j \in 1..Len(s) : s[i] = s[j] => i = j
BY DEF IsInjective

(* The elements of a list of S are in S.                                    *)
LEMMA ToSetSubset ==
  ASSUME NEW S, NEW s \in Seq(S)
  PROVE  ToSet(s) \subseteq S
BY DEF ToSet

(* A list with a new element at its end.                                    *)
LEMMA PushInjective ==
  ASSUME NEW S, NEW s \in Seq(S), NEW e \in S, IsInjective(s), e \notin ToSet(s)
  PROVE  /\ Append(s, e) \in Seq(S)
         /\ IsInjective(Append(s, e))
         /\ ToSet(Append(s, e)) = ToSet(s) \cup {e}
<1> DEFINE t == Append(s, e)
<1>1. /\ t \in Seq(S) /\ Len(s) \in Nat /\ Len(t) = Len(s) + 1 /\ t[Len(s) + 1] = e
      /\ \A i \in 1..Len(s) : t[i] = s[i]
  BY AppendProperties, LenProperties
<1>2. \A i \in 1..Len(s) : s[i] # e
  BY InToSet
<1> HIDE DEF t
<1>3. IsInjective(t)
  BY <1>1, <1>2 DEF IsInjective
<1>4. \A i \in 1..Len(t) : i \in 1..Len(s) \/ i = Len(s) + 1
  BY <1>1
<1>5. 1..Len(s) \subseteq 1..Len(t) /\ Len(s) + 1 \in 1..Len(t)
  BY <1>1
<1>6. \A d : d \in ToSet(t) <=> \E i \in 1..Len(t) : t[i] = d
  BY <1>1, InToSet
<1>7. \A d : d \in ToSet(s) <=> \E i \in 1..Len(s) : s[i] = d
  BY InToSet
<1>8. \A d : d \in ToSet(t) <=> d \in ToSet(s) \/ d = e
  BY <1>1, <1>4, <1>5, <1>6, <1>7
<1> QED BY <1>1, <1>3, <1>8 DEF t

(* t is s without its element at i.                                         *)
Without(s, i, t) ==
  /\ Len(t) = Len(s) - 1
  /\ \A j \in 1..(Len(s) - 1) : t[j] = IF j < i THEN s[j] ELSE s[j + 1]

LEMMA PlaceGone ==
  ASSUME NEW S, NEW s \in Seq(S), NEW t \in Seq(S), NEW i \in 1..Len(s),
         IsInjective(s), Without(s, i, t)
  PROVE  s[i] \in ToSet(s) /\ IsInjective(t) /\ ToSet(t) = ToSet(s) \ {s[i]}
<1> USE DEF Without
<1>1. Len(s) \in Nat /\ \A j, k \in 1..Len(s) : s[j] = s[k] => j = k
  BY LenProperties DEF IsInjective
<1>2. \A j \in 1..Len(s) : s[j] # s[i] => \E k \in 1..Len(t) : t[k] = s[j]
  <2>1. ASSUME NEW j \in 1..Len(s), j < i PROVE j \in 1..Len(t) /\ t[j] = s[j]
    BY <1>1, <2>1
  <2>2. ASSUME NEW j \in 1..Len(s), j > i PROVE j - 1 \in 1..Len(t) /\ t[j - 1] = s[j]
    BY <1>1, <2>2
  <2>3. \A j \in 1..Len(s) : j < i \/ j > i \/ j = i
    BY <1>1
  <2> QED BY <2>1, <2>2, <2>3
<1>3. \A k \in 1..Len(t) : \E j \in 1..Len(s) : t[k] = s[j] /\ s[j] # s[i]
  <2>1. ASSUME NEW k \in 1..Len(t), k < i PROVE k \in 1..Len(s) /\ t[k] = s[k] /\ s[k] # s[i]
    BY <1>1, <2>1
  <2>2. ASSUME NEW k \in 1..Len(t), ~(k < i)
        PROVE  k + 1 \in 1..Len(s) /\ t[k] = s[k + 1] /\ s[k + 1] # s[i]
    BY <1>1, <2>2
  <2> QED BY <2>1, <2>2
<1>4. IsInjective(t)
  BY <1>1 DEF IsInjective
<1>5. /\ \A e : e \in ToSet(t) <=> \E k \in 1..Len(t) : t[k] = e
      /\ \A e : e \in ToSet(s) <=> \E k \in 1..Len(s) : s[k] = e
  BY InToSet
<1>6. \A e \in ToSet(t) : e \in ToSet(s) /\ e # s[i]
  BY <1>3, <1>5
<1>7. \A e \in ToSet(s) : e # s[i] => e \in ToSet(t)
  BY <1>2, <1>5
<1> QED BY <1>4, <1>5, <1>6, <1>7

(* What is left when the element at i is taken.                             *)
LEMMA SpliceAt ==
  ASSUME NEW S, NEW s \in Seq(S), NEW i \in 1..Len(s)
  PROVE  RemoveAt(s, i) \in Seq(S) /\ Without(s, i, RemoveAt(s, i))
<1> DEFINE a == SubSeq(s, 1, i - 1)
           b == SubSeq(s, i + 1, Len(s))
<1>1. Len(s) \in Nat /\ \A j \in 1..Len(s) : s[j] \in S
  BY LenProperties, ElementOfSeq
<1>2. a \in Seq(S) /\ Len(a) = i - 1 /\ \A j \in 1..(i - 1) : a[j] = s[j]
  BY <1>1, SubSeqProperties
<1>3. b \in Seq(S) /\ Len(b) = Len(s) - i /\ \A j \in 1..(Len(s) - i) : b[j] = s[i + j]
  BY <1>1, SubSeqProperties
<1>4. RemoveAt(s, i) = a \o b
  BY DEF RemoveAt
<1> HIDE DEF a, b
<1>5. /\ a \o b \in Seq(S) /\ Len(a \o b) = Len(s) - 1
      /\ \A j \in 1..(Len(s) - 1) : (a \o b)[j] = IF j < i THEN a[j] ELSE b[j - (i - 1)]
  <2>1. /\ a \o b \in Seq(S) /\ Len(a \o b) = Len(a) + Len(b)
        /\ \A j \in 1 .. Len(a) + Len(b) : (a \o b)[j] = IF j <= Len(a) THEN a[j] ELSE b[j - Len(a)]
    BY <1>2, <1>3, ConcatProperties
  <2>2. Len(a) + Len(b) = Len(s) - 1 /\ \A j \in 1..(Len(s) - 1) : j <= Len(a) <=> j < i
    BY <1>1, <1>2, <1>3
  <2> QED BY <1>2, <2>1, <2>2
<1> QED BY <1>1, <1>2, <1>3, <1>4, <1>5 DEF Without

LEMMA SpliceInjective ==
  ASSUME NEW S, NEW s \in Seq(S), NEW i \in 1..Len(s), IsInjective(s)
  PROVE  /\ RemoveAt(s, i) \in Seq(S)
         /\ s[i] \in ToSet(s)
         /\ IsInjective(RemoveAt(s, i))
         /\ ToSet(RemoveAt(s, i)) = ToSet(s) \ {s[i]}
BY SpliceAt, PlaceGone

-----------------------------------------------------------------------------
(* The invariant.                                                           *)

Entry == [sql : Sqls, handle : Stmts]
Leased(s) == life[s] \in {"preparing", "open"}

(* A statement that prepare() was called for has a handle with an RPB id,   *)
(* and a running close has a handle to close.                               *)
Handles ==
  /\ \A s \in Stmts : life[s] # "new" =>
       sql[s] \in Sqls /\ handle[s] \in Stmts /\ rpb[handle[s]] # 0
  /\ \A s \in Stmts : life[s] = "new" => rpb[s] = 0 /\ main[s] = "idle" /\ ~results[s]
  /\ \A s \in Stmts : life[s] = "preparing" => handle[s] = s
  /\ \A s \in Stmts : main[s] \in {"create", "prepare"} => life[s] = "preparing"
  /\ \A k \in Closers : closing[k] # "idle" => victim[k] \in Stmts

(* A handle is in one place: with one statement or in one entry.            *)
OnePlace ==
  /\ IsInjective(cache)
  /\ \A e, f \in ToSet(cache) : e.handle = f.handle => e = f
  /\ \A e \in ToSet(cache) : rpb[e.handle] # 0
  /\ \A e \in ToSet(cache), s \in Stmts : Leased(s) => handle[s] # e.handle
  /\ \A s, t \in Stmts : Leased(s) /\ Leased(t) /\ handle[s] = handle[t] => s = t

(* What a handle runs is what it is filed and held for.                     *)
OwnSqls ==
  /\ \A e \in ToSet(cache) : SameKey(sql[e.handle], e.sql)
  /\ \A s \in Stmts : life[s] = "open" => SameKey(sql[handle[s]], sql[s])

StatementsInv == TypeOK /\ Handles /\ OnePlace /\ OwnSqls

-----------------------------------------------------------------------------
(* Consequences of the invariant.                                           *)

LEMMA HandleIds ==
  ASSUME StatementsInv, NEW s \in Stmts, life[s] # "new"
  PROVE  /\ sql[s] \in Sqls /\ handle[s] \in Stmts /\ rpb[handle[s]] # 0
         /\ rpb[handle[s]] \in Ids /\ Rpb(s) \in Ids
BY StatementsAssumption DEF StatementsInv, TypeOK, Handles, Ids, Rpb

(* A statement that waits for an answer was prepared.                       *)
LEMMA WaitsIsNotNew ==
  ASSUME StatementsInv, NEW s \in Stmts, main[s] # "idle"
  PROVE  life[s] # "new"
BY DEF StatementsInv, Handles

LEMMA NextId ==
  ASSUME StatementsInv
  PROVE  NextRpbId \in Ids /\ NextRpbId # 0 /\ NextRpbId \in 0..RpbIds
<1>1. counter \in 0..RpbIds /\ RpbIds \in Nat /\ RpbIds >= 1
  BY StatementsAssumption DEF StatementsInv, TypeOK
<1> QED BY <1>1 DEF NextRpbId, Ids

(* SQL texts under the same key: an equivalence.                            *)
LEMMA SameKeyTransitive ==
  ASSUME NEW p, NEW q, NEW r, SameKey(p, q), SameKey(q, r)
  PROVE  SameKey(p, r)
BY DEF SameKey

LEMMA SameKeySelf ==
  ASSUME NEW q
  PROVE  SameKey(q, q)
BY DEF SameKey

(* An entry of the cache.                                                   *)
LEMMA EntryAt ==
  ASSUME StatementsInv, NEW i \in 1..Len(cache)
  PROVE  /\ cache[i] \in Entry /\ cache[i] \in ToSet(cache)
         /\ cache[i].handle \in Stmts /\ cache[i].sql \in Sqls
<1>1. cache \in Seq(Entry)
  BY DEF StatementsInv, TypeOK, Entry
<1>2. cache[i] \in Entry /\ cache[i] \in ToSet(cache)
  BY <1>1, ElementOfSeq, InToSet
<1> QED BY <1>2 DEF Entry

(* The cache without an entry.                                              *)
LEMMA CacheWithout ==
  ASSUME StatementsInv, NEW i \in 1..Len(cache)
  PROVE  /\ RemoveAt(cache, i) \in Seq(Entry)
         /\ Len(RemoveAt(cache, i)) = Len(cache) - 1
         /\ IsInjective(RemoveAt(cache, i))
         /\ ToSet(RemoveAt(cache, i)) = ToSet(cache) \ {cache[i]}
<1>1. cache \in Seq(Entry) /\ IsInjective(cache)
  BY DEF StatementsInv, TypeOK, Entry, OnePlace
<1> QED BY <1>1, SpliceAt, SpliceInjective DEF Without

(* The entry of a statement that is closed, in a cache or what is left of it.*)
LEMMA CacheWith ==
  ASSUME StatementsInv, NEW s \in Stmts, life[s] = "open",
         NEW t \in Seq(Entry), IsInjective(t), ToSet(t) \subseteq ToSet(cache),
         NEW e, e = [sql |-> sql[s], handle |-> handle[s]]
  PROVE  /\ e \in Entry /\ e.handle = handle[s] /\ e.sql = sql[s]
         /\ Append(t, e) \in Seq(Entry) /\ IsInjective(Append(t, e))
         /\ ToSet(Append(t, e)) = ToSet(t) \cup {e}
         /\ Len(Append(t, e)) = Len(t) + 1
<1>1. e \in Entry /\ e.handle = handle[s] /\ e.sql = sql[s]
  BY HandleIds DEF Entry
<1>2. e \notin ToSet(t)
  BY <1>1 DEF StatementsInv, OnePlace, Leased
<1>3. Len(Append(t, e)) = Len(t) + 1
  BY <1>1, AppendProperties
<1> QED BY <1>1, <1>2, <1>3, PushInjective

-----------------------------------------------------------------------------
(* Steps that move no handle.                                               *)

(* Where the handles are, and what is known of them.                        *)
places == <<cache, life, handle, rpb, sql>>

LEMMA Stays ==
  ASSUME StatementsInv, TypeOK', UNCHANGED places,
         \A s \in Stmts :
           /\ main'[s] # main[s] => life[s] # "new"
           /\ main'[s] \in {"create", "prepare"} => life[s] = "preparing"
           /\ results'[s] => results[s] \/ life[s] # "new",
         \A k \in Closers : closing'[k] # "idle" => victim'[k] \in Stmts
  PROVE  StatementsInv'
<1>1. Handles'
  BY DEF StatementsInv, Handles, places
<1>2. OnePlace' /\ OwnSqls'
  BY DEF StatementsInv, OnePlace, OwnSqls, Leased, places
<1> QED BY <1>1, <1>2 DEF StatementsInv

LEMMA CreatedInv ==
  ASSUME StatementsInv, NEW s \in Stmts, Created(s)
  PROVE  StatementsInv'
<1>1. main[s] = "create" /\ life[s] = "preparing"
  BY DEF Created, Answered, StatementsInv, Handles
<1>2. TypeOK'
  BY DEF StatementsInv, TypeOK, Created, connVars, apiVars, closeVars, engineVars
<1>3. /\ UNCHANGED places /\ UNCHANGED <<results, closing, victim>>
      /\ main' = [main EXCEPT ![s] = "prepare"]
  BY DEF Created, apiVars, engineVars, closeVars, places
<1>4. \A r \in Stmts :
        /\ main'[r] # main[r] => life[r] # "new"
        /\ main'[r] \in {"create", "prepare"} => life[r] = "preparing"
  BY <1>1, <1>3 DEF StatementsInv, Handles, TypeOK
<1> QED BY <1>2, <1>3, <1>4, Stays DEF StatementsInv, Handles

LEMMA ExecuteInv ==
  ASSUME StatementsInv, NEW s \in Stmts, Execute(s)
  PROVE  StatementsInv'
<1>1. PICK kind \in {"open", "stream"} : main' = [main EXCEPT ![s] = kind]
  BY DEF Execute
<1>2. life[s] = "open"
  BY DEF Execute
<1>3. UNCHANGED places /\ UNCHANGED <<results, closing, victim>>
  BY DEF Execute, apiVars, engineVars, closeVars, places
<1>4. TypeOK'
  BY <1>1 DEF StatementsInv, TypeOK, Execute, connVars, apiVars, closeVars, engineVars
<1>5. \A r \in Stmts :
        /\ main'[r] # main[r] => life[r] # "new"
        /\ main'[r] \in {"create", "prepare"} => life[r] = "preparing"
  BY <1>1, <1>2 DEF StatementsInv, Handles, TypeOK
<1> QED BY <1>3, <1>4, <1>5, Stays DEF StatementsInv, Handles

(* An answer to an execution or to the close of a result set.               *)
LEMMA AnswerStays ==
  ASSUME StatementsInv, TypeOK', NEW s \in Stmts, life[s] # "new", UNCHANGED places,
         UNCHANGED <<closing, victim>>,
         NEW m \in {"idle", "fetch", "close"}, main' = [main EXCEPT ![s] = m],
         \A r \in Stmts \ {s} : results'[r] = results[r]
  PROVE  StatementsInv'
<1>1. \A r \in Stmts :
        /\ main'[r] # main[r] => life[r] # "new"
        /\ main'[r] \in {"create", "prepare"} => life[r] = "preparing"
        /\ results'[r] => results[r] \/ life[r] # "new"
  BY DEF StatementsInv, Handles, TypeOK
<1>2. \A k \in Closers : closing'[k] # "idle" => victim'[k] \in Stmts
  BY DEF StatementsInv, Handles
<1> QED BY <1>1, <1>2, Stays

LEMMA OpenedInv ==
  ASSUME StatementsInv, NEW s \in Stmts, Opened(s)
  PROVE  StatementsInv'
<1> DEFINE m == IF main[s] = "open" THEN "fetch" ELSE "idle"
           t == results[s] \/ main[s] = "stream"
<1>1. life[s] # "new" /\ Rpb(s) \in Ids
  BY WaitsIsNotNew, HandleIds DEF Opened, Answered
<1>2. /\ m \in {"idle", "fetch", "close"} /\ t \in BOOLEAN
      /\ main' = [main EXCEPT ![s] = m]
      /\ results' = [results EXCEPT ![s] = t]
      /\ UNCHANGED places /\ UNCHANGED <<closing, victim>>
  BY DEF Opened, closeVars, places, StatementsInv, TypeOK
<1>3. /\ server' = [server EXCEPT ![Rpb(s)] = "cursor"]
      /\ cursor' = cursor \cup {Rpb(s)}
      /\ UNCHANGED <<counter, dead, statements>> /\ UNCHANGED <<phase, plan>>
  BY DEF Opened, connVars
<1> HIDE DEF m, t
<1>4. TypeOK'
  BY <1>1, <1>2, <1>3 DEF StatementsInv, TypeOK, places
<1>5. \A r \in Stmts \ {s} : results'[r] = results[r]
  BY <1>2 DEF StatementsInv, TypeOK
<1> QED BY <1>1, <1>2, <1>4, <1>5, AnswerStays

LEMMA OpenedTooLateInv ==
  ASSUME StatementsInv, NEW s \in Stmts, OpenedTooLate(s)
  PROVE  StatementsInv'
<1>1. life[s] # "new" /\ Rpb(s) \in Ids
  BY WaitsIsNotNew, HandleIds DEF OpenedTooLate, Answered
<1>2. /\ main' = [main EXCEPT ![s] = "idle"] /\ results' = results
      /\ UNCHANGED places /\ UNCHANGED <<closing, victim>>
  BY DEF OpenedTooLate, apiVars, closeVars, places
<1>3. /\ server' = [server EXCEPT ![Rpb(s)] = "cursor"]
      /\ cursor' = cursor \cup {Rpb(s)}
      /\ UNCHANGED <<counter, dead, statements>> /\ UNCHANGED <<phase, plan>>
  BY DEF OpenedTooLate, connVars
<1>4. TypeOK'
  BY <1>1, <1>2, <1>3 DEF StatementsInv, TypeOK, places
<1> QED BY <1>1, <1>2, <1>4, AnswerStays

LEMMA OpenFailsInv ==
  ASSUME StatementsInv, NEW s \in Stmts, OpenFails(s)
  PROVE  StatementsInv'
<1>1. life[s] # "new"
  BY WaitsIsNotNew DEF OpenFails, Answered
<1>2. /\ main' = [main EXCEPT ![s] = "idle"] /\ results' = results
      /\ UNCHANGED places /\ UNCHANGED <<closing, victim>>
  BY DEF OpenFails, apiVars, closeVars, engineVars, places
<1>3. TypeOK'
  BY DEF StatementsInv, TypeOK, OpenFails, connVars, apiVars, closeVars, engineVars
<1> QED BY <1>1, <1>2, <1>3, AnswerStays

LEMMA FetchedInv ==
  ASSUME StatementsInv, NEW s \in Stmts, Fetched(s)
  PROVE  StatementsInv'
<1> DEFINE m == IF Rpb(s) \in cursor THEN "close" ELSE "idle"
<1>1. life[s] # "new"
  BY WaitsIsNotNew DEF Fetched, Answered
<1>2. /\ m \in {"idle", "fetch", "close"}
      /\ main' = [main EXCEPT ![s] = m] /\ results' = results
      /\ UNCHANGED places /\ UNCHANGED <<closing, victim>>
      /\ UNCHANGED <<counter, dead, statements, cursor, server>> /\ UNCHANGED <<phase, plan>>
  BY DEF Fetched, AfterRows, connVars, apiVars, closeVars, engineVars, places
<1> HIDE DEF m
<1>3. TypeOK'
  BY <1>2 DEF StatementsInv, TypeOK, places
<1> QED BY <1>1, <1>2, <1>3, AnswerStays

LEMMA ResultsCloseInv ==
  ASSUME StatementsInv, NEW s \in Stmts, ResultsClose(s)
  PROVE  StatementsInv'
<1> DEFINE m == IF Rpb(s) \in cursor THEN "close" ELSE "idle"
<1>1. life[s] # "new"
  BY DEF ResultsClose, StatementsInv, Handles
<1>2. /\ m \in {"idle", "fetch", "close"}
      /\ main' = [main EXCEPT ![s] = m] /\ results' = [results EXCEPT ![s] = FALSE]
      /\ UNCHANGED places /\ UNCHANGED <<closing, victim>>
      /\ UNCHANGED <<counter, dead, statements, cursor, server>> /\ UNCHANGED <<phase, plan>>
  BY DEF ResultsClose, connVars, closeVars, engineVars, places
<1> HIDE DEF m
<1>3. TypeOK'
  BY <1>2 DEF StatementsInv, TypeOK, places
<1>4. \A r \in Stmts \ {s} : results'[r] = results[r]
  BY <1>2 DEF StatementsInv, TypeOK
<1> QED BY <1>1, <1>2, <1>3, <1>4, AnswerStays

LEMMA CursorClosedTypes ==
  ASSUME StatementsInv, NEW i, CursorClosed(i)
  PROVE  cursor' \in SUBSET Ids /\ server' \in [Ids -> {"none", "rpb", "prepared", "cursor"}]
<1>1. server \in [Ids -> {"none", "rpb", "prepared", "cursor"}] /\ cursor \in SUBSET Ids
  BY DEF StatementsInv, TypeOK
<1>2. cursor' \in SUBSET Ids
  BY <1>1 DEF CursorClosed
<1>3. server' = [server EXCEPT ![i] = IF server[i] = "cursor" THEN "prepared" ELSE server[i]]
  BY DEF CursorClosed
<1> QED BY <1>1, <1>2, <1>3

LEMMA ClosedInv ==
  ASSUME StatementsInv, NEW s \in Stmts, Closed(s)
  PROVE  StatementsInv'
<1>1. life[s] # "new"
  BY WaitsIsNotNew DEF Closed, Answered
<1>2. /\ main' = [main EXCEPT ![s] = "idle"] /\ results' = results
      /\ UNCHANGED places /\ UNCHANGED <<closing, victim>>
      /\ UNCHANGED <<counter, dead, statements>> /\ UNCHANGED <<phase, plan>>
  BY DEF Closed, connVars, apiVars, closeVars, places
<1>3. cursor' \in SUBSET Ids /\ server' \in [Ids -> {"none", "rpb", "prepared", "cursor"}]
  BY CursorClosedTypes DEF Closed
<1>4. TypeOK'
  BY <1>2, <1>3 DEF StatementsInv, TypeOK, places
<1> QED BY <1>1, <1>2, <1>4, AnswerStays

-----------------------------------------------------------------------------
(* Closing handles: nothing of it moves one either.                         *)

LEMMA RetireTypes ==
  ASSUME StatementsInv, NEW k \in Closers, NEW h \in Stmts, Retire(k, h)
  PROVE  /\ closing' \in [Closers -> {"idle", "cursor", "delete"}]
         /\ victim' \in [Closers -> Stmts \cup {None}]
         /\ \A l \in Closers : closing'[l] # "idle" => victim'[l] \in Stmts
<1> DEFINE c == IF rpb[h] \in cursor THEN "cursor" ELSE "delete"
<1>1. /\ closing \in [Closers -> {"idle", "cursor", "delete"}]
      /\ victim \in [Closers -> Stmts \cup {None}]
      /\ \A l \in Closers : closing[l] # "idle" => victim[l] \in Stmts
  BY DEF StatementsInv, TypeOK, Handles
<1>2. CASE h \in dead
  BY <1>1, <1>2 DEF Retire
<1>3. CASE h \notin dead
  <2>1. closing' = [closing EXCEPT ![k] = c] /\ victim' = [victim EXCEPT ![k] = h]
    BY <1>3 DEF Retire
  <2>2. c \in {"cursor", "delete"}
    OBVIOUS
  <2> HIDE DEF c
  <2> QED BY <1>1, <2>1, <2>2
<1> QED BY <1>2, <1>3

(* What is known of the closes that run.                                    *)
LEMMA Closings ==
  ASSUME StatementsInv
  PROVE  /\ closing \in [Closers -> {"idle", "cursor", "delete"}]
         /\ victim \in [Closers -> Stmts \cup {None}]
         /\ \A l \in Closers : closing[l] # "idle" => victim[l] \in Stmts
BY DEF StatementsInv, TypeOK, Handles

(* Only what is being closed changes.                                       *)
LEMMA ClosingStays ==
  ASSUME StatementsInv, TypeOK', UNCHANGED places, UNCHANGED <<main, results>>,
         \A k \in Closers : closing'[k] # "idle" => victim'[k] \in Stmts
  PROVE  StatementsInv'
<1>1. \A s \in Stmts : main'[s] \in {"create", "prepare"} => life[s] = "preparing"
  BY DEF StatementsInv, Handles
<1> QED BY <1>1, Stays

LEMMA VictimCursorClosedInv ==
  ASSUME StatementsInv, NEW k \in Closers, VictimCursorClosed(k)
  PROVE  StatementsInv'
<1>1. /\ UNCHANGED places /\ UNCHANGED <<main, results>>
      /\ UNCHANGED <<counter, dead, statements>> /\ UNCHANGED <<phase, plan>>
  BY DEF VictimCursorClosed, connVars, apiVars, places
<1>2. closing[k] = "cursor" /\ victim[k] \in Stmts
  BY DEF VictimCursorClosed, AnsweredTo, StatementsInv, Handles
<1>3. /\ cursor' \in SUBSET Ids
      /\ server' \in [Ids -> {"none", "rpb", "prepared", "cursor"}]
      /\ \/ /\ closing' = [closing EXCEPT ![k] = "idle"]
            /\ victim' = [victim EXCEPT ![k] = None]
         \/ closing' = [closing EXCEPT ![k] = "delete"] /\ victim' = victim
  <2>1. CASE k = Conn /\ phase = "cursors"
    <3> DEFINE i == rpb[victim[k]]
    <3>1. /\ server' = [server EXCEPT ![i] = IF server[i] = "cursor" THEN "prepared"
                                             ELSE server[i]]
          /\ cursor' = cursor \ {i}
          /\ closing' = [closing EXCEPT ![k] = "idle"]
          /\ victim' = [victim EXCEPT ![k] = None]
      BY <2>1 DEF VictimCursorClosed
    <3> HIDE DEF i
    <3>2. server \in [Ids -> {"none", "rpb", "prepared", "cursor"}] /\ cursor \in SUBSET Ids
      BY DEF StatementsInv, TypeOK
    <3> QED BY <3>1, <3>2
  <2>2. CASE ~(k = Conn /\ phase = "cursors")
    BY <2>2, CursorClosedTypes DEF VictimCursorClosed
  <2> QED BY <2>1, <2>2
<1>4. \A l \in Closers : closing'[l] # "idle" => victim'[l] \in Stmts
  BY <1>2, <1>3, Closings
<1>5. TypeOK'
  BY <1>1, <1>3 DEF StatementsInv, TypeOK, places
<1> QED BY <1>1, <1>4, <1>5, ClosingStays

LEMMA VictimDeletedInv ==
  ASSUME StatementsInv, NEW k \in Closers, VictimDeleted(k)
  PROVE  StatementsInv'
<1> DEFINE i == rpb[victim[k]]
<1>1. /\ UNCHANGED places /\ UNCHANGED <<main, results>>
      /\ UNCHANGED <<counter, cursor>> /\ UNCHANGED <<phase, plan>>
      /\ closing' = [closing EXCEPT ![k] = "idle"]
      /\ victim' = [victim EXCEPT ![k] = None]
      /\ server' = [server EXCEPT ![i] = "none"]
      /\ dead' = dead \cup {victim[k]}
      /\ statements' = [statements EXCEPT ![i] = None]
  BY DEF VictimDeleted, connVars, apiVars, places
<1>2. victim[k] \in Stmts
  BY DEF VictimDeleted, AnsweredTo, StatementsInv, Handles
<1> HIDE DEF i
<1>3. \A l \in Closers : closing'[l] # "idle" => victim'[l] \in Stmts
  BY <1>1 DEF StatementsInv, TypeOK, Handles
<1>4. TypeOK'
  BY <1>1, <1>2 DEF StatementsInv, TypeOK, places
<1> QED BY <1>1, <1>3, <1>4, ClosingStays

LEMMA ConnAbortInv ==
  ASSUME StatementsInv, ConnAbort
  PROVE  StatementsInv'
<1>1. /\ UNCHANGED places /\ UNCHANGED <<main, results, closing, victim>>
      /\ UNCHANGED <<counter, dead, statements, cursor, server>>
      /\ phase' = "statements" /\ plan' = InStatements
  BY DEF ConnAbort, apiVars, closeVars, engineVars, places
<1>2. InStatements \in SUBSET Stmts
  BY DEF InStatements, StatementsInv, TypeOK
<1>3. TypeOK'
  BY <1>1, <1>2 DEF StatementsInv, TypeOK, places
<1> QED BY <1>1, <1>3, ClosingStays DEF StatementsInv, Handles

LEMMA ConnNextInv ==
  ASSUME StatementsInv, ConnNext
  PROVE  StatementsInv'
<1>1. /\ UNCHANGED places /\ UNCHANGED <<main, results, phase>>
      /\ UNCHANGED <<counter, dead, statements, cursor, server>>
  BY DEF ConnNext, apiVars, engineVars, places
<1>2. PICK h \in plan :
        /\ plan' = plan \ {h}
        /\ IF phase = "cursors" /\ rpb[h] \notin cursor
             THEN UNCHANGED <<closing, victim>>
             ELSE IF phase = "cursors"
             THEN /\ closing' = [closing EXCEPT ![Conn] = "cursor"]
                  /\ victim' = [victim EXCEPT ![Conn] = h]
             ELSE Retire(Conn, h)
  BY DEF ConnNext
<1>3. h \in Stmts /\ plan' \in SUBSET Stmts /\ Conn \in Closers
  BY <1>2 DEF StatementsInv, TypeOK, Closers
<1>4. /\ closing' \in [Closers -> {"idle", "cursor", "delete"}]
      /\ victim' \in [Closers -> Stmts \cup {None}]
      /\ \A l \in Closers : closing'[l] # "idle" => victim'[l] \in Stmts
  <2>1. CASE Retire(Conn, h)
    BY <1>3, <2>1, RetireTypes
  <2>2. CASE UNCHANGED <<closing, victim>>
    BY <2>2, Closings
  <2>3. CASE /\ closing' = [closing EXCEPT ![Conn] = "cursor"]
             /\ victim' = [victim EXCEPT ![Conn] = h]
    BY <1>3, <2>3, Closings
  <2> QED BY <1>2, <2>1, <2>2, <2>3
<1>5. TypeOK'
  BY <1>1, <1>3, <1>4 DEF StatementsInv, TypeOK, places
<1> QED BY <1>1, <1>4, <1>5, ClosingStays

LEMMA ConnPhaseInv ==
  ASSUME StatementsInv, ConnPhase
  PROVE  StatementsInv'
<1>1. /\ UNCHANGED places /\ UNCHANGED <<main, results, closing, victim>>
      /\ UNCHANGED <<counter, dead, statements, cursor, server>>
  BY DEF ConnPhase, apiVars, closeVars, engineVars, places
<1>2. InStatements \in SUBSET Stmts
  BY DEF InStatements, StatementsInv, TypeOK
<1>3. /\ phase' \in {"open", "drain", "statements", "cursors", "down"}
      /\ plan' \in SUBSET Stmts
  BY <1>2 DEF ConnPhase
<1>4. TypeOK'
  BY <1>1, <1>3 DEF StatementsInv, TypeOK, places
<1> QED BY <1>1, <1>4, ClosingStays DEF StatementsInv, Handles

-----------------------------------------------------------------------------
(* Steps that move a handle.                                                *)

(* A handle that is held or cached has an RPB id; a new statement is none.  *)
LEMMA NewIsNowhere ==
  ASSUME StatementsInv, NEW s \in Stmts, life[s] = "new"
  PROVE  /\ ~Leased(s) /\ rpb[s] = 0 /\ main[s] = "idle" /\ ~results[s]
         /\ \A e \in ToSet(cache) : e.handle # s
         /\ \A t \in Stmts : life[t] # "new" => t # s /\ handle[t] # s
BY DEF StatementsInv, Handles, OnePlace, Leased

LEMMA CachedEntries ==
  ASSUME StatementsInv
  PROVE  ToSet(cache) \subseteq Entry /\ \A e \in ToSet(cache) : e.handle \in Stmts
<1>1. ToSet(cache) \subseteq Entry
  BY ToSetSubset DEF StatementsInv, TypeOK, Entry
<1> QED BY <1>1 DEF Entry

LEMMA AcquireInv ==
  ASSUME StatementsInv, NEW s \in Stmts, NEW q \in Sqls, life[s] = "new",
         sql' = [sql EXCEPT ![s] = q], Acquire(s, q),
         UNCHANGED <<phase, plan>>, UNCHANGED <<closing, victim>>,
         UNCHANGED <<results, dead, statements, cursor, server>>
  PROVE  StatementsInv'
<1>1. PICK i \in InCache(q) :
        /\ handle' = [handle EXCEPT ![s] = cache[i].handle]
        /\ life' = [life EXCEPT ![s] = "open"]
        /\ cache' = RemoveAt(cache, i)
        /\ UNCHANGED <<main, counter, rpb>>
  BY DEF Acquire
<1> DEFINE f == cache[i]
           h == f.handle
<1>2. i \in 1..Len(cache) /\ SameKey(f.sql, q)
  BY <1>1 DEF InCache
<1>3. f \in ToSet(cache) /\ h \in Stmts
  BY <1>2, EntryAt
<1>4. /\ cache' \in Seq(Entry) /\ Len(cache') = Len(cache) - 1
      /\ IsInjective(cache') /\ ToSet(cache') = ToSet(cache) \ {f}
  BY <1>1, <1>2, CacheWithout
<1>5. /\ handle' = [handle EXCEPT ![s] = h] /\ life' = [life EXCEPT ![s] = "open"]
      /\ UNCHANGED <<main, counter, rpb>>
  BY <1>1
<1> HIDE DEF f, h
<1>6. /\ sql'[s] = q /\ handle'[s] = h /\ life'[s] = "open"
      /\ \A t \in Stmts \ {s} : /\ sql'[t] = sql[t] /\ handle'[t] = handle[t]
                                /\ life'[t] = life[t]
  BY <1>5 DEF StatementsInv, TypeOK
<1>7. h = f.handle /\ h # s /\ rpb[h] # 0 /\ SameKey(sql[h], q)
  <2>1. h = f.handle
    BY DEF h
  <2>2. h # s /\ rpb[h] # 0 /\ SameKey(sql[h], f.sql)
    BY <1>3, <2>1, NewIsNowhere DEF StatementsInv, OnePlace, OwnSqls
  <2> QED BY <1>2, <2>1, <2>2, SameKeyTransitive
<1>8. TypeOK'
  <2>1. Len(cache') <= Capacity
    <3>1. Len(cache) <= Capacity /\ Len(cache) \in Nat /\ Capacity \in Nat
      BY LenProperties, StatementsAssumption DEF StatementsInv, TypeOK
    <3> QED BY <1>4, <3>1
  <2> QED BY <1>3, <1>4, <1>5, <2>1 DEF StatementsInv, TypeOK, Entry
<1>9. Handles'
  BY <1>3, <1>5, <1>6, <1>7, NewIsNowhere DEF StatementsInv, Handles
<1>10. OnePlace'
  <2>1. \A e \in ToSet(cache) : e # f => e.handle # h
    BY <1>3, <1>7 DEF StatementsInv, OnePlace
  <2>2. \A t \in Stmts : Leased(t) => handle[t] # h
    BY <1>3, <1>7 DEF StatementsInv, OnePlace
  <2>3. \A t \in Stmts \ {s} : Leased(t)' <=> Leased(t)
    BY <1>6 DEF Leased
  <2>4. \A e \in ToSet(cache'), t \in Stmts : Leased(t)' => handle'[t] # e.handle
    BY <1>4, <1>6, <2>1, <2>3 DEF StatementsInv, OnePlace
  <2>5. \A r, t \in Stmts : Leased(r)' /\ Leased(t)' /\ handle'[r] = handle'[t] => r = t
    BY <1>6, <2>2, <2>3 DEF StatementsInv, OnePlace
  <2> QED BY <1>4, <1>5, <2>4, <2>5 DEF StatementsInv, OnePlace
<1>11. OwnSqls'
  <2>1. \A e \in ToSet(cache') : sql'[e.handle] = sql[e.handle]
    BY <1>4, <1>6, CachedEntries, NewIsNowhere
  <2>2. \A e \in ToSet(cache') : SameKey(sql'[e.handle], e.sql)
    BY <1>4, <2>1 DEF StatementsInv, OwnSqls
  <2>3. ASSUME NEW t \in Stmts, life'[t] = "open"
        PROVE  SameKey(sql'[handle'[t]], sql'[t])
    <3>1. CASE t = s
      BY <1>3, <1>6, <1>7, <3>1
    <3>2. CASE t # s
      <4>1. handle[t] \in Stmts /\ handle[t] # s /\ life[t] = "open"
        BY <1>6, <2>3, <3>2, HandleIds, NewIsNowhere
      <4> QED BY <1>6, <3>2, <4>1 DEF StatementsInv, OwnSqls
    <3> QED BY <3>1, <3>2
  <2> QED BY <2>2, <2>3 DEF OwnSqls
<1> QED BY <1>8, <1>9, <1>10, <1>11 DEF StatementsInv

LEMMA CreateInv ==
  ASSUME StatementsInv, NEW s \in Stmts, NEW q \in Sqls, life[s] = "new",
         sql' = [sql EXCEPT ![s] = q], Create(s),
         UNCHANGED <<phase, plan>>, UNCHANGED <<closing, victim>>,
         UNCHANGED <<results, dead, statements, cursor, server>>
  PROVE  StatementsInv'
<1> DEFINE id == NextRpbId
<1>1. /\ counter' = id /\ rpb' = [rpb EXCEPT ![s] = id]
      /\ handle' = [handle EXCEPT ![s] = s]
      /\ life' = [life EXCEPT ![s] = "preparing"]
      /\ main' = [main EXCEPT ![s] = "create"]
      /\ cache' = cache
  BY DEF Create
<1>2. id \in 0..RpbIds /\ id # 0
  BY NextId
<1> HIDE DEF id
<1>3. /\ sql'[s] = q /\ handle'[s] = s /\ life'[s] = "preparing" /\ main'[s] = "create"
      /\ rpb'[s] = id
      /\ \A t \in Stmts \ {s} : /\ sql'[t] = sql[t] /\ handle'[t] = handle[t]
                                /\ life'[t] = life[t] /\ main'[t] = main[t]
                                /\ rpb'[t] = rpb[t]
  BY <1>1 DEF StatementsInv, TypeOK
<1>4. TypeOK'
  BY <1>1, <1>2 DEF StatementsInv, TypeOK
<1>5. Handles'
  BY <1>2, <1>3, NewIsNowhere DEF StatementsInv, Handles
<1>6. \A t \in Stmts \ {s} : Leased(t)' <=> Leased(t)
  BY <1>3 DEF Leased
<1>7. \A t \in Stmts : Leased(t) => handle[t] # s
  BY NewIsNowhere DEF Leased
<1>8. OnePlace'
  <2>1. \A e \in ToSet(cache) : e.handle # s /\ e.handle \in Stmts
    BY CachedEntries, NewIsNowhere
  <2> QED BY <1>1, <1>3, <1>6, <1>7, <2>1 DEF StatementsInv, OnePlace
<1>9. OwnSqls'
  <2>1. \A e \in ToSet(cache) : sql'[e.handle] = sql[e.handle]
    BY <1>3, CachedEntries, NewIsNowhere
  <2>2. \A t \in Stmts : life'[t] = "open" =>
          t # s /\ life[t] = "open" /\ handle[t] # s /\ handle[t] \in Stmts
    BY <1>3, HandleIds, NewIsNowhere
  <2> QED BY <1>1, <1>3, <2>1, <2>2 DEF StatementsInv, OwnSqls
<1> QED BY <1>4, <1>5, <1>8, <1>9 DEF StatementsInv

LEMMA PrepareInv ==
  ASSUME StatementsInv, NEW s \in Stmts, NEW q \in Sqls, Prepare(s, q)
  PROVE  StatementsInv'
BY AcquireInv, CreateInv DEF Prepare, connVars, closeVars

LEMMA PrepareFailsInv ==
  ASSUME StatementsInv, NEW s \in Stmts, PrepareFails(s)
  PROVE  StatementsInv'
<1>1. /\ life[s] = "preparing"
      /\ life' = [life EXCEPT ![s] = "failed"] /\ main' = [main EXCEPT ![s] = "idle"]
      /\ UNCHANGED <<cache, sql, handle, rpb>>
      /\ UNCHANGED <<phase, plan, results, closing, victim, counter, dead, statements,
                     cursor, server>>
  BY DEF PrepareFails, Answered, StatementsInv, Handles, connVars, closeVars, engineVars
<1>2. TypeOK'
  BY <1>1 DEF StatementsInv, TypeOK
<1>3. /\ life'[s] = "failed" /\ main'[s] = "idle"
      /\ \A t \in Stmts \ {s} : life'[t] = life[t] /\ main'[t] = main[t]
  BY <1>1 DEF StatementsInv, TypeOK
<1>4. Handles'
  BY <1>1, <1>3 DEF StatementsInv, Handles
<1>5. \A t \in Stmts : Leased(t)' => Leased(t)
  BY <1>3 DEF Leased
<1>6. OnePlace' /\ OwnSqls'
  BY <1>1, <1>3, <1>5 DEF StatementsInv, OnePlace, OwnSqls
<1> QED BY <1>2, <1>4, <1>6 DEF StatementsInv

LEMMA PreparedInv ==
  ASSUME StatementsInv, NEW s \in Stmts, Prepared(s)
  PROVE  StatementsInv'
<1> DEFINE i == rpb[s]
<1>1. /\ life[s] = "preparing" /\ handle[s] = s
      /\ life' = [life EXCEPT ![s] = "open"] /\ main' = [main EXCEPT ![s] = "idle"]
      /\ server' = [server EXCEPT ![i] = "prepared"]
      /\ statements' = [statements EXCEPT ![i] = s]
      /\ UNCHANGED <<cache, sql, handle, rpb>>
      /\ UNCHANGED <<phase, plan, results, closing, victim, counter, dead, cursor>>
  BY DEF Prepared, Answered, StatementsInv, Handles, connVars, closeVars
<1> HIDE DEF i
<1>2. TypeOK'
  BY <1>1 DEF StatementsInv, TypeOK
<1>3. /\ life'[s] = "open" /\ main'[s] = "idle"
      /\ \A t \in Stmts \ {s} : life'[t] = life[t] /\ main'[t] = main[t]
  BY <1>1 DEF StatementsInv, TypeOK
<1>4. Handles'
  BY <1>1, <1>3 DEF StatementsInv, Handles
<1>5. \A t \in Stmts : Leased(t)' <=> Leased(t)
  BY <1>1, <1>3 DEF Leased
<1>6. OnePlace'
  BY <1>1, <1>5 DEF StatementsInv, OnePlace
<1>7. OwnSqls'
  BY <1>1, <1>3, SameKeySelf DEF StatementsInv, OwnSqls
<1> QED BY <1>2, <1>4, <1>6, <1>7 DEF StatementsInv

LEMMA ConnCloseInv ==
  ASSUME StatementsInv, ConnClose
  PROVE  StatementsInv'
<1>1. /\ phase' = "drain" /\ plan' = Cached /\ cache' = <<>>
      /\ UNCHANGED <<life, handle, rpb, sql>>
      /\ UNCHANGED <<main, results, closing, victim, counter, dead, statements, cursor,
                     server>>
  BY DEF ConnClose, apiVars, closeVars, engineVars
<1>2. Cached \in SUBSET Stmts
  BY EntryAt DEF Cached
<1>3. /\ cache' \in Seq(Entry) /\ Len(cache') = 0 /\ IsInjective(cache')
      /\ \A e : e \notin ToSet(cache')
  <2> DEFINE t == cache'
  <2>1. t \in Seq(Entry) /\ Len(t) = 0
    BY <1>1, EmptySeq
  <2>2. \A j \in 1..Len(t) : FALSE
    BY <2>1
  <2> HIDE DEF t
  <2>3. IsInjective(t)
    BY <2>1, <2>2, InjectiveSeq
  <2>4. ASSUME NEW e PROVE e \notin ToSet(t)
    BY <2>1, <2>2, InToSet
  <2> QED BY <2>1, <2>3, <2>4 DEF t
<1>4. TypeOK'
  BY <1>1, <1>2, <1>3, StatementsAssumption DEF StatementsInv, TypeOK, Entry
<1>5. Handles' /\ OnePlace' /\ OwnSqls'
  BY <1>1, <1>3 DEF StatementsInv, Handles, OnePlace, OwnSqls, Leased
<1> QED BY <1>4, <1>5 DEF StatementsInv

-----------------------------------------------------------------------------
(* PreparedStatement.close().                                               *)

(* What close() leaves alone, and that the statement no longer holds its    *)
(* handle.                                                                  *)
Leaves(s) ==
  /\ life[s] = "open"
  /\ life' = [life EXCEPT ![s] = "closed"]
  /\ UNCHANGED <<sql, handle, rpb>>
  /\ UNCHANGED <<phase, plan, main, results, counter, dead, statements, cursor, server>>
  /\ closing' \in [Closers -> {"idle", "cursor", "delete"}]
  /\ victim' \in [Closers -> Stmts \cup {None}]
  /\ \A k \in Closers : closing'[k] # "idle" => victim'[k] \in Stmts

LEMMA LeavesHandles ==
  ASSUME StatementsInv, NEW s \in Stmts, Leaves(s)
  PROVE  /\ Handles'
         /\ life'[s] = "closed" /\ \A t \in Stmts \ {s} : life'[t] = life[t]
         /\ ~Leased(s)' /\ \A t \in Stmts \ {s} : Leased(t)' <=> Leased(t)
<1>1. life'[s] = "closed" /\ \A t \in Stmts \ {s} : life'[t] = life[t]
  BY DEF Leaves, StatementsInv, TypeOK
<1> QED BY <1>1 DEF Leaves, StatementsInv, Handles, Leased

LEMMA LeavesCache ==
  ASSUME StatementsInv, NEW s \in Stmts, Leaves(s), cache' = cache
  PROVE  StatementsInv'
<1>1. TypeOK'
  BY DEF Leaves, StatementsInv, TypeOK
<1>2. OnePlace' /\ OwnSqls'
  BY LeavesHandles DEF Leaves, StatementsInv, OnePlace, OwnSqls
<1> QED BY <1>1, <1>2, LeavesHandles DEF StatementsInv

LEMMA LeavesEntry ==
  ASSUME StatementsInv, NEW s \in Stmts, Leaves(s),
         NEW t \in Seq(Entry), IsInjective(t), ToSet(t) \subseteq ToSet(cache),
         Len(t) < Capacity,
         NEW e, e = [sql |-> sql[s], handle |-> handle[s]], cache' = Append(t, e)
  PROVE  StatementsInv'
<1>1. /\ e \in Entry /\ e.handle = handle[s] /\ e.sql = sql[s]
      /\ cache' \in Seq(Entry) /\ IsInjective(cache')
      /\ ToSet(cache') = ToSet(t) \cup {e} /\ Len(cache') = Len(t) + 1
  BY CacheWith DEF Leaves
<1>2. Len(cache') <= Capacity
  <2>1. Len(t) \in Nat /\ Capacity \in Nat
    BY LenProperties, StatementsAssumption
  <2> QED BY <1>1, <2>1
<1>3. TypeOK'
  BY <1>1, <1>2 DEF Leaves, StatementsInv, TypeOK, Entry
<1>4. life[s] = "open" /\ Leased(s) /\ rpb[handle[s]] # 0 /\ handle[s] \in Stmts
  BY HandleIds DEF Leaves, Leased
<1>5. OnePlace'
  <2>1. \A f \in ToSet(t) : f.handle # handle[s]
    BY <1>4 DEF StatementsInv, OnePlace
  <2>2. \A r \in Stmts \ {s} : Leased(r) => handle[r] # handle[s]
    BY <1>4 DEF StatementsInv, OnePlace
  <2>3. \A f, g \in ToSet(cache') : f.handle = g.handle => f = g
    BY <1>1, <2>1 DEF StatementsInv, OnePlace
  <2>4. \A f \in ToSet(cache') : rpb'[f.handle] # 0
    BY <1>1, <1>4 DEF Leaves, StatementsInv, OnePlace
  <2>5. \A f \in ToSet(cache'), r \in Stmts : Leased(r)' => handle'[r] # f.handle
    <3>1. \A r \in Stmts : Leased(r)' => r \in Stmts \ {s} /\ Leased(r)
      BY LeavesHandles
    <3>2. \A f \in ToSet(t), r \in Stmts : Leased(r) => handle[r] # f.handle
      BY DEF StatementsInv, OnePlace
    <3>3. handle' = handle
      BY DEF Leaves
    <3> QED BY <1>1, <2>2, <3>1, <3>2, <3>3
  <2>6. \A q, r \in Stmts : Leased(q)' /\ Leased(r)' /\ handle'[q] = handle'[r] => q = r
    BY LeavesHandles DEF Leaves, StatementsInv, OnePlace
  <2> QED BY <1>1, <2>3, <2>4, <2>5, <2>6 DEF OnePlace
<1>6. OwnSqls'
  <2>1. SameKey(sql[handle[s]], sql[s])
    BY <1>4 DEF StatementsInv, OwnSqls
  <2>2. \A f \in ToSet(cache') : SameKey(sql'[f.handle], f.sql)
    BY <1>1, <2>1 DEF Leaves, StatementsInv, OwnSqls
  <2>3. \A r \in Stmts : life'[r] = "open" => SameKey(sql'[handle'[r]], sql'[r])
    BY LeavesHandles DEF Leaves, StatementsInv, OwnSqls
  <2> QED BY <2>2, <2>3 DEF OwnSqls
<1> QED BY <1>3, <1>5, <1>6, LeavesHandles DEF StatementsInv

(* What close() does with the handle, in the terms of the lemmas above.     *)
ClosesBy(s) ==
  \/ Retire(s, handle[s]) /\ cache' = cache
  \/ GiveBack(s)

LEMMA DisplacedAt ==
  ASSUME StatementsInv, NEW q, NEW i \in Displaced(q)
  PROVE  i \in 1..Len(cache)
<1>1. Len(cache) \in Nat /\ Capacity \in Nat /\ Capacity >= 1
  BY LenProperties, StatementsAssumption DEF StatementsInv, TypeOK
<1>2. CASE InCache(q) # {}
  BY <1>2 DEF Displaced, InCache
<1>3. CASE InCache(q) = {}
  <2>1. Len(cache) >= Capacity /\ i = 1
    BY <1>3 DEF Displaced
  <2> QED BY <1>1, <2>1
<1> QED BY <1>2, <1>3

EntryOf(s) == [sql |-> sql[s], handle |-> handle[s]]

LEMMA CloseCases ==
  ASSUME StatementsInv, NEW s \in Stmts, Close(s)
  PROVE  /\ Leaves(s)
         /\ \/ cache' = cache
            \/ \E t \in Seq(Entry) :
                 /\ IsInjective(t) /\ ToSet(t) \subseteq ToSet(cache)
                 /\ Len(t) < Capacity /\ cache' = Append(t, EntryOf(s))
<1> DEFINE e == [sql |-> sql[s], handle |-> handle[s]]
<1>1. /\ life[s] = "open" /\ life' = [life EXCEPT ![s] = "closed"]
      /\ UNCHANGED <<sql, handle, rpb>>
      /\ UNCHANGED <<phase, plan, main, results, counter, dead, statements, cursor, server>>
      /\ ClosesBy(s)
  BY DEF Close, connVars, engineVars, ClosesBy
<1>2. s \in Closers /\ handle[s] \in Stmts
  BY <1>1, HandleIds DEF Closers
<1>3. /\ Len(cache) \in Nat /\ Capacity \in Nat /\ Len(cache) <= Capacity
      /\ cache \in Seq(Entry) /\ IsInjective(cache)
  BY LenProperties, StatementsAssumption DEF StatementsInv, TypeOK, OnePlace, Entry
<1>4. CASE Retire(s, handle[s]) /\ cache' = cache
  <2>1. Leaves(s)
    BY <1>1, <1>2, <1>4, RetireTypes DEF Leaves
  <2> QED BY <1>4, <2>1
<1>5. CASE /\ Displaced(sql[s]) = {}
           /\ cache' = Append(cache, e)
           /\ UNCHANGED <<closing, victim>>
  <2>1. Leaves(s)
    BY <1>1, <1>5, Closings DEF Leaves
  <2>2. ~(Len(cache) >= Capacity)
    BY <1>5 DEF Displaced
  <2>3. Len(cache) < Capacity
    BY <1>3, <2>2
  <2> QED BY <1>3, <1>5, <2>1, <2>3 DEF EntryOf
<1>6. CASE \E i \in Displaced(sql[s]) :
             cache' = Append(RemoveAt(cache, i), e) /\ Retire(s, cache[i].handle)
  <2>1. PICK i \in Displaced(sql[s]) :
          cache' = Append(RemoveAt(cache, i), e) /\ Retire(s, cache[i].handle)
    BY <1>6
  <2>2. i \in 1..Len(cache)
    BY DisplacedAt
  <2>3. cache[i].handle \in Stmts
    BY <2>2, EntryAt
  <2>4. Leaves(s)
    BY <1>1, <1>2, <2>1, <2>3, RetireTypes DEF Leaves
  <2> DEFINE t == RemoveAt(cache, i)
  <2>5. /\ t \in Seq(Entry) /\ Len(t) = Len(cache) - 1 /\ IsInjective(t)
        /\ ToSet(t) \subseteq ToSet(cache)
    BY <2>2, CacheWithout
  <2>6. cache' = Append(t, EntryOf(s)) /\ Len(t) < Capacity
    BY <1>3, <2>1, <2>5 DEF EntryOf
  <2> HIDE DEF t
  <2> QED BY <2>4, <2>5, <2>6
<1> QED BY <1>1, <1>4, <1>5, <1>6 DEF ClosesBy, GiveBack

LEMMA CloseInv ==
  ASSUME StatementsInv, NEW s \in Stmts, Close(s)
  PROVE  StatementsInv'
BY CloseCases, LeavesCache, LeavesEntry DEF EntryOf

-----------------------------------------------------------------------------
(* The invariant holds.                                                     *)

LEMMA InitInv == Init => StatementsInv
<1> SUFFICES ASSUME Init PROVE StatementsInv
  OBVIOUS
<1>1. /\ cache \in Seq(Entry) /\ Len(cache) = 0 /\ IsInjective(cache)
      /\ \A e : e \notin ToSet(cache)
  <2>1. cache = <<>>
    BY DEF Init
  <2>2. cache \in Seq(Entry) /\ Len(cache) = 0 /\ \A j \in 1..Len(cache) : FALSE
    BY <2>1, EmptySeq
  <2>3. IsInjective(cache)
    BY <2>2, InjectiveSeq
  <2>4. ASSUME NEW e PROVE e \notin ToSet(cache)
    BY <2>2, InToSet
  <2> QED BY <2>2, <2>3, <2>4
<1>2. TypeOK
  BY <1>1, StatementsAssumption DEF Init, TypeOK, Entry, Ids
<1>3. Handles /\ OnePlace /\ OwnSqls
  BY <1>1 DEF Init, Handles, OnePlace, OwnSqls, Leased
<1> QED BY <1>2, <1>3 DEF StatementsInv

LEMMA NextInv == StatementsInv /\ [Next]_vars => StatementsInv'
<1> SUFFICES ASSUME StatementsInv, [Next]_vars PROVE StatementsInv'
  OBVIOUS
<1>1. ASSUME Client PROVE StatementsInv'
  BY <1>1, PrepareInv, ExecuteInv, ResultsCloseInv, CloseInv DEF Client
<1>2. ASSUME NEW s \in Stmts, Reply(s) PROVE StatementsInv'
  BY <1>2, PrepareFailsInv, CreatedInv, PreparedInv, OpenedInv, OpenedTooLateInv,
     OpenFailsInv, FetchedInv, ClosedInv DEF Reply
<1>3. ASSUME NEW k \in Closers, CloseReply(k) PROVE StatementsInv'
  BY <1>3, VictimCursorClosedInv, VictimDeletedInv DEF CloseReply
<1>4. CASE UNCHANGED vars
  <2>1. TypeOK' /\ UNCHANGED places /\ UNCHANGED <<main, results, closing, victim>>
    BY <1>4 DEF vars, StatementsInv, TypeOK, places
  <2> QED BY <2>1, Closings, ClosingStays
<1> QED BY <1>1, <1>2, <1>3, <1>4, ConnCloseInv, ConnAbortInv, ConnNextInv,
           ConnPhaseInv DEF Next

LEMMA Invariant == Spec => []StatementsInv
BY InitInv, NextInv, PTL DEF Spec

-----------------------------------------------------------------------------
(* The theorems.                                                            *)

(* The state of the statements, of the cache, the engine and the host is    *)
(* well-formed; the cache never holds more than it may.                     *)
THEOREM TypeCorrect == Spec => []TypeOK
<1>1. StatementsInv => TypeOK
  BY DEF StatementsInv
<1> QED BY <1>1, Invariant, PTL

(* PreparedStatementCache.js: whatever is prepared, cached, evicted and     *)
(* closed in whatever order, a statement runs the SQL text it was prepared  *)
(* for, up to texts that normalizeKey() does not tell apart.                *)
THEOREM OwnSqlRuns == Spec => []HandleRunsOwnSql
<1>1. StatementsInv => HandleRunsOwnSql
  BY DEF StatementsInv, OwnSqls, SameKey, HandleRunsOwnSql
<1> QED BY <1>1, Invariant, PTL

-----------------------------------------------------------------------------
(* The refinement.                                                          *)

(* A statement uses its handle only while it holds it.  The client sees to  *)
(* that: it closes neither a statement that is executing nor one whose      *)
(* result set is open.                                                      *)
Rested ==
  \A s \in Stmts : /\ results[s] => life[s] = "open"
                   /\ main[s] # "idle" => Leased(s)
                   /\ life[s] = "preparing" => main[s] \in {"create", "prepare"}

RestingClients == ~CloseEarly /\ ~LeaveOpen

LEMMA UsedIsHeld ==
  ASSUME Rested, NEW s \in Stmts
  PROVE  InUse(s) <=> Leased(s)
BY DEF Rested, InUse, Leased

LEMMA InitRested == Init => Rested
BY DEF Init, Rested

(* Only one statement moves, and it ends at rest or open.                   *)
LEMMA OneRested ==
  ASSUME StatementsInv, Rested, NEW s \in Stmts,
         \A t \in Stmts \ {s} : /\ life'[t] = life[t] /\ main'[t] = main[t]
                              /\ results'[t] = results[t],
         results'[s] => life'[s] = "open",
         main'[s] # "idle" => life'[s] \in {"preparing", "open"},
         life'[s] = "preparing" => main'[s] \in {"create", "prepare"}
  PROVE  Rested'
BY DEF Rested, Leased

LEMMA NextRested ==
  ASSUME StatementsInv, StatementsInv', Rested, RestingClients, [Next]_vars
  PROVE  Rested'
<1>0. DOMAIN life = Stmts /\ DOMAIN main = Stmts /\ DOMAIN results = Stmts
  BY DEF StatementsInv, TypeOK
<1>1. ASSUME NEW s \in Stmts, NEW q \in Sqls, Prepare(s, q) PROVE Rested'
  <2>1. results' = results /\ ~results[s] /\ main[s] = "idle"
    BY <1>1 DEF Prepare, StatementsInv, Handles
  <2>2. CASE Acquire(s, q)
    <3>1. life' = [life EXCEPT ![s] = "open"] /\ main' = main
      BY <2>2 DEF Acquire
    <3> QED BY <1>0, <2>1, <3>1, OneRested
  <2>3. CASE Create(s)
    <3>1. life' = [life EXCEPT ![s] = "preparing"] /\ main' = [main EXCEPT ![s] = "create"]
      BY <2>3 DEF Create
    <3> QED BY <1>0, <2>1, <3>1, OneRested
  <2> QED BY <1>1, <2>2, <2>3 DEF Prepare
<1>2. ASSUME NEW s \in Stmts, Execute(s) PROVE Rested'
  <2>1. /\ life' = life /\ results' = results /\ life[s] = "open"
        /\ \E kind \in {"open", "stream"} : main' = [main EXCEPT ![s] = kind]
    BY <1>2 DEF Execute, apiVars
  <2>2. life'[s] # "preparing"
    BY <2>1
  <2> QED BY <1>0, <2>1, <2>2, OneRested
<1>3. ASSUME NEW s \in Stmts, ResultsClose(s) PROVE Rested'
  <2>1. /\ life' = life /\ results' = [results EXCEPT ![s] = FALSE]
        /\ \E m : main' = [main EXCEPT ![s] = m]
    BY <1>3 DEF ResultsClose
  <2>2. life[s] = "open"
    BY <1>3 DEF ResultsClose, Rested
  <2> QED BY <1>0, <2>1, <2>2, OneRested
<1>4. ASSUME NEW s \in Stmts, Close(s) PROVE Rested'
  <2>1. main' = main /\ results' = results /\ life' = [life EXCEPT ![s] = "closed"]
    BY <1>4 DEF Close
  <2>2. main[s] = "idle" /\ ~results[s]
    BY <1>4 DEF Close, RestingClients
  <2> QED BY <1>0, <2>1, <2>2, OneRested
<1>5. ASSUME NEW s \in Stmts, PrepareFails(s) \/ Prepared(s) PROVE Rested'
  <2>1. /\ results' = results /\ main' = [main EXCEPT ![s] = "idle"]
        /\ \E l \in {"failed", "open"} : life' = [life EXCEPT ![s] = l]
    BY <1>5 DEF PrepareFails, Prepared
  <2>2. life[s] = "preparing"
    BY <1>5 DEF PrepareFails, Prepared, Answered, StatementsInv, Handles
  <2>3. ~results[s]
    BY <2>2 DEF Rested
  <2> QED BY <1>0, <2>1, <2>3, OneRested
<1>6. ASSUME NEW s \in Stmts,
             \/ Created(s) \/ Opened(s) \/ OpenedTooLate(s) \/ OpenFails(s)
             \/ Fetched(s) \/ Closed(s)
      PROVE  Rested'
  <2>1. life' = life /\ \E m : main' = [main EXCEPT ![s] = m]
    BY <1>6 DEF Created, Opened, OpenedTooLate, OpenFails, Fetched, AfterRows, Closed,
                apiVars
  <2>a. main[s] \in {"create", "prepare"} => main'[s] = "prepare"
    BY <1>0, <1>6 DEF Created, Opened, OpenedTooLate, OpenFails, Fetched, Closed, Answered
  <2>2. \/ results' = results
        \/ main[s] = "stream" /\ results' = [results EXCEPT ![s] = TRUE]
        \/ main[s] = "open" /\ results' = [results EXCEPT ![s] = results[s]]
    BY <1>0, <1>6 DEF Created, Opened, OpenedTooLate, OpenFails, Fetched, Closed, apiVars,
                      Answered, StatementsInv, TypeOK
  <2>3. main[s] # "idle"
    BY <1>6 DEF Created, Opened, OpenedTooLate, OpenFails, Fetched, Closed, Answered
  <2>4. life[s] \in {"preparing", "open"}
    BY <2>3 DEF Rested, Leased
  <2>5. main[s] = "stream" => life[s] = "open"
    BY <2>4 DEF Rested
  <2>b. life'[s] = "preparing" => main'[s] \in {"create", "prepare"}
    BY <2>1, <2>a DEF Rested
  <2>6. results'[s] => life'[s] = "open"
    BY <1>0, <2>1, <2>2, <2>5 DEF Rested
  <2>7. \A t \in Stmts \ {s} : /\ life'[t] = life[t] /\ main'[t] = main[t]
                             /\ results'[t] = results[t]
    BY <1>0, <2>1, <2>2
  <2> QED BY <2>1, <2>b, <2>4, <2>6, <2>7, OneRested
<1>7. ASSUME UNCHANGED <<life, main, results>> PROVE Rested'
  BY <1>7 DEF Rested, Leased
<1>8. ASSUME NEW k \in Closers, CloseReply(k) PROVE Rested'
  BY <1>7, <1>8 DEF CloseReply, VictimCursorClosed, VictimDeleted, apiVars
<1>9. CASE ConnClose \/ ConnAbort \/ ConnNext \/ ConnPhase
  BY <1>7, <1>9 DEF ConnClose, ConnAbort, ConnNext, ConnPhase, apiVars
<1>10. CASE UNCHANGED vars
  BY <1>7, <1>10 DEF vars
<1> QED BY <1>1, <1>2, <1>3, <1>4, <1>5, <1>6, <1>8, <1>9, <1>10
        DEF Next, Client, Reply

Holds(s, h) == Leased(s) /\ handle[s] = h
Filed(h) == \E e \in ToSet(cache) : e.handle = h

LEMMA LesseeIsOne ==
  ASSUME StatementsInv, Rested, NEW h \in Stmts, NEW s \in Stmts, Holds(s, h)
  PROVE  Lessees(h) = {s}
BY UsedIsHeld DEF StatementsInv, OnePlace, Holds, Lessees

LEMMA EntryIsOne ==
  ASSUME StatementsInv, NEW h \in Stmts, Filed(h)
  PROVE  \E i : Entries(h) = {i}
<1>1. cache \in Seq(Entry)
  BY DEF StatementsInv, TypeOK, Entry
<1>2. PICK i \in 1..Len(cache) : cache[i].handle = h
  BY <1>1, InToSet DEF Filed
<1>3. ASSUME NEW j \in 1..Len(cache), cache[j].handle = h PROVE j = i
  <2>1. cache[j] \in ToSet(cache) /\ cache[i] \in ToSet(cache)
    BY EntryAt
  <2>2. cache[j] = cache[i]
    BY <1>2, <1>3, <2>1 DEF StatementsInv, OnePlace
  <2> QED BY <1>1, <2>2, InjectiveSeq DEF StatementsInv, OnePlace
<1>4. Entries(h) = {i}
  BY <1>2, <1>3 DEF Entries
<1> QED BY <1>4

LEMMA NoEntry ==
  ASSUME StatementsInv, NEW h \in Stmts, ~Filed(h)
  PROVE  Entries(h) = {}
<1>1. \A i \in 1..Len(cache) : cache[i] \in ToSet(cache)
  BY EntryAt
<1> QED BY <1>1 DEF Filed, Entries

(* To whom a handle is leased.                                              *)
LeaseIs(h) ==
  /\ rpb[h] = 0 => LeaseOf(h) = "unborn"
  /\ \A s \in Stmts : Holds(s, h) => LeaseOf(h) = s
  /\ Filed(h) => LeaseOf(h) = "idle"
  /\ rpb[h] # 0 /\ ~Filed(h) /\ (\A s \in Stmts : ~Holds(s, h)) => LeaseOf(h) = "retired"

LEMMA LeaseValues == StatementsInv /\ Rested => \A h \in Stmts : LeaseIs(h)
<1> SUFFICES ASSUME StatementsInv, Rested, NEW h \in Stmts PROVE LeaseIs(h)
  OBVIOUS
<1>1. CASE rpb[h] = 0
  <2>1. ~Filed(h) /\ \A s \in Stmts : ~Holds(s, h)
    BY <1>1 DEF StatementsInv, Handles, OnePlace, Holds, Filed, Leased
  <2>2. Lessees(h) = {} /\ Entries(h) = {}
    BY <2>1, NoEntry, UsedIsHeld DEF Lessees, Holds
  <2>3. Cardinality(Lessees(h)) = 0 /\ Cardinality(Entries(h)) = 0
    BY <2>2, FS_EmptySet
  <2>4. ~(Cardinality(Lessees(h)) + Cardinality(Entries(h)) > 1)
    BY <2>3
  <2>5. LeaseOf(h) = "unborn"
    BY <1>1, <2>2, <2>4, Zenon DEF LeaseOf
  <2> QED BY <1>1, <2>1, <2>5 DEF LeaseIs
<1>2. ASSUME rpb[h] # 0, NEW s \in Stmts, Holds(s, h) PROVE LeaseIs(h)
  <2>1. Lessees(h) = {s}
    BY <1>2, LesseeIsOne
  <2>2. ~Filed(h) /\ \A r \in Stmts : Holds(r, h) => r = s
    BY <1>2 DEF StatementsInv, OnePlace, Holds, Filed
  <2>3. Cardinality(Lessees(h)) = 1 /\ Cardinality(Entries(h)) = 0
    BY <2>1, <2>2, NoEntry, FS_EmptySet, FS_Singleton
  <2>4. ~(Cardinality(Lessees(h)) + Cardinality(Entries(h)) > 1)
    BY <2>3
  <2>5. /\ (CHOOSE r \in Stmts : r \in Lessees(h)) = s
        /\ Lessees(h) # {} /\ Entries(h) = {}
    BY <2>1, <2>2, NoEntry
  <2>6. LeaseOf(h) = s
    BY <1>2, <2>4, <2>5, Zenon DEF LeaseOf
  <2> QED BY <1>2, <2>2, <2>6 DEF LeaseIs
<1>3. CASE rpb[h] # 0 /\ Filed(h)
  <2>1. \A s \in Stmts : ~Holds(s, h)
    BY <1>3 DEF StatementsInv, OnePlace, Holds, Filed
  <2>2. Lessees(h) = {}
    BY <2>1, UsedIsHeld DEF Lessees, Holds
  <2>3. PICK i : Entries(h) = {i}
    BY <1>3, EntryIsOne
  <2>4. Cardinality(Lessees(h)) = 0 /\ Cardinality(Entries(h)) = 1
    BY <2>2, <2>3, FS_EmptySet, FS_Singleton
  <2>5. /\ ~(Cardinality(Lessees(h)) + Cardinality(Entries(h)) > 1)
        /\ Entries(h) # {}
    BY <2>3, <2>4
  <2>6. LeaseOf(h) = "idle"
    BY <1>3, <2>2, <2>5, Zenon DEF LeaseOf
  <2> QED BY <1>3, <2>1, <2>6 DEF LeaseIs
<1>4. CASE rpb[h] # 0 /\ ~Filed(h) /\ \A s \in Stmts : ~Holds(s, h)
  <2>1. Lessees(h) = {} /\ Entries(h) = {}
    BY <1>4, NoEntry, UsedIsHeld DEF Lessees, Holds
  <2>2. Cardinality(Lessees(h)) = 0 /\ Cardinality(Entries(h)) = 0
    BY <2>1, FS_EmptySet
  <2>3. ~(Cardinality(Lessees(h)) + Cardinality(Entries(h)) > 1)
    BY <2>2
  <2>4. LeaseOf(h) = "retired"
    BY <1>4, <2>1, <2>3, Zenon DEF LeaseOf
  <2> QED BY <1>4, <2>4 DEF LeaseIs
<1> QED BY <1>1, <1>2, <1>3, <1>4

LEMMA LeaseValuesNext == StatementsInv' /\ Rested' => \A h \in Stmts : LeaseIs(h)'
<1>1. StatementsInv' /\ Rested' => (\A h \in Stmts : LeaseIs(h))'
  BY LeaseValues, PTL
<1> QED BY <1>1

(* A handle about which nothing changed.                                    *)
LEMMA LeaseSame ==
  ASSUME StatementsInv, StatementsInv', Rested, Rested', NEW h \in Stmts, rpb'[h] = rpb[h],
         \A s \in Stmts : Holds(s, h)' <=> Holds(s, h), Filed(h)' <=> Filed(h)
  PROVE  LeaseOf(h)' = LeaseOf(h)
<1>1. LeaseIs(h) /\ LeaseIs(h)'
  BY LeaseValues, LeaseValuesNext
<1> QED BY <1>1 DEF LeaseIs

(* The steps of HandleLease.                                                *)
owners == [h \in Stmts |-> LeaseOf(h)]

LEMMA Leases ==
  ASSUME NEW h \in Stmts, NEW o \in Stmts, LeaseOf(h) \in {"unborn", "idle"},
         LeaseOf(h)' = o, \A g \in Stmts \ {h} : LeaseOf(g)' = LeaseOf(g)
  PROVE  Lease!Next
<1>1. Lease!Lease(h, o)
  BY DEF Lease!Lease
<1> QED BY <1>1 DEF Lease!Next

LEMMA GivesBack ==
  ASSUME NEW h \in Stmts, NEW R \in SUBSET (Stmts \ {h}), LeaseOf(h) \in Stmts,
         \A r \in R : LeaseOf(r) = "idle" /\ LeaseOf(r)' = "retired",
         LeaseOf(h)' = "idle",
         \A g \in Stmts \ (R \cup {h}) : LeaseOf(g)' = LeaseOf(g)
  PROVE  Lease!Next
<1>1. Lease!GiveBack(h, R)
  BY DEF Lease!GiveBack
<1> QED BY <1>1 DEF Lease!Next

LEMMA Retires ==
  ASSUME NEW R \in SUBSET Stmts,
         \A r \in R : LeaseOf(r) \in Stmts \cup {"idle"} /\ LeaseOf(r)' = "retired",
         \A g \in Stmts \ R : LeaseOf(g)' = LeaseOf(g)
  PROVE  Lease!Next
<1>1. Lease!Retire(R)
  BY LeaseAssumption DEF Lease!Retire
<1> QED BY <1>1 DEF Lease!Next

LEMMA LeasesNothing ==
  ASSUME \A h \in Stmts : LeaseOf(h)' = LeaseOf(h)
  PROVE  UNCHANGED owners
BY DEF owners

LEMMA StaysLease ==
  ASSUME StatementsInv, StatementsInv', Rested, Rested', UNCHANGED places
  PROVE  UNCHANGED owners
<1>1. ASSUME NEW h \in Stmts PROVE LeaseOf(h)' = LeaseOf(h)
  <2>1. /\ rpb'[h] = rpb[h] /\ \A s \in Stmts : Holds(s, h)' <=> Holds(s, h)
        /\ Filed(h)' <=> Filed(h)
    BY DEF places, Holds, Leased, Filed
  <2> QED BY <2>1, LeaseSame
<1> QED BY <1>1, LeasesNothing

LEMMA PreparedLease ==
  ASSUME StatementsInv, StatementsInv', Rested, Rested', NEW s \in Stmts, Prepared(s)
  PROVE  UNCHANGED owners
<1>1. /\ life[s] = "preparing" /\ life' = [life EXCEPT ![s] = "open"]
      /\ UNCHANGED <<cache, handle, rpb>>
  BY DEF Prepared, Answered, StatementsInv, Handles
<1>2. \A t \in Stmts : Leased(t)' <=> Leased(t)
  BY <1>1 DEF Leased, StatementsInv, TypeOK
<1>3. ASSUME NEW h \in Stmts PROVE LeaseOf(h)' = LeaseOf(h)
  <2>1. /\ rpb'[h] = rpb[h] /\ \A t \in Stmts : Holds(t, h)' <=> Holds(t, h)
        /\ Filed(h)' <=> Filed(h)
    BY <1>1, <1>2 DEF Holds, Filed
  <2> QED BY <2>1, LeaseSame
<1> QED BY <1>3, LeasesNothing

LEMMA AcquireLease ==
  ASSUME StatementsInv, StatementsInv', Rested, Rested', NEW s \in Stmts, NEW q \in Sqls,
         life[s] = "new", Acquire(s, q)
  PROVE  Lease!Next
<1>1. PICK i \in InCache(q) :
        /\ handle' = [handle EXCEPT ![s] = cache[i].handle]
        /\ life' = [life EXCEPT ![s] = "open"]
        /\ cache' = RemoveAt(cache, i)
        /\ UNCHANGED <<main, counter, rpb>>
  BY DEF Acquire
<1>2. i \in 1..Len(cache)
  BY <1>1 DEF InCache
<1>a. cache[i] \in ToSet(cache) /\ cache[i].handle \in Stmts
  BY <1>2, EntryAt
<1>b. PICK f \in ToSet(cache) : f = cache[i]
  BY <1>a
<1>c. PICK h \in Stmts : h = cache[i].handle
  BY <1>a
<1>3. f \in ToSet(cache) /\ h \in Stmts
  BY <1>b, <1>c
<1>4. ToSet(cache') = ToSet(cache) \ {f}
  BY <1>1, <1>2, <1>b, CacheWithout
<1>5. h = f.handle /\ handle' = [handle EXCEPT ![s] = h]
      /\ life' = [life EXCEPT ![s] = "open"] /\ rpb' = rpb
  BY <1>1, <1>b, <1>c
<1>6. /\ handle'[s] = h /\ Leased(s)' /\ ~Leased(s)
      /\ \A t \in Stmts \ {s} : handle'[t] = handle[t] /\ (Leased(t)' <=> Leased(t))
  BY <1>5 DEF StatementsInv, TypeOK, Leased
<1>7. LeaseOf(h) = "idle"
  <2>1. Filed(h)
    BY <1>3, <1>5 DEF Filed
  <2> QED BY <1>3, <2>1, LeaseValues DEF LeaseIs
<1>8. LeaseOf(h)' = s
  <2>1. Holds(s, h)'
    BY <1>6 DEF Holds
  <2> QED BY <1>3, <2>1, LeaseValuesNext DEF LeaseIs
<1>9. ASSUME NEW g \in Stmts \ {h} PROVE LeaseOf(g)' = LeaseOf(g)
  <2>1. \A t \in Stmts : Holds(t, g)' <=> Holds(t, g)
    BY <1>6 DEF Holds
  <2>2. Filed(g)' <=> Filed(g)
    BY <1>4, <1>5 DEF Filed
  <2> QED BY <1>5, <2>1, <2>2, LeaseSame
<1> QED BY <1>3, <1>7, <1>8, <1>9, Leases

LEMMA CreateLease ==
  ASSUME StatementsInv, StatementsInv', Rested, Rested', NEW s \in Stmts, life[s] = "new", Create(s)
  PROVE  Lease!Next
<1>1. /\ handle' = [handle EXCEPT ![s] = s]
      /\ life' = [life EXCEPT ![s] = "preparing"] /\ cache' = cache
      /\ \A t \in Stmts \ {s} : rpb'[t] = rpb[t]
  BY DEF Create, StatementsInv, TypeOK
<1>2. /\ handle'[s] = s /\ Leased(s)' /\ ~Leased(s) /\ rpb[s] = 0
      /\ \A t \in Stmts \ {s} : handle'[t] = handle[t] /\ (Leased(t)' <=> Leased(t))
  BY <1>1 DEF StatementsInv, TypeOK, Handles, Leased
<1>3. LeaseOf(s) = "unborn"
  BY <1>2, LeaseValues DEF LeaseIs
<1>4. LeaseOf(s)' = s
  BY <1>2, LeaseValuesNext DEF LeaseIs, Holds
<1>5. ASSUME NEW g \in Stmts \ {s} PROVE LeaseOf(g)' = LeaseOf(g)
  <2>1. \A t \in Stmts : Holds(t, g)' <=> Holds(t, g)
    BY <1>2 DEF Holds
  <2>2. Filed(g)' <=> Filed(g)
    BY <1>1 DEF Filed
  <2> QED BY <1>1, <2>1, <2>2, LeaseSame
<1> QED BY <1>3, <1>4, <1>5, Leases

(* The statement gives up its handle and the cache stays as it is.          *)
LEMMA GivesUpLease ==
  ASSUME StatementsInv, StatementsInv', Rested, Rested', NEW s \in Stmts, Leased(s), ~Leased(s)',
         UNCHANGED <<cache, handle, rpb>>,
         \A t \in Stmts \ {s} : Leased(t)' <=> Leased(t)
  PROVE  Lease!Next
<1>a. handle[s] \in Stmts /\ rpb[handle[s]] # 0
  BY HandleIds DEF Leased
<1>b. PICK h \in Stmts : h = handle[s]
  BY <1>a
<1> DEFINE R == {h}
<1>1. h \in Stmts /\ rpb[h] # 0 /\ Holds(s, h)
  BY <1>a, <1>b DEF Holds
<1>2. LeaseOf(h) = s
  BY <1>1, LeaseValues DEF LeaseIs
<1>3. ~Filed(h) /\ \A t \in Stmts : Holds(t, h) => t = s
  BY <1>1 DEF StatementsInv, OnePlace, Holds, Filed
<1>4. ~Filed(h)' /\ (\A t \in Stmts : ~Holds(t, h)')
  BY <1>3 DEF Holds, Filed
<1>5. LeaseOf(h)' = "retired"
  BY <1>1, <1>4, LeaseValuesNext DEF LeaseIs
<1>6. ASSUME NEW g \in Stmts \ R PROVE LeaseOf(g)' = LeaseOf(g)
  <2>1. ~Holds(s, g)
    BY <1>1 DEF Holds
  <2>2. \A t \in Stmts : Holds(t, g)' <=> Holds(t, g)
    BY <2>1 DEF Holds
  <2> QED BY <2>2, LeaseSame DEF Filed
<1>7. R \in SUBSET Stmts
        /\ \A r \in R : LeaseOf(r) \in Stmts \cup {"idle"} /\ LeaseOf(r)' = "retired"
  BY <1>1, <1>2, <1>5
<1> HIDE DEF R
<1> QED BY <1>6, <1>7, Retires

LEMMA PrepareFailsLease ==
  ASSUME StatementsInv, StatementsInv', Rested, Rested', NEW s \in Stmts, PrepareFails(s)
  PROVE  Lease!Next
<1>1. /\ life[s] = "preparing" /\ life' = [life EXCEPT ![s] = "failed"]
      /\ UNCHANGED <<cache, handle, rpb>>
  BY DEF PrepareFails, Answered, StatementsInv, Handles, engineVars
<1>2. Leased(s) /\ ~Leased(s)' /\ \A t \in Stmts \ {s} : Leased(t)' <=> Leased(t)
  BY <1>1 DEF Leased, StatementsInv, TypeOK
<1> QED BY <1>1, <1>2, GivesUpLease

LEMMA CloseLease ==
  ASSUME StatementsInv, StatementsInv', Rested, Rested', NEW s \in Stmts, Close(s)
  PROVE  Lease!Next
<1>1. Leaves(s) /\ Leased(s) /\ ~Leased(s)' /\ UNCHANGED <<handle, rpb>>
      /\ \A t \in Stmts \ {s} : Leased(t)' <=> Leased(t)
  <2>1. Leaves(s)
    BY CloseCases
  <2>2. Leased(s) /\ UNCHANGED <<handle, rpb>>
    BY <2>1 DEF Leaves, Leased
  <2> QED BY <2>1, <2>2, LeavesHandles
<1>2. CASE cache' = cache
  BY <1>1, <1>2, GivesUpLease
<1>3. ASSUME NEW t \in Seq(Entry), IsInjective(t), ToSet(t) \subseteq ToSet(cache),
             cache' = Append(t, EntryOf(s))
      PROVE  Lease!Next
  <2>a. handle[s] \in Stmts /\ rpb[handle[s]] # 0
    BY <1>1, HandleIds DEF Leased
  <2>b. PICK h \in Stmts : h = handle[s]
    BY <2>a
  <2>c. PICK R \in SUBSET Stmts :
             R = {r \in Stmts : Filed(r) /\ \A f \in ToSet(t) : f.handle # r}
    OBVIOUS
  <2>1. h \in Stmts /\ rpb[h] # 0 /\ Holds(s, h)
    BY <1>1, <2>a, <2>b DEF Holds
  <2>2. \A g : g \in ToSet(cache') <=> g \in ToSet(t) \/ g = EntryOf(s)
    <3>1. life[s] = "open" /\ EntryOf(s) = [sql |-> sql[s], handle |-> handle[s]]
      BY <1>1 DEF Leaves, EntryOf
    <3>2. ToSet(Append(t, EntryOf(s))) = ToSet(t) \cup {EntryOf(s)}
      BY <1>3, <3>1, CacheWith
    <3> QED BY <1>3, <3>2
  <2>3. EntryOf(s).handle = h
    BY <2>b DEF EntryOf
  <2>4. ~Filed(h) /\ \A r \in Stmts : Holds(r, h) => r = s
    BY <2>1 DEF StatementsInv, OnePlace, Holds, Filed
  <2>5. LeaseOf(h) = s
    BY <2>1, LeaseValues DEF LeaseIs
  <2>6. LeaseOf(h)' = "idle"
    <3>1. Filed(h)'
      BY <2>2, <2>3 DEF Filed
    <3> QED BY <2>1, <3>1, LeaseValuesNext DEF LeaseIs
  <2>7. \A r \in Stmts \ {h}, q \in Stmts : Holds(q, r)' <=> Holds(q, r)
    BY <1>1, <2>1 DEF Holds
  <2>8. R \in SUBSET (Stmts \ {h})
    BY <2>4, <2>c
  <2>9. ASSUME NEW r \in R PROVE LeaseOf(r) = "idle" /\ LeaseOf(r)' = "retired"
    <3>1. r \in Stmts /\ r # h /\ Filed(r) /\ \A f \in ToSet(t) : f.handle # r
      BY <2>4, <2>c
    <3>2. rpb[r] # 0 /\ \A q \in Stmts : ~Holds(q, r)
      BY <3>1 DEF StatementsInv, OnePlace, Filed, Holds
    <3>3. ~Filed(r)'
      BY <2>2, <2>3, <3>1 DEF Filed
    <3>4. LeaseOf(r) = "idle"
      BY <3>1, LeaseValues DEF LeaseIs
    <3>5. rpb'[r] # 0 /\ \A q \in Stmts : ~Holds(q, r)'
      BY <1>1, <2>7, <3>1, <3>2
    <3> QED BY <3>1, <3>3, <3>4, <3>5, LeaseValuesNext DEF LeaseIs
  <2>10. ASSUME NEW g \in Stmts \ (R \cup {h}) PROVE LeaseOf(g)' = LeaseOf(g)
    <3>1. Filed(g)' <=> Filed(g)
      BY <1>3, <2>2, <2>3, <2>c DEF Filed
    <3> QED BY <1>1, <2>7, <3>1, LeaseSame
  <2> QED BY <2>1, <2>5, <2>6, <2>8, <2>9, <2>10, GivesBack
<1> QED BY <1>2, <1>3, CloseCases

LEMMA ConnCloseLease ==
  ASSUME StatementsInv, StatementsInv', Rested, Rested', ConnClose
  PROVE  Lease!Next
<1> DEFINE R == {h \in Stmts : Filed(h)}
<1>1. cache' = <<>> /\ UNCHANGED <<life, handle, rpb>>
  BY DEF ConnClose, apiVars, engineVars
<1>2. \A e : e \notin ToSet(cache')
  <2>1. cache' \in Seq(Entry) /\ \A j \in 1..Len(cache') : FALSE
    BY <1>1, EmptySeq
  <2> QED BY <2>1, InToSet
<1>3. \A h, s \in Stmts : Holds(s, h)' <=> Holds(s, h)
  BY <1>1 DEF Holds, Leased
<1>4. \A h \in Stmts : ~Filed(h)'
  BY <1>2 DEF Filed
<1>5. ASSUME NEW r \in R PROVE LeaseOf(r) = "idle" /\ LeaseOf(r)' = "retired"
  <2>1. r \in Stmts /\ Filed(r) /\ rpb'[r] # 0 /\ \A s \in Stmts : ~Holds(s, r)
    BY <1>1 DEF StatementsInv, OnePlace, Filed, Holds
  <2>2. LeaseOf(r) = "idle"
    BY <2>1, LeaseValues DEF LeaseIs
  <2> QED BY <1>3, <1>4, <2>1, <2>2, LeaseValuesNext DEF LeaseIs
<1>6. ASSUME NEW g \in Stmts \ R PROVE LeaseOf(g)' = LeaseOf(g)
  BY <1>1, <1>3, <1>4, LeaseSame
<1> QED BY <1>5, <1>6, Retires

LEMMA StepLease ==
  ASSUME StatementsInv, StatementsInv', Rested, Rested', [Next]_vars
  PROVE  [Lease!Next]_owners
<1> SUFFICES Lease!Next \/ UNCHANGED owners
  OBVIOUS
<1>1. ASSUME NEW s \in Stmts, NEW q \in Sqls, Prepare(s, q) PROVE Lease!Next
  BY <1>1, AcquireLease, CreateLease DEF Prepare
<1>2. ASSUME UNCHANGED places PROVE UNCHANGED owners
  BY <1>2, StaysLease
<1>3. CASE Client
  <2>1. ASSUME NEW s \in Stmts, Execute(s) \/ ResultsClose(s) PROVE UNCHANGED places
    BY <2>1 DEF Execute, ResultsClose, apiVars, engineVars, places
  <2> QED BY <1>1, <1>2, <1>3, <2>1, CloseLease DEF Client
<1>4. ASSUME NEW s \in Stmts, Reply(s) PROVE Lease!Next \/ UNCHANGED owners
  <2>1. ASSUME ~PrepareFails(s), ~Prepared(s) PROVE UNCHANGED places
    BY <1>4, <2>1 DEF Reply, Created, Opened, OpenedTooLate, OpenFails, Fetched,
                      Closed, apiVars, engineVars, places
  <2> QED BY <1>2, <1>4, <2>1, PrepareFailsLease, PreparedLease
<1>5. ASSUME NEW k \in Closers, CloseReply(k) PROVE UNCHANGED places
  BY <1>5 DEF CloseReply, VictimCursorClosed, VictimDeleted, apiVars, places
<1>6. CASE ConnAbort \/ ConnNext \/ ConnPhase
  BY <1>2, <1>6 DEF ConnAbort, ConnNext, ConnPhase, apiVars, engineVars, places
<1>7. CASE UNCHANGED vars
  BY <1>2, <1>7 DEF vars, places
<1> QED BY <1>2, <1>3, <1>4, <1>5, <1>6, <1>7, ConnCloseLease DEF Next

LEMMA RestedAlways ==
  ASSUME RestingClients
  PROVE  Spec => [](StatementsInv /\ Rested)
<1>1. StatementsInv /\ StatementsInv' /\ Rested /\ [Next]_vars => Rested'
  BY NextRested
<1> QED BY <1>1, InitRested, Invariant, PTL DEF Spec

(* PreparedStatementCache.js: the cache holds only idle handles, not one    *)
(* that a statement still executes or reads; provided the client closes no  *)
(* statement that is executing or has an open result set.                   *)
THEOREM OnlyIdleCached ==
  ASSUME ~CloseEarly, ~LeaveOpen
  PROVE  Spec => []CacheHoldsOnlyIdle
<1>1. StatementsInv /\ Rested => CacheHoldsOnlyIdle
  <2> SUFFICES ASSUME StatementsInv, Rested, NEW s \in Stmts, InUse(s),
                      NEW i \in 1..Len(cache), cache[i].handle = handle[s]
               PROVE  FALSE
    BY DEF CacheHoldsOnlyIdle, Cached
  <2>1. Leased(s)
    BY UsedIsHeld
  <2>2. cache[i] \in ToSet(cache)
    BY DEF ToSet
  <2> QED BY <2>1, <2>2 DEF StatementsInv, OnePlace
<1> QED BY <1>1, RestedAlways, PTL DEF RestingClients

(* PreparedStatementCache.js: as the cache is used, a handle is always with *)
(* one statement, its executions and open result sets included, or idle in  *)
(* one entry, or never used again once it is on its way out; under the same *)
(* condition on the client.                                                 *)
THEOREM LeaseIsKept ==
  ASSUME ~CloseEarly, ~LeaveOpen
  PROVE  Spec => ImplementsLease
<1>1. Init => Lease!Init
  <2> SUFFICES ASSUME Init PROVE Lease!Init
    OBVIOUS
  <2>1. StatementsInv /\ Rested /\ rpb = [s \in Stmts |-> 0]
    BY InitInv, InitRested DEF Init
  <2>2. \A h \in Stmts : LeaseOf(h) = "unborn"
    BY <2>1, LeaseValues DEF LeaseIs
  <2> QED BY <2>2 DEF Lease!Init
<1>2. StatementsInv /\ StatementsInv' /\ Rested /\ Rested' /\ [Next]_vars
        => [Lease!Next]_([h \in Stmts |-> LeaseOf(h)])
  BY StepLease DEF owners
<1> QED BY <1>1, <1>2, RestedAlways, PTL
        DEF Spec, ImplementsLease, Lease!Spec, RestingClients

-----------------------------------------------------------------------------
(* The handles and the host.  Most of this needs RPB ids that are not used  *)
(* twice: nextRpbId() wraps, and a connection that prepares more statements *)
(* than there are ids gives the id of one handle to another.                *)

EnoughIds == IsFiniteSet(Stmts) /\ Cardinality(Stmts) <= RpbIds

Born == {h \in Stmts : rpb[h] # 0}

(* The ids given out are 1 to counter, each to one handle.                  *)
IdsInv ==
  /\ counter = Cardinality(Born)
  /\ \A h \in Stmts : rpb[h] <= counter
  /\ \A g, h \in Stmts : rpb[g] # 0 /\ rpb[g] = rpb[h] => g = h

(* Where a handle with an id is: held by a statement, filed in the cache,   *)
(* doomed to be closed, closed, or of a statement that is not prepared.     *)
Held(h) == \E s \in Stmts : life[s] = "open" /\ handle[s] = h
Doomed(h) == \E k \in Closers : victim[k] = h
Usable(h) == Held(h) \/ Filed(h) \/ Doomed(h)
Unready(h) == life[h] \in {"preparing", "failed"}

(* While the connection is open only closed statements close handles, each  *)
(* one of its own that nobody else has, and no handle is forgotten.         *)
Places ==
  /\ \A k \in Closers : closing[k] # "idle" => k \in Stmts /\ life[k] = "closed"
  /\ \A k \in Closers : closing[k] = "idle" <=> victim[k] = None
  /\ \A k, l \in Closers : victim[k] # None /\ victim[k] = victim[l] => k = l
  /\ \A h \in Stmts : Doomed(h) => rpb[h] # 0 /\ ~Held(h) /\ ~Filed(h)
  /\ \A h \in Stmts : h \in dead \/ Unready(h) => rpb[h] # 0 /\ ~Usable(h)
  /\ \A h \in Stmts : ~(h \in dead /\ Unready(h))
  /\ \A h \in Stmts : rpb[h] # 0 => Usable(h) \/ h \in dead \/ Unready(h)

(* An RPB on the host is that of a handle which is not closed, even if the  *)
(* ids are used again.                                                      *)
Alive == \A i \in Ids : server[i] # "none" => \E h \in Stmts \ dead : rpb[h] = i

PlacesInv == phase = "open" => Places /\ Alive

(* What the host and #statements have of a handle, by where it is.          *)
HostedAs(h) ==
  /\ Usable(h) => server[rpb[h]] \in {"prepared", "cursor"} /\ statements[rpb[h]] = h
  /\ h \in dead => server[rpb[h]] = "none" /\ statements[rpb[h]] = None
  /\ Unready(h) => server[rpb[h]] \in {"none", "rpb"} /\ statements[rpb[h]] = None
  /\ main[h] = "prepare" => server[rpb[h]] = "rpb"

Hosted ==
  /\ \A h \in Stmts : rpb[h] # 0 => HostedAs(h)
  /\ \A i \in Ids : (\A h \in Stmts : rpb[h] # i) =>
       server[i] = "none" /\ statements[i] = None

HostInv == IdsInv /\ (phase = "open" => Hosted)

(* The cursors, if no statement is closed while it executes.                *)
Cursors ==
  /\ \A i \in Ids : i \in cursor <=> server[i] = "cursor"
  /\ \A k \in Closers : closing[k] = "delete" => rpb[victim[k]] \notin cursor
  /\ \A s \in Stmts : main[s] \in {"open", "stream", "fetch"} => life[s] = "open"

CursorsInv == phase = "open" => Cursors

(* And if none is closed with a result set open, or overtaken by a timeout: *)
(* who has a cursor open is about to close it.                              *)
Ready ==
  /\ \A s \in Stmts : life[s] = "closed" => main[s] = "idle" /\ ~results[s]
  /\ \A h \in Stmts : Filed(h) => rpb[h] \notin cursor
  /\ \A s \in Stmts : life[s] = "open" /\ Rpb(s) \in cursor =>
       results[s] \/ main[s] \in {"fetch", "close"}

ReadyInv == phase = "open" => Ready

-----------------------------------------------------------------------------
(* The ids.                                                                 *)

LEMMA FreshId ==
  ASSUME EnoughIds, StatementsInv, IdsInv, NEW s \in Stmts, rpb[s] = 0
  PROVE  /\ NextRpbId = counter + 1 /\ counter + 1 \in Ids
         /\ counter \in Nat
         /\ \A h \in Stmts : rpb[h] # counter + 1
         /\ Cardinality(Born \cup {s}) = counter + 1
<1>1. IsFiniteSet(Stmts) /\ Cardinality(Stmts) <= RpbIds
  BY DEF EnoughIds
<1>2. Born \subseteq Stmts /\ s \notin Born /\ Born \cup {s} \subseteq Stmts
  BY DEF Born
<1>3. IsFiniteSet(Born) /\ Cardinality(Born) \in Nat
  BY <1>1, <1>2, FS_Subset, FS_CardinalityType
<1>4. Cardinality(Born \cup {s}) = Cardinality(Born) + 1
  BY <1>2, <1>3, FS_AddElement
<1>5. Cardinality(Born \cup {s}) <= Cardinality(Stmts)
  BY <1>1, <1>2, FS_Subset
<1>6. Cardinality(Stmts) \in Nat /\ RpbIds \in Nat
  BY <1>1, FS_CardinalityType, StatementsAssumption
<1>7. counter = Cardinality(Born) /\ \A h \in Stmts : rpb[h] <= counter /\ rpb[h] \in Int
  BY DEF IdsInv, StatementsInv, TypeOK
<1>8. counter + 1 <= RpbIds
  BY <1>1, <1>3, <1>4, <1>5, <1>6, <1>7
<1> QED BY <1>3, <1>4, <1>6, <1>7, <1>8 DEF NextRpbId, Ids

LEMMA IdsStay ==
  ASSUME IdsInv, UNCHANGED <<counter, rpb>>
  PROVE  IdsInv'
BY DEF IdsInv, Born

LEMMA CreateIds ==
  ASSUME EnoughIds, StatementsInv, IdsInv, NEW s \in Stmts, life[s] = "new", Create(s)
  PROVE  /\ IdsInv'
         /\ rpb[s] = 0 /\ rpb'[s] \in Ids /\ rpb'[s] # 0
         /\ \A h \in Stmts \ {s} : rpb'[h] = rpb[h] /\ rpb[h] # rpb'[s]
<1> DEFINE n == counter + 1
<1>1. rpb[s] = 0
  BY NewIsNowhere
<1>2. counter' = NextRpbId /\ rpb' = [rpb EXCEPT ![s] = NextRpbId]
  BY DEF Create
<1>3. /\ NextRpbId = n /\ n \in Ids /\ counter \in Nat
      /\ \A h \in Stmts : rpb[h] # n
      /\ Cardinality(Born \cup {s}) = n
  BY <1>1, FreshId
<1>4. rpb \in [Stmts -> 0..RpbIds] /\ RpbIds \in Nat
  BY StatementsAssumption DEF StatementsInv, TypeOK
<1>5. /\ counter' = n /\ rpb'[s] = n /\ n # 0 /\ n = counter + 1
      /\ \A h \in Stmts \ {s} : rpb'[h] = rpb[h]
  BY <1>2, <1>3, <1>4
<1> HIDE DEF n
<1>6. Born' = Born \cup {s}
  BY <1>5 DEF Born
<1>7. ASSUME NEW h \in Stmts PROVE rpb'[h] <= counter'
  <2>1. CASE h = s
    BY <1>3, <1>5, <2>1
  <2>2. CASE h # s
    <3>1. rpb[h] <= counter /\ rpb[h] \in Int
      BY <1>4 DEF IdsInv
    <3> QED BY <1>3, <1>5, <2>2, <3>1
  <2> QED BY <2>1, <2>2
<1>8. \A g, h \in Stmts : rpb'[g] # 0 /\ rpb'[g] = rpb'[h] => g = h
  BY <1>3, <1>5 DEF IdsInv
<1>9. IdsInv'
  BY <1>3, <1>5, <1>6, <1>7, <1>8 DEF IdsInv
<1> QED BY <1>1, <1>3, <1>5, <1>9

LEMMA IdOf ==
  ASSUME StatementsInv, NEW h \in Stmts, rpb[h] # 0
  PROVE  rpb[h] \in Ids
BY StatementsAssumption DEF StatementsInv, TypeOK, Ids

(* Handles with an id have ids of their own.                                *)
LEMMA OwnId ==
  ASSUME StatementsInv, IdsInv, NEW g \in Stmts, rpb[g] # 0
  PROVE  rpb[g] \in Ids /\ \A h \in Stmts : h # g => rpb[h] # rpb[g]
BY StatementsAssumption DEF StatementsInv, TypeOK, IdsInv, Ids

-----------------------------------------------------------------------------
(* Where the handles are: what a step has to say of it.                     *)

LEMMA PlacesStay ==
  ASSUME Places, UNCHANGED <<cache, handle, victim, rpb, dead>>,
         \A k \in Closers : closing'[k] = "idle" <=> closing[k] = "idle",
         \A s \in Stmts : /\ life'[s] = "open" <=> life[s] = "open"
                          /\ life[s] = "closed" => life'[s] = "closed"
                          /\ Unready(s)' <=> Unready(s)
  PROVE  Places' /\ \A h \in Stmts : Usable(h)' <=> Usable(h)
<1>1. \A h \in Stmts : (Held(h)' <=> Held(h)) /\ (Filed(h)' <=> Filed(h))
                       /\ (Doomed(h)' <=> Doomed(h))
  BY DEF Held, Filed, Doomed
<1>2. \A h \in Stmts : Usable(h)' <=> Usable(h)
  BY <1>1 DEF Usable
<1>3. Places'
  BY <1>1, <1>2 DEF Places
<1> QED BY <1>2, <1>3

LEMMA HostedStays ==
  ASSUME StatementsInv, Hosted, UNCHANGED <<rpb, dead, statements>>,
         \A h \in Stmts : /\ Usable(h)' <=> Usable(h)
                          /\ Unready(h)' <=> Unready(h)
                          /\ main'[h] = "prepare" => main[h] = "prepare",
         \A i \in Ids : server'[i] = server[i]
                        \/ {server[i], server'[i]} \subseteq {"prepared", "cursor"}
  PROVE  Hosted'
<1>1. ASSUME NEW h \in Stmts, rpb[h] # 0 PROVE HostedAs(h)'
  <2>1. HostedAs(h) /\ rpb[h] \in Ids
    BY <1>1, StatementsAssumption DEF Hosted, StatementsInv, TypeOK, Ids
  <2>2. \/ server'[rpb[h]] = server[rpb[h]]
        \/ {server[rpb[h]], server'[rpb[h]]} \subseteq {"prepared", "cursor"}
    BY <2>1
  <2> QED BY <2>1, <2>2 DEF HostedAs
<1>2. \A i \in Ids : (\A h \in Stmts : rpb[h] # i) =>
        server'[i] = "none" /\ statements'[i] = None
  BY DEF Hosted
<1> QED BY <1>1, <1>2 DEF Hosted

(* A step that concerns one handle, and its id alone.                       *)
LEMMA HostedStep ==
  ASSUME StatementsInv, IdsInv, Hosted, rpb' = rpb, NEW g \in Stmts, rpb[g] # 0,
         \A i \in Ids \ {rpb[g]} : server'[i] = server[i] /\ statements'[i] = statements[i],
         \A h \in Stmts \ {g} : /\ Usable(h)' <=> Usable(h)
                                /\ Unready(h)' <=> Unready(h)
                                /\ h \in dead' <=> h \in dead
                                /\ main'[h] = main[h],
         HostedAs(g)'
  PROVE  Hosted'
<1>1. ASSUME NEW h \in Stmts, rpb[h] # 0 PROVE HostedAs(h)'
  <2>1. CASE h = g
    BY <2>1
  <2>2. CASE h # g
    <3>1. HostedAs(h) /\ rpb[h] \in Ids \ {rpb[g]}
      BY <1>1, <2>2, OwnId DEF Hosted
    <3>2. server'[rpb[h]] = server[rpb[h]] /\ statements'[rpb[h]] = statements[rpb[h]]
      BY <3>1
    <3> QED BY <2>2, <3>1, <3>2 DEF HostedAs
  <2> QED BY <2>1, <2>2
<1>2. \A i \in Ids : (\A h \in Stmts : rpb[h] # i) =>
        server'[i] = "none" /\ statements'[i] = None
  BY DEF Hosted
<1> QED BY <1>1, <1>2 DEF Hosted

-----------------------------------------------------------------------------
(* Steps that move no handle.                                               *)

(* The client and the answers to its executions.                            *)
Quiet(s) ==
  \/ Execute(s) \/ Opened(s) \/ OpenedTooLate(s) \/ OpenFails(s) \/ Fetched(s)
  \/ ResultsClose(s) \/ Closed(s)

LEMMA CursorClosedServer ==
  ASSUME StatementsInv, NEW i, CursorClosed(i)
  PROVE  \A j \in Ids : server'[j] = server[j]
                        \/ {server[j], server'[j]} \subseteq {"prepared", "cursor"}
<1>1. server' = [server EXCEPT ![i] = IF server[i] = "cursor" THEN "prepared" ELSE server[i]]
  BY DEF CursorClosed
<1>2. server \in [Ids -> {"none", "rpb", "prepared", "cursor"}]
  BY DEF StatementsInv, TypeOK
<1> QED BY <1>1, <1>2

LEMMA OpenedServer ==
  ASSUME StatementsInv, NEW i \in Ids, server[i] = "prepared",
         server' = [server EXCEPT ![i] = "cursor"]
  PROVE  \A j \in Ids : server'[j] = server[j]
                        \/ {server[j], server'[j]} \subseteq {"prepared", "cursor"}
<1>1. server \in [Ids -> {"none", "rpb", "prepared", "cursor"}]
  BY DEF StatementsInv, TypeOK
<1> QED BY <1>1

LEMMA QuietFrame ==
  ASSUME StatementsInv, NEW s \in Stmts, Quiet(s)
  PROVE  /\ UNCHANGED <<cache, life, handle, closing, victim, rpb, dead, statements>>
         /\ \A r \in Stmts \ {s} : main'[r] = main[r]
         /\ main'[s] # "prepare"
         /\ \A i \in Ids : server'[i] = server[i]
                           \/ {server[i], server'[i]} \subseteq {"prepared", "cursor"}
<1>1. UNCHANGED <<cache, life, handle, closing, victim, rpb, dead, statements>>
  BY DEF Quiet, Execute, Opened, OpenedTooLate, OpenFails, Fetched, ResultsClose,
         Closed, apiVars, closeVars, engineVars
<1>2. \E m \in {"idle", "open", "stream", "fetch", "close"} : main' = [main EXCEPT ![s] = m]
  <2>1. CASE Execute(s) \/ OpenedTooLate(s) \/ OpenFails(s) \/ Closed(s)
    BY <2>1 DEF Execute, OpenedTooLate, OpenFails, Closed
  <2>2. CASE Opened(s) \/ Fetched(s) \/ ResultsClose(s)
    BY <2>2 DEF Opened, Fetched, AfterRows, ResultsClose
  <2> QED BY <2>1, <2>2 DEF Quiet
<1>3. (\A r \in Stmts \ {s} : main'[r] = main[r]) /\ main'[s] # "prepare"
  BY <1>2 DEF StatementsInv, TypeOK
<1>4. \A i \in Ids : server'[i] = server[i]
                     \/ {server[i], server'[i]} \subseteq {"prepared", "cursor"}
  <2>1. CASE Opened(s) \/ OpenedTooLate(s)
    <3>1. /\ server[Rpb(s)] = "prepared"
          /\ server' = [server EXCEPT ![Rpb(s)] = "cursor"] /\ main[s] # "idle"
      BY <2>1 DEF Opened, OpenedTooLate, Answered
    <3>2. Rpb(s) \in Ids
      BY <3>1, WaitsIsNotNew, HandleIds
    <3> QED BY <3>1, <3>2, OpenedServer
  <2>2. CASE Closed(s)
    BY <2>2, CursorClosedServer DEF Closed
  <2>3. CASE Execute(s) \/ OpenFails(s) \/ Fetched(s) \/ ResultsClose(s)
    BY <2>3 DEF Execute, OpenFails, Fetched, ResultsClose
  <2> QED BY <2>1, <2>2, <2>3 DEF Quiet
<1> QED BY <1>1, <1>3, <1>4

LEMMA QuietHost ==
  ASSUME StatementsInv, Places, NEW s \in Stmts, Quiet(s)
  PROVE  Places' /\ (Hosted => Hosted')
<1>1. /\ UNCHANGED <<cache, life, handle, closing, victim, rpb, dead, statements>>
      /\ \A r \in Stmts : main'[r] = "prepare" => main[r] = "prepare"
      /\ \A i \in Ids : server'[i] = server[i]
                        \/ {server[i], server'[i]} \subseteq {"prepared", "cursor"}
  BY QuietFrame
<1>2. \A r \in Stmts : Unready(r)' <=> Unready(r)
  BY <1>1 DEF Unready
<1>3. Places' /\ \A h \in Stmts : Usable(h)' <=> Usable(h)
  BY <1>1, <1>2, PlacesStay
<1>4. ASSUME Hosted PROVE Hosted'
  BY <1>1, <1>2, <1>3, <1>4, HostedStays
<1> QED BY <1>3, <1>4

LEMMA PrepareFailsHost ==
  ASSUME StatementsInv, Places, NEW s \in Stmts, PrepareFails(s)
  PROVE  Places' /\ (Hosted => Hosted')
<1>1. /\ life[s] = "preparing"
      /\ life' = [life EXCEPT ![s] = "failed"] /\ main' = [main EXCEPT ![s] = "idle"]
      /\ UNCHANGED <<cache, handle, closing, victim, rpb, dead, statements, server>>
  BY DEF PrepareFails, Answered, StatementsInv, Handles, closeVars, engineVars
<1>2. /\ \A r \in Stmts : /\ life'[r] = "open" <=> life[r] = "open"
                          /\ life[r] = "closed" => life'[r] = "closed"
                          /\ Unready(r)' <=> Unready(r)
      /\ \A r \in Stmts : main'[r] = "prepare" => main[r] = "prepare"
  BY <1>1 DEF StatementsInv, TypeOK, Unready
<1>3. Places' /\ \A h \in Stmts : Usable(h)' <=> Usable(h)
  BY <1>1, <1>2, PlacesStay
<1>4. ASSUME Hosted PROVE Hosted'
  BY <1>1, <1>2, <1>3, <1>4, HostedStays
<1> QED BY <1>3, <1>4

LEMMA CreatedHost ==
  ASSUME StatementsInv, Places, NEW s \in Stmts, Created(s)
  PROVE  Places' /\ (IdsInv /\ Hosted => Hosted')
<1>1. /\ life[s] = "preparing"
      /\ main' = [main EXCEPT ![s] = "prepare"]
      /\ server' = [server EXCEPT ![rpb[s]] = "rpb"]
      /\ UNCHANGED <<cache, life, handle, closing, victim, rpb, dead, statements>>
  BY DEF Created, Answered, StatementsInv, Handles, apiVars, closeVars, engineVars
<1>2. Unready(s) /\ \A r \in Stmts : Unready(r)' <=> Unready(r)
  BY <1>1 DEF Unready
<1>3. Places' /\ \A h \in Stmts : Usable(h)' <=> Usable(h)
  BY <1>1, <1>2, PlacesStay
<1>4. rpb[s] # 0 /\ ~Usable(s) /\ s \notin dead
  BY <1>2 DEF Places
<1>5. rpb[s] \in Ids
  BY <1>4, IdOf
<1>6. /\ server'[rpb[s]] = "rpb"
      /\ \A i \in Ids \ {rpb[s]} : server'[i] = server[i]
      /\ \A r \in Stmts \ {s} : main'[r] = main[r]
  BY <1>1, <1>5 DEF StatementsInv, TypeOK
<1>7. ASSUME IdsInv, Hosted PROVE Hosted'
  <2>1. statements[rpb[s]] = None
    BY <1>2, <1>4, <1>7 DEF Hosted, HostedAs
  <2>2. HostedAs(s)'
    BY <1>1, <1>3, <1>4, <1>6, <2>1 DEF HostedAs
  <2> QED BY <1>1, <1>2, <1>3, <1>4, <1>6, <1>7, <2>2, HostedStep
<1> QED BY <1>3, <1>7

LEMMA VictimCursorClosedHost ==
  ASSUME StatementsInv, phase = "open", Places,
         NEW k \in Closers, VictimCursorClosed(k)
  PROVE  Places' /\ (Hosted => Hosted')
<1>1. /\ closing[k] = "cursor" /\ closing' = [closing EXCEPT ![k] = "delete"]
      /\ CursorClosed(rpb[victim[k]])
      /\ UNCHANGED <<cache, life, handle, main, victim, rpb, dead, statements>>
  BY DEF VictimCursorClosed, AnsweredTo, apiVars
<1>2. \A l \in Closers : closing'[l] = "idle" <=> closing[l] = "idle"
  BY <1>1 DEF StatementsInv, TypeOK
<1>3. \A r \in Stmts : Unready(r)' <=> Unready(r)
  BY <1>1 DEF Unready
<1>4. Places' /\ \A h \in Stmts : Usable(h)' <=> Usable(h)
  BY <1>1, <1>2, <1>3, PlacesStay
<1>5. ASSUME Hosted PROVE Hosted'
  BY <1>1, <1>3, <1>4, <1>5, CursorClosedServer, HostedStays
<1> QED BY <1>4, <1>5

-----------------------------------------------------------------------------
(* Steps that move one.                                                     *)

LEMMA PreparedHost ==
  ASSUME StatementsInv, Places, NEW s \in Stmts, Prepared(s)
  PROVE  Places' /\ (IdsInv /\ Hosted => Hosted')
<1>1. /\ life[s] = "preparing" /\ handle[s] = s
      /\ life' = [life EXCEPT ![s] = "open"] /\ main' = [main EXCEPT ![s] = "idle"]
      /\ server' = [server EXCEPT ![rpb[s]] = "prepared"]
      /\ statements' = [statements EXCEPT ![rpb[s]] = s]
      /\ UNCHANGED <<cache, handle, closing, victim, rpb, dead>>
  BY DEF Prepared, Answered, StatementsInv, Handles, closeVars
<1>2. Unready(s) /\ rpb[s] # 0 /\ ~Usable(s) /\ s \notin dead
  BY <1>1 DEF Places, Unready
<1>3. rpb[s] \in Ids
  BY <1>2, IdOf
<1>4. /\ life'[s] = "open" /\ main'[s] = "idle"
      /\ \A r \in Stmts \ {s} : life'[r] = life[r] /\ main'[r] = main[r]
      /\ server'[rpb[s]] = "prepared" /\ statements'[rpb[s]] = s
      /\ \A i \in Ids \ {rpb[s]} : server'[i] = server[i] /\ statements'[i] = statements[i]
  BY <1>1, <1>3 DEF StatementsInv, TypeOK
<1>5. /\ Held(s)' /\ ~Unready(s)'
      /\ \A g \in Stmts \ {s} : (Held(g)' <=> Held(g)) /\ (Unready(g)' <=> Unready(g))
      /\ \A g \in Stmts : (Filed(g)' <=> Filed(g)) /\ (Doomed(g)' <=> Doomed(g))
  BY <1>1, <1>4 DEF Held, Unready, Filed, Doomed
<1>6. Usable(s)' /\ \A g \in Stmts \ {s} : Usable(g)' <=> Usable(g)
  BY <1>5 DEF Usable
<1>7. ~Filed(s) /\ ~Doomed(s)
  BY <1>2 DEF Usable
<1>8. Places'
  <2>1. \A k \in Closers : closing'[k] # "idle" => k \in Stmts /\ life'[k] = "closed"
    BY <1>1, <1>4 DEF Places
  <2>2. \A h \in Stmts : Doomed(h)' => rpb'[h] # 0 /\ ~Held(h)' /\ ~Filed(h)'
    BY <1>1, <1>5, <1>7 DEF Places
  <2>3. \A h \in Stmts : h \in dead' \/ Unready(h)' => rpb'[h] # 0 /\ ~Usable(h)'
    BY <1>1, <1>2, <1>5, <1>6 DEF Places
  <2>4. \A h \in Stmts : rpb'[h] # 0 => Usable(h)' \/ h \in dead' \/ Unready(h)'
    BY <1>1, <1>5, <1>6 DEF Places
  <2>5. \A h \in Stmts : ~(h \in dead' /\ Unready(h)')
    BY <1>1, <1>2, <1>5 DEF Places
  <2> QED BY <1>1, <2>1, <2>2, <2>3, <2>4, <2>5 DEF Places
<1>9. HostedAs(s)'
  BY <1>1, <1>2, <1>4, <1>5 DEF HostedAs
<1>10. ASSUME IdsInv, Hosted PROVE Hosted'
  BY <1>1, <1>2, <1>4, <1>5, <1>6, <1>9, <1>10, HostedStep
<1> QED BY <1>8, <1>10

LEMMA VictimDeletedHost ==
  ASSUME StatementsInv, Places, NEW k \in Closers, VictimDeleted(k)
  PROVE  Places' /\ (IdsInv /\ Hosted => Hosted')
<1>1. /\ closing[k] = "delete" /\ victim[k] \in Stmts
      /\ closing' = [closing EXCEPT ![k] = "idle"] /\ victim' = [victim EXCEPT ![k] = None]
      /\ server' = [server EXCEPT ![rpb[victim[k]]] = "none"]
      /\ statements' = [statements EXCEPT ![rpb[victim[k]]] = None]
      /\ dead' = dead \cup {victim[k]}
      /\ UNCHANGED <<cache, life, handle, main, rpb>>
  BY DEF VictimDeleted, AnsweredTo, StatementsInv, Handles, apiVars
<1>2. PICK h \in Stmts : h = victim[k]
  BY <1>1
<1>3. Doomed(h) /\ h # None
  BY <1>2, StatementsAssumption DEF Doomed
<1>4. rpb[h] # 0 /\ ~Held(h) /\ ~Filed(h) /\ ~Unready(h)
  <2>1. Usable(h)
    BY <1>3 DEF Usable
  <2> QED BY <1>3, <2>1 DEF Places
<1>5. rpb[h] \in Ids
  BY <1>4, IdOf
<1>6. /\ closing'[k] = "idle" /\ victim'[k] = None
      /\ \A l \in Closers \ {k} : closing'[l] = closing[l] /\ victim'[l] = victim[l]
      /\ server'[rpb[h]] = "none" /\ statements'[rpb[h]] = None
      /\ \A i \in Ids \ {rpb[h]} : server'[i] = server[i] /\ statements'[i] = statements[i]
      /\ dead' = dead \cup {h}
  BY <1>1, <1>2, <1>5 DEF StatementsInv, TypeOK
<1>7. \A l \in Closers : victim[l] = h => l = k
  BY <1>2, <1>3 DEF Places
<1>8. ASSUME NEW g \in Stmts
      PROVE  /\ Held(g)' <=> Held(g)
             /\ Filed(g)' <=> Filed(g)
             /\ Doomed(g)' <=> Doomed(g) /\ g # h
             /\ Unready(g)' <=> Unready(g)
  <2>1. g # None
    BY StatementsAssumption
  <2>2. Doomed(g)' <=> Doomed(g) /\ g # h
    BY <1>2, <1>6, <1>7, <2>1 DEF Doomed
  <2>3. (Held(g)' <=> Held(g)) /\ (Filed(g)' <=> Filed(g)) /\ (Unready(g)' <=> Unready(g))
    BY <1>1 DEF Held, Filed, Unready
  <2> QED BY <2>2, <2>3
<1>9. ~Usable(h)' /\ \A g \in Stmts \ {h} : Usable(g)' <=> Usable(g)
  BY <1>4, <1>8 DEF Usable
<1>10. Places'
  <2>1. \A l \in Closers : closing'[l] # "idle" => l \in Stmts /\ life'[l] = "closed"
    BY <1>1, <1>6 DEF Places
  <2>2. \A l \in Closers : closing'[l] = "idle" <=> victim'[l] = None
    BY <1>6 DEF Places
  <2>3. \A l, m \in Closers : victim'[l] # None /\ victim'[l] = victim'[m] => l = m
    BY <1>6 DEF Places
  <2>4. \A g \in Stmts : Doomed(g)' => rpb'[g] # 0 /\ ~Held(g)' /\ ~Filed(g)'
    BY <1>1, <1>8 DEF Places
  <2>5. \A g \in Stmts : g \in dead' \/ Unready(g)' => rpb'[g] # 0 /\ ~Usable(g)'
    BY <1>1, <1>4, <1>6, <1>8, <1>9 DEF Places
  <2>6. \A g \in Stmts : ~(g \in dead' /\ Unready(g)')
    BY <1>4, <1>6, <1>8 DEF Places
  <2>7. \A g \in Stmts : rpb'[g] # 0 => Usable(g)' \/ g \in dead' \/ Unready(g)'
    BY <1>1, <1>6, <1>8, <1>9 DEF Places
  <2> QED BY <2>1, <2>2, <2>3, <2>4, <2>5, <2>6, <2>7 DEF Places
<1>11. main[h] # "prepare"
  BY <1>4 DEF StatementsInv, Handles, Unready
<1>12. HostedAs(h)'
  BY <1>1, <1>4, <1>6, <1>8, <1>9, <1>11 DEF HostedAs
<1>13. \A g \in Stmts \ {h} : g \in dead' <=> g \in dead
  BY <1>6
<1>14. ASSUME IdsInv, Hosted PROVE Hosted'
  BY <1>1, <1>4, <1>6, <1>8, <1>9, <1>12, <1>13, <1>14, HostedStep
<1> QED BY <1>10, <1>14

LEMMA CreateHost ==
  ASSUME StatementsInv, Places,
         NEW s \in Stmts, life[s] = "new", Create(s),
         UNCHANGED <<closing, victim, dead, statements, server>>
  PROVE  Places' /\ (EnoughIds /\ IdsInv /\ Hosted => IdsInv' /\ Hosted')
<1>1. /\ handle' = [handle EXCEPT ![s] = s] /\ life' = [life EXCEPT ![s] = "preparing"]
      /\ main' = [main EXCEPT ![s] = "create"] /\ cache' = cache
  BY DEF Create
<1>2. /\ life'[s] = "preparing" /\ main'[s] = "create"
      /\ \A r \in Stmts \ {s} : /\ life'[r] = life[r] /\ handle'[r] = handle[r]
                                /\ main'[r] = main[r]
  BY <1>1 DEF StatementsInv, TypeOK
<1>3. /\ rpb[s] = 0 /\ rpb'[s] \in Ids /\ rpb'[s] # 0
      /\ \A h \in Stmts \ {s} : rpb'[h] = rpb[h]
  <2>1. rpb' = [rpb EXCEPT ![s] = NextRpbId]
    BY DEF Create
  <2> QED BY <2>1, NextId, NewIsNowhere DEF StatementsInv, TypeOK
<1>4. ~Unready(s) /\ Unready(s)' /\ \A g \in Stmts \ {s} : Unready(g)' <=> Unready(g)
  BY <1>2 DEF Unready
<1>5. ASSUME NEW g \in Stmts
      PROVE  /\ Held(g)' <=> Held(g)
             /\ Filed(g)' <=> Filed(g)
             /\ Doomed(g)' <=> Doomed(g)
  <2>1. Held(g)' <=> Held(g)
    BY <1>2 DEF Held
  <2> QED BY <1>1, <2>1 DEF Filed, Doomed
<1>6. \A g \in Stmts : Usable(g)' <=> Usable(g)
  BY <1>5 DEF Usable
<1>7. ~Usable(s) /\ s \notin dead
  <2>1. ~Held(s) /\ ~Filed(s)
    BY NewIsNowhere DEF Held, Filed
  <2> QED BY <1>3, <2>1 DEF Usable, Places
<1>8. Places'
  <2>1. \A k \in Closers : closing'[k] # "idle" => k \in Stmts /\ life'[k] = "closed"
    BY <1>2 DEF Places
  <2>2. \A h \in Stmts : Doomed(h)' => rpb'[h] # 0 /\ ~Held(h)' /\ ~Filed(h)'
    BY <1>3, <1>5 DEF Places
  <2>3. \A h \in Stmts : h \in dead' \/ Unready(h)' => rpb'[h] # 0 /\ ~Usable(h)'
    BY <1>3, <1>4, <1>6, <1>7 DEF Places
  <2>4. \A h \in Stmts : ~(h \in dead' /\ Unready(h)')
    BY <1>4, <1>7 DEF Places
  <2>5. \A h \in Stmts : rpb'[h] # 0 => Usable(h)' \/ h \in dead' \/ Unready(h)'
    BY <1>3, <1>4, <1>6 DEF Places
  <2> QED BY <2>1, <2>2, <2>3, <2>4, <2>5 DEF Places
<1>9. ASSUME EnoughIds, IdsInv, Hosted PROVE IdsInv' /\ Hosted'
  <2>a. IdsInv' /\ \A h \in Stmts \ {s} : rpb[h] # rpb'[s]
    BY <1>9, CreateIds
  <2>1. server[rpb'[s]] = "none" /\ statements[rpb'[s]] = None
    BY <1>3, <1>9, <2>a DEF Hosted
  <2>2. HostedAs(s)'
    BY <1>2, <1>4, <1>6, <1>7, <2>1 DEF HostedAs
  <2>3. ASSUME NEW h \in Stmts \ {s}, rpb[h] # 0 PROVE HostedAs(h)'
    <3>1. HostedAs(h)
      BY <1>9, <2>3 DEF Hosted
    <3> QED BY <1>2, <1>3, <1>4, <1>6, <3>1 DEF HostedAs
  <2>4. \A i \in Ids : (\A h \in Stmts : rpb'[h] # i) => (\A h \in Stmts : rpb[h] # i)
    BY <1>3 DEF Ids
  <2> QED BY <1>3, <1>9, <2>a, <2>2, <2>3, <2>4 DEF Hosted
<1> QED BY <1>8, <1>9

(* A handle is taken from the cache.                                        *)
LEMMA AcquireMoves ==
  ASSUME StatementsInv, NEW s \in Stmts, NEW q \in Sqls, life[s] = "new", Acquire(s, q)
  PROVE  \E h \in Stmts :
           /\ Filed(h) /\ life'[s] = "open" /\ handle'[s] = h
           /\ \A r \in Stmts \ {s} : life'[r] = life[r] /\ handle'[r] = handle[r]
           /\ UNCHANGED <<main, counter, rpb>>
           /\ \A g \in Stmts : /\ Held(g)' <=> Held(g) \/ g = h
                               /\ Filed(g)' <=> Filed(g) /\ g # h
                               /\ Unready(g)' <=> Unready(g)
<1>1. PICK i \in InCache(q) :
        /\ handle' = [handle EXCEPT ![s] = cache[i].handle]
        /\ life' = [life EXCEPT ![s] = "open"]
        /\ cache' = RemoveAt(cache, i)
        /\ UNCHANGED <<main, counter, rpb>>
  BY DEF Acquire
<1>2. i \in 1..Len(cache)
  BY <1>1 DEF InCache
<1>3. cache[i] \in ToSet(cache) /\ cache[i].handle \in Stmts
  BY <1>2, EntryAt
<1>4. PICK f \in ToSet(cache) : f = cache[i]
  BY <1>3
<1>5. PICK h \in Stmts : h = f.handle
  BY <1>3, <1>4
<1>6. ToSet(cache') = ToSet(cache) \ {f}
  BY <1>1, <1>2, <1>4, CacheWithout
<1>7. /\ life'[s] = "open" /\ handle'[s] = h
      /\ \A r \in Stmts \ {s} : life'[r] = life[r] /\ handle'[r] = handle[r]
  BY <1>1, <1>4, <1>5 DEF StatementsInv, TypeOK
<1>8. Filed(h) /\ \A g \in Stmts : Filed(g)' <=> Filed(g) /\ g # h
  BY <1>5, <1>6 DEF Filed, StatementsInv, OnePlace
<1>9. \A g \in Stmts : (Held(g)' <=> Held(g) \/ g = h) /\ (Unready(g)' <=> Unready(g))
  <2>1. \A g \in Stmts : Held(g)' <=> Held(g) \/ g = h
    BY <1>7 DEF Held
  <2> QED BY <1>7, <2>1 DEF Unready
<1> QED BY <1>1, <1>7, <1>8, <1>9

LEMMA AcquireHost ==
  ASSUME StatementsInv, Places,
         NEW s \in Stmts, NEW q \in Sqls, life[s] = "new", Acquire(s, q),
         UNCHANGED <<closing, victim, dead, statements, server>>
  PROVE  Places' /\ (Hosted => Hosted')
<1>1. PICK h \in Stmts :
           /\ Filed(h) /\ life'[s] = "open" /\ handle'[s] = h
           /\ \A r \in Stmts \ {s} : life'[r] = life[r] /\ handle'[r] = handle[r]
           /\ UNCHANGED <<main, counter, rpb>>
           /\ \A g \in Stmts : /\ Held(g)' <=> Held(g) \/ g = h
                               /\ Filed(g)' <=> Filed(g) /\ g # h
                               /\ Unready(g)' <=> Unready(g)
  BY AcquireMoves
<1>2. \A g \in Stmts : Doomed(g)' <=> Doomed(g)
  BY DEF Doomed
<1>3. \A g \in Stmts : Usable(g)' <=> Usable(g)
  BY <1>1, <1>2 DEF Usable
<1>4. Places'
  <2>1. \A k \in Closers : closing'[k] # "idle" => k \in Stmts /\ life'[k] = "closed"
    BY <1>1 DEF Places
  <2>2. \A g \in Stmts : Doomed(g)' => rpb'[g] # 0 /\ ~Held(g)' /\ ~Filed(g)'
    BY <1>1, <1>2 DEF Places
  <2> QED BY <1>1, <1>3, <2>1, <2>2 DEF Places
<1>5. ASSUME Hosted PROVE Hosted'
  BY <1>1, <1>3, <1>5, HostedStays
<1> QED BY <1>4, <1>5

LEMMA PrepareHost ==
  ASSUME StatementsInv, Places,
         NEW s \in Stmts, NEW q \in Sqls, Prepare(s, q)
  PROVE  Places' /\ (EnoughIds /\ IdsInv /\ Hosted => IdsInv' /\ Hosted')
<1>1. /\ life[s] = "new" /\ UNCHANGED <<closing, victim, dead, statements, server>>
      /\ Acquire(s, q) \/ Create(s)
  BY DEF Prepare, closeVars
<1>2. CASE Acquire(s, q)
  <2>1. UNCHANGED <<counter, rpb>>
    BY <1>2 DEF Acquire
  <2> QED BY <1>1, <1>2, <2>1, AcquireHost, IdsStay
<1> QED BY <1>1, <1>2, CreateHost

-----------------------------------------------------------------------------
(* PreparedStatement.close().                                               *)

(* The only close that may have begun is one of the statement.              *)
ClosesOwn(s) ==
  /\ \A k \in Closers : closing'[k] # "idle" => closing[k] # "idle" \/ k = s
  /\ \A k \in Closers : closing'[k] = "idle" <=> victim'[k] = None
  /\ \A k, l \in Closers : victim'[k] # None /\ victim'[k] = victim'[l] => k = l

(* The handle h that was held, and filed ones, are moved: those in D are to *)
(* be closed, those in F go into the cache.                                 *)
Moves(h, D, F) ==
  /\ h \in D \cup F /\ D \cap F = {} /\ \A g \in D \cup F : g = h \/ Filed(g)
  /\ \A g \in Stmts : Filed(g)' <=> (Filed(g) /\ g \notin D) \/ g \in F
  /\ \A g \in Stmts : Doomed(g)' <=> Doomed(g) \/ g \in D

LEMMA CloseMoves ==
  ASSUME StatementsInv, Places, NEW s \in Stmts, NEW h \in Stmts,
         handle[s] = h, life[s] = "open", life' = [life EXCEPT ![s] = "closed"],
         UNCHANGED <<handle, rpb, dead>>,
         ClosesOwn(s), NEW D \in SUBSET Stmts, NEW F \in SUBSET Stmts, Moves(h, D, F)
  PROVE  Places' /\ \A g \in Stmts : (Usable(g)' <=> Usable(g)) /\ (Unready(g)' <=> Unready(g))
<1>1. /\ life'[s] = "closed"
      /\ \A r \in Stmts \ {s} : life'[r] = life[r]
  BY DEF StatementsInv, TypeOK
<1>2. rpb[h] # 0 /\ ~Filed(h) /\ Held(h) /\ \A r \in Stmts \ {s} : life[r] = "open" => handle[r] # h
  <2>1. Leased(s) /\ \A r \in Stmts : life[r] = "open" => Leased(r)
    BY DEF Leased
  <2> QED BY <2>1, HandleIds DEF StatementsInv, OnePlace, Filed, Held
<1>3. \A g \in Stmts : Held(g)' <=> Held(g) /\ g # h
  BY <1>1, <1>2 DEF Held
<1>4. \A g \in Stmts : Unready(g)' <=> Unready(g)
  BY <1>1 DEF Unready
<1>5. \A g \in Stmts : Usable(g)' <=> Usable(g)
  BY <1>2, <1>3 DEF Usable, Moves
<1>6. \A g \in Stmts : Filed(g) => rpb[g] # 0 /\ ~Held(g)
  BY DEF StatementsInv, OnePlace, Filed, Held, Leased
<1>7. Places'
  <2>1. \A k \in Closers : closing'[k] # "idle" => k \in Stmts /\ life'[k] = "closed"
    BY <1>1 DEF Places, ClosesOwn
  <2>2. \A g \in Stmts : Doomed(g)' => rpb'[g] # 0 /\ ~Held(g)' /\ ~Filed(g)'
    BY <1>2, <1>3, <1>6 DEF Places, Moves
  <2>3. \A g \in Stmts : g \in dead' \/ Unready(g)' => rpb'[g] # 0 /\ ~Usable(g)'
    BY <1>4, <1>5 DEF Places
  <2>4. \A g \in Stmts : rpb'[g] # 0 => Usable(g)' \/ g \in dead' \/ Unready(g)'
    BY <1>4, <1>5 DEF Places
  <2> QED BY <1>4, <2>1, <2>2, <2>3, <2>4 DEF Places, ClosesOwn
<1> QED BY <1>4, <1>5, <1>7

(* The close of a usable handle by a statement that closes nothing yet.     *)
LEMMA RetireDooms ==
  ASSUME StatementsInv, Places, NEW s \in Stmts, life[s] = "open",
         NEW d \in Stmts, Held(d) \/ Filed(d), Retire(s, d)
  PROVE  /\ ClosesOwn(s)
         /\ \A g \in Stmts : Doomed(g)' <=> Doomed(g) \/ g = d
<1> DEFINE c == IF rpb[d] \in cursor THEN "cursor" ELSE "delete"
<1>1. d \notin dead /\ ~Doomed(d)
  BY DEF Places, Usable
<1>2. closing' = [closing EXCEPT ![s] = c] /\ victim' = [victim EXCEPT ![s] = d]
  BY <1>1 DEF Retire
<1>3. c # "idle" /\ s \in Closers /\ d # None
  BY StatementsAssumption DEF Closers
<1> HIDE DEF c
<1>4. closing[s] = "idle" /\ victim[s] = None
  BY <1>3 DEF Places
<1>5. /\ closing'[s] # "idle" /\ victim'[s] = d
      /\ \A k \in Closers \ {s} : closing'[k] = closing[k] /\ victim'[k] = victim[k]
  BY <1>2, <1>3 DEF StatementsInv, TypeOK
<1>6. \A k \in Closers : victim[k] # d
  BY <1>1 DEF Doomed
<1>7. \A k \in Closers : closing'[k] = "idle" <=> victim'[k] = None
  BY <1>3, <1>5 DEF Places
<1>8. \A k, l \in Closers : victim'[k] # None /\ victim'[k] = victim'[l] => k = l
  BY <1>5, <1>6 DEF Places
<1>9. \A g \in Stmts : Doomed(g)' <=> Doomed(g) \/ g = d
  <2>1. \A g \in Stmts : g # None
    BY StatementsAssumption
  <2> QED BY <1>3, <1>4, <1>5, <2>1 DEF Doomed
<1> QED BY <1>5, <1>7, <1>8, <1>9 DEF ClosesOwn

(* What close() does with the handle of its statement and with another that *)
(* its entry displaces.                                                     *)
LEMMA CloseKinds ==
  ASSUME StatementsInv, NEW s \in Stmts, Close(s), phase = "open"
  PROVE  \E h \in Stmts :
           /\ handle[s] = h
           /\ \/ Retire(s, h) /\ \A g \in Stmts : Filed(g)' <=> Filed(g)
              \/ /\ UNCHANGED <<closing, victim>>
                 /\ \A g \in Stmts : Filed(g)' <=> Filed(g) \/ g = h
              \/ \E d \in Stmts :
                   /\ Filed(d) /\ Retire(s, d)
                   /\ \A g \in Stmts : Filed(g)' <=> (Filed(g) /\ g # d) \/ g = h
<1>1. life[s] = "open" /\ ClosesBy(s)
  BY DEF Close, ClosesBy
<1>2. PICK h \in Stmts : h = handle[s]
  BY <1>1, HandleIds
<1>3. PICK e : e = [sql |-> sql[s], handle |-> handle[s]]
  OBVIOUS
<1>4. e.handle = h
  BY <1>2, <1>3
<1>5. cache \in Seq(Entry) /\ IsInjective(cache)
  BY DEF StatementsInv, TypeOK, OnePlace, Entry
<1>6. CASE Retire(s, handle[s]) /\ cache' = cache
  BY <1>2, <1>6 DEF Filed
<1>7. CASE cache' = Append(cache, e) /\ UNCHANGED <<closing, victim>>
  <2>1. ToSet(cache') = ToSet(cache) \cup {e}
    BY <1>1, <1>3, <1>5, <1>7, CacheWith
  <2>2. \A g \in Stmts : Filed(g)' <=> Filed(g) \/ g = h
    BY <1>4, <2>1 DEF Filed
  <2> QED BY <1>2, <1>7, <2>2
<1>8. CASE \E i \in Displaced(sql[s]) :
             cache' = Append(RemoveAt(cache, i), e) /\ Retire(s, cache[i].handle)
  <2>1. PICK i \in Displaced(sql[s]) :
          cache' = Append(RemoveAt(cache, i), e) /\ Retire(s, cache[i].handle)
    BY <1>8
  <2>2. i \in 1..Len(cache)
    BY DisplacedAt
  <2>3. cache[i] \in ToSet(cache) /\ cache[i].handle \in Stmts
    BY <2>2, EntryAt
  <2>4. PICK f \in ToSet(cache) : f = cache[i]
    BY <2>3
  <2>5. PICK d \in Stmts : d = f.handle
    BY <2>3, <2>4
  <2>6. PICK t : t = RemoveAt(cache, i)
    OBVIOUS
  <2>7. t \in Seq(Entry) /\ IsInjective(t) /\ ToSet(t) = ToSet(cache) \ {f}
    BY <2>2, <2>4, <2>6, CacheWithout
  <2>8. ToSet(cache') = (ToSet(cache) \ {f}) \cup {e}
    BY <1>1, <1>3, <2>1, <2>6, <2>7, CacheWith
  <2>9. Filed(d) /\ \A g \in Stmts : Filed(g)' <=> (Filed(g) /\ g # d) \/ g = h
    BY <1>4, <2>5, <2>8 DEF Filed, StatementsInv, OnePlace
  <2>10. Retire(s, d)
    BY <2>1, <2>4, <2>5
  <2> QED BY <1>2, <2>9, <2>10
<1> QED BY <1>1, <1>3, <1>6, <1>7, <1>8 DEF ClosesBy, GiveBack

LEMMA CloseHost ==
  ASSUME StatementsInv, Places, NEW s \in Stmts, Close(s), phase = "open"
  PROVE  Places' /\ (Hosted => Hosted')
<1>1. /\ life[s] = "open" /\ life' = [life EXCEPT ![s] = "closed"]
      /\ UNCHANGED <<handle, main, rpb, dead, statements, server>>
  BY DEF Close, engineVars
<1>2. PICK h \in Stmts :
           /\ handle[s] = h
           /\ \/ Retire(s, h) /\ \A g \in Stmts : Filed(g)' <=> Filed(g)
              \/ /\ UNCHANGED <<closing, victim>>
                 /\ \A g \in Stmts : Filed(g)' <=> Filed(g) \/ g = h
              \/ \E d \in Stmts :
                   /\ Filed(d) /\ Retire(s, d)
                   /\ \A g \in Stmts : Filed(g)' <=> (Filed(g) /\ g # d) \/ g = h
  BY CloseKinds
<1>3. Held(h) /\ ~Filed(h)
  BY <1>1, <1>2 DEF Held, Filed, StatementsInv, OnePlace, Leased
<1>4. ASSUME NEW D \in SUBSET Stmts, NEW F \in SUBSET Stmts, ClosesOwn(s), Moves(h, D, F)
      PROVE  Places' /\ \A g \in Stmts : (Usable(g)' <=> Usable(g)) /\ (Unready(g)' <=> Unready(g))
  BY <1>1, <1>2, <1>4, CloseMoves
<1>5. ClosesOwn(s) /\ \E D, F \in SUBSET Stmts : Moves(h, D, F)
  <2>1. CASE Retire(s, h) /\ \A g \in Stmts : Filed(g)' <=> Filed(g)
    <3>1. ClosesOwn(s) /\ \A g \in Stmts : Doomed(g)' <=> Doomed(g) \/ g = h
      BY <1>1, <1>3, <2>1, RetireDooms
    <3>2. Moves(h, {h}, {})
      BY <1>3, <2>1, <3>1 DEF Moves
    <3> QED BY <3>1, <3>2
  <2>2. CASE UNCHANGED <<closing, victim>> /\ \A g \in Stmts : Filed(g)' <=> Filed(g) \/ g = h
    <3>1. ClosesOwn(s)
      BY <2>2 DEF Places, ClosesOwn
    <3>2. \A g \in Stmts : Doomed(g)' <=> Doomed(g)
      BY <2>2 DEF Doomed
    <3>3. Moves(h, {}, {h})
      BY <1>3, <2>2, <3>2 DEF Moves
    <3> QED BY <3>1, <3>3
  <2>3. ASSUME NEW d \in Stmts, Filed(d), Retire(s, d),
               \A g \in Stmts : Filed(g)' <=> (Filed(g) /\ g # d) \/ g = h
        PROVE  ClosesOwn(s) /\ Moves(h, {d}, {h})
    <3>1. ClosesOwn(s) /\ \A g \in Stmts : Doomed(g)' <=> Doomed(g) \/ g = d
      BY <1>1, <2>3, RetireDooms
    <3>2. Moves(h, {d}, {h})
      BY <1>3, <2>3, <3>1 DEF Moves
    <3> QED BY <3>1, <3>2
  <2>4. \A d \in Stmts : {d} \in SUBSET Stmts
    OBVIOUS
  <2> QED BY <1>2, <2>1, <2>2, <2>3, <2>4
<1>6. Places' /\ \A g \in Stmts : (Usable(g)' <=> Usable(g)) /\ (Unready(g)' <=> Unready(g))
  BY <1>4, <1>5
<1>7. ASSUME Hosted PROVE Hosted'
  BY <1>1, <1>6, <1>7, HostedStays
<1> QED BY <1>6, <1>7

-----------------------------------------------------------------------------
(* The invariant holds for any client.                                      *)

LEMMA InitPlaces == Init => PlacesInv
<1> SUFFICES ASSUME Init PROVE Places /\ Alive
  BY DEF PlacesInv
<1>1. /\ \A s \in Stmts : rpb[s] = 0 /\ life[s] = "new"
      /\ dead = {}
      /\ \A k \in Closers : closing[k] = "idle" /\ victim[k] = None
      /\ \A i \in Ids : server[i] = "none"
  BY DEF Init
<1>2. \A h \in Stmts : ~Doomed(h) /\ ~Unready(h) /\ h \notin dead
  BY <1>1, StatementsAssumption DEF Doomed, Unready
<1> QED BY <1>1, <1>2 DEF Places, Alive

LEMMA InitHost ==
  ASSUME EnoughIds, Init
  PROVE  HostInv
<1>1. /\ \A s \in Stmts : rpb[s] = 0
      /\ counter = 0
      /\ \A i \in Ids : server[i] = "none" /\ statements[i] = None
  BY DEF Init
<1>2. IdsInv
  <2>1. Born = {}
    BY <1>1 DEF Born
  <2> QED BY <1>1, <2>1, FS_EmptySet DEF IdsInv
<1>3. Hosted
  BY <1>1 DEF Hosted
<1> QED BY <1>2, <1>3 DEF HostInv

(* The steps that leave the connection open.                                *)
LEMMA OpenSteps ==
  ASSUME [Next]_vars, phase' = "open"
  PROVE  /\ phase = "open"
         /\ \/ Client
            \/ \E s \in Stmts : Reply(s)
            \/ \E k \in Closers : CloseReply(k)
            \/ UNCHANGED vars
<1>1. CASE Client
  BY <1>1 DEF Client, Prepare, Execute, ResultsClose, Close, connVars
<1>2. CASE \E s \in Stmts : Reply(s)
  BY <1>2 DEF Reply, PrepareFails, Created, Prepared, Opened, OpenedTooLate, OpenFails,
              Fetched, Closed, connVars
<1>3. CASE \E k \in Closers : CloseReply(k)
  BY <1>3 DEF CloseReply, VictimCursorClosed, VictimDeleted, connVars
<1>4. CASE ConnClose \/ ConnAbort \/ ConnNext \/ ConnPhase
  BY <1>4 DEF ConnClose, ConnAbort, ConnNext, ConnPhase
<1>5. CASE UNCHANGED vars
  BY <1>5 DEF vars
<1> QED BY <1>1, <1>2, <1>3, <1>4, <1>5 DEF Next

LEMMA NextIds ==
  ASSUME EnoughIds, StatementsInv, IdsInv, [Next]_vars
  PROVE  IdsInv'
<1>1. ASSUME NEW s \in Stmts, NEW q \in Sqls, Prepare(s, q) PROVE IdsInv'
  BY <1>1, IdsStay, CreateIds DEF Prepare, Acquire
<1>2. ASSUME NEW s \in Stmts, Execute(s) \/ ResultsClose(s) \/ Close(s)
      PROVE  UNCHANGED <<counter, rpb>>
  BY <1>2 DEF Execute, ResultsClose, Close, engineVars
<1>3. ASSUME NEW s \in Stmts, Reply(s) PROVE UNCHANGED <<counter, rpb>>
  BY <1>3 DEF Reply, PrepareFails, Created, Prepared, Opened, OpenedTooLate, OpenFails,
              Fetched, Closed, engineVars
<1>4. ASSUME NEW k \in Closers, CloseReply(k) PROVE UNCHANGED <<counter, rpb>>
  BY <1>4 DEF CloseReply, VictimCursorClosed, VictimDeleted
<1>5. CASE ConnClose \/ ConnAbort \/ ConnNext \/ ConnPhase
  BY <1>5, IdsStay DEF ConnClose, ConnAbort, ConnNext, ConnPhase, engineVars
<1>6. CASE UNCHANGED vars
  BY <1>6, IdsStay DEF vars
<1> QED BY <1>1, <1>2, <1>3, <1>4, <1>5, <1>6, IdsStay DEF Next, Client

LEMMA NextPlaced ==
  ASSUME StatementsInv, Places, [Next]_vars, phase' = "open"
  PROVE  Places' /\ (EnoughIds /\ IdsInv /\ Hosted => Hosted')
<1>1. phase = "open"
  BY OpenSteps
<1>2. CASE Client
  <2>1. ASSUME NEW s \in Stmts, NEW q \in Sqls, Prepare(s, q)
        PROVE  Places' /\ (EnoughIds /\ IdsInv /\ Hosted => Hosted')
    BY <2>1, PrepareHost
  <2>2. ASSUME NEW s \in Stmts, Execute(s) \/ ResultsClose(s)
        PROVE  Places' /\ (Hosted => Hosted')
    BY <2>2, QuietHost DEF Quiet
  <2>3. ASSUME NEW s \in Stmts, Close(s) PROVE Places' /\ (Hosted => Hosted')
    BY <1>1, <2>3, CloseHost
  <2> QED BY <1>2, <2>1, <2>2, <2>3 DEF Client
<1>3. ASSUME NEW s \in Stmts, Reply(s) PROVE Places' /\ (IdsInv /\ Hosted => Hosted')
  <2>1. PrepareFails(s) \/ Created(s) \/ Prepared(s) \/ Quiet(s)
    BY <1>3 DEF Reply, Quiet
  <2> QED BY <2>1, PrepareFailsHost, CreatedHost, PreparedHost, QuietHost
<1>4. ASSUME NEW k \in Closers, CloseReply(k) PROVE Places' /\ (IdsInv /\ Hosted => Hosted')
  BY <1>1, <1>4, VictimCursorClosedHost, VictimDeletedHost DEF CloseReply
<1>5. CASE UNCHANGED vars
  <2>1. /\ UNCHANGED <<cache, handle, closing, victim, rpb, dead, statements, server>>
        /\ UNCHANGED <<life, main>>
    BY <1>5 DEF vars
  <2>2. Places' /\ \A h \in Stmts : Usable(h)' <=> Usable(h)
    BY <2>1, PlacesStay DEF Unready
  <2>3. ASSUME Hosted PROVE Hosted'
    BY <2>1, <2>2, <2>3, HostedStays DEF Unready
  <2> QED BY <2>2, <2>3
<1> QED BY <1>2, <1>3, <1>4, <1>5, OpenSteps

(* A step at the RPB of one handle that is not closed.                      *)
LEMMA AliveStep ==
  ASSUME StatementsInv, Alive, NEW g \in Stmts \ dead, rpb[g] \in Ids,
         NEW v, server' = [server EXCEPT ![rpb[g]] = v], UNCHANGED <<rpb, dead>>
  PROVE  Alive'
<1>1. \A i \in Ids \ {rpb[g]} : server'[i] = server[i]
  BY DEF StatementsInv, TypeOK
<1> QED BY <1>1 DEF Alive

LEMMA NextAlive ==
  ASSUME StatementsInv, Places, Alive, [Next]_vars, phase' = "open"
  PROVE  Alive'
<1>1. phase = "open"
  BY OpenSteps
<1>2. ASSUME UNCHANGED <<rpb, dead>>,
             \A i \in Ids : server'[i] = server[i]
                            \/ {server[i], server'[i]} \subseteq {"prepared", "cursor"}
      PROVE  Alive'
  BY <1>2 DEF Alive
<1>3. ASSUME NEW s \in Stmts, Quiet(s) PROVE Alive'
  BY <1>2, <1>3, QuietFrame
<1>4. CASE Client
  <2>1. ASSUME NEW s \in Stmts, NEW q \in Sqls, Prepare(s, q) PROVE Alive'
    <3>1. life[s] = "new" /\ rpb[s] = 0 /\ UNCHANGED <<dead, server>>
      BY <2>1, NewIsNowhere DEF Prepare
    <3>2. \A h \in Stmts \ {s} : rpb'[h] = rpb[h]
      BY <2>1 DEF Prepare, Acquire, Create, StatementsInv, TypeOK
    <3>3. \A i \in Ids : i # 0
      BY DEF Ids
    <3> QED BY <3>1, <3>2, <3>3 DEF Alive
  <2>2. ASSUME NEW s \in Stmts, Close(s) PROVE Alive'
    BY <1>2, <2>2 DEF Close, engineVars
  <2> QED BY <1>3, <1>4, <2>1, <2>2 DEF Client, Quiet
<1>5. ASSUME NEW s \in Stmts, Reply(s) PROVE Alive'
  <2>1. CASE PrepareFails(s)
    BY <1>2, <2>1 DEF PrepareFails, engineVars
  <2>2. CASE Created(s) \/ Prepared(s)
    <3>1. /\ life[s] = "preparing" /\ UNCHANGED <<rpb, dead>>
          /\ \E v : server' = [server EXCEPT ![rpb[s]] = v]
      BY <2>2 DEF Created, Prepared, Answered, StatementsInv, Handles, engineVars
    <3>2. rpb[s] \in Ids /\ s \notin dead
      BY <3>1, IdOf DEF Places, Unready
    <3> QED BY <3>1, <3>2, AliveStep
  <2> QED BY <1>3, <1>5, <2>1, <2>2 DEF Reply, Quiet
<1>6. ASSUME NEW k \in Closers, VictimCursorClosed(k) PROVE Alive'
  <2>1. CursorClosed(rpb[victim[k]]) /\ UNCHANGED <<rpb, dead>>
    BY <1>1, <1>6 DEF VictimCursorClosed
  <2> QED BY <1>2, <2>1, CursorClosedServer
<1>7. ASSUME NEW k \in Closers, VictimDeleted(k) PROVE Alive'
  <2>1. PICK v \in Stmts : v = victim[k]
    BY <1>7, Closings DEF VictimDeleted, AnsweredTo
  <2>2. server' = [server EXCEPT ![rpb[v]] = "none"] /\ dead' = dead \cup {v} /\ rpb' = rpb
    BY <1>7, <2>1 DEF VictimDeleted
  <2>3. ASSUME NEW i \in Ids, server'[i] # "none" PROVE i # rpb[v] /\ server[i] # "none"
    BY <2>2, <2>3 DEF StatementsInv, TypeOK
  <2> QED BY <2>2, <2>3 DEF Alive
<1>8. CASE UNCHANGED vars
  BY <1>2, <1>8 DEF vars
<1> QED BY <1>4, <1>5, <1>6, <1>7, <1>8, OpenSteps DEF CloseReply

LEMMA NextPlaces ==
  ASSUME StatementsInv, PlacesInv, [Next]_vars
  PROVE  PlacesInv'
BY OpenSteps, NextPlaced, NextAlive DEF PlacesInv

LEMMA NextHost ==
  ASSUME EnoughIds, StatementsInv, PlacesInv, HostInv, [Next]_vars
  PROVE  HostInv'
BY OpenSteps, NextIds, NextPlaced DEF PlacesInv, HostInv

(* Everything that holds of handles and host.                               *)
EngineInv == StatementsInv /\ PlacesInv /\ HostInv

LEMMA InitEngine ==
  ASSUME EnoughIds
  PROVE  Init => EngineInv
BY InitInv, InitPlaces, InitHost DEF EngineInv

LEMMA NextEngine ==
  ASSUME EnoughIds
  PROVE  EngineInv /\ [Next]_vars => EngineInv'
BY NextInv, NextPlaces, NextHost DEF EngineInv

(* StatementManager.js: while the connection is open, a statement that      *)
(* prepare() returned keeps its RPB on the host, and its entry in           *)
(* #statements, until its own close(): no eviction, duplicate or other      *)
(* close of any client takes it away.                                       *)
THEOREM RpbKept ==
  ASSUME EnoughIds
  PROVE  Spec => []OpenStatementsKeepTheirRpb
<1>1. EngineInv => OpenStatementsKeepTheirRpb
  <2> SUFFICES ASSUME EngineInv, phase = "open", NEW s \in Stmts, life[s] = "open"
               PROVE  /\ server[Rpb(s)] \in {"prepared", "cursor"}
                      /\ statements[Rpb(s)] = handle[s]
                      /\ \A k \in Closers : victim[k] # handle[s]
    BY DEF OpenStatementsKeepTheirRpb
  <2>1. PICK h \in Stmts : h = handle[s] /\ rpb[h] # 0
    BY HandleIds DEF EngineInv
  <2>2. Held(h) /\ Usable(h)
    BY <2>1 DEF Held, Usable
  <2>3. ~Doomed(h) /\ HostedAs(h)
    BY <2>1, <2>2 DEF EngineInv, PlacesInv, HostInv, Places, Hosted
  <2> QED BY <2>1, <2>2, <2>3 DEF Doomed, HostedAs, Rpb
<1> QED BY <1>1, InitEngine, NextEngine, PTL DEF Spec

LEMMA FiledIsCached ==
  ASSUME StatementsInv, NEW h \in Stmts
  PROVE  Filed(h) <=> h \in Cached
<1>1. cache \in Seq(Entry)
  BY DEF StatementsInv, TypeOK, Entry
<1> QED BY <1>1, InToSet DEF Filed, Cached

(* The closes and evictions of an open connection lose no RPB, even if the  *)
(* counter wraps onto ids in use: each one on the host is cached, held by an open statement, being prepared or being   *)
(* closed, or was left behind by a prepare that failed.                     *)
THEOREM NothingLeaks == Spec => []NoRpbLeaks
<1>1. Init => StatementsInv /\ PlacesInv
  BY InitInv, InitPlaces
<1>2. StatementsInv /\ PlacesInv /\ [Next]_vars => StatementsInv' /\ PlacesInv'
  BY NextInv, NextPlaces
<1>3. StatementsInv /\ PlacesInv => NoRpbLeaks
  <2> SUFFICES ASSUME StatementsInv, PlacesInv, phase = "open", NEW i \in Ids, server[i] # "none"
               PROVE  \E h \in Stmts :
                        /\ rpb[h] = i
                        /\ \/ h \in Cached
                           \/ \E s \in Stmts : handle[s] = h /\ life[s] \in {"preparing", "open"}
                           \/ \E k \in Closers : victim[k] = h
                           \/ life[h] = "failed"
    BY DEF NoRpbLeaks
  <2>1. Places /\ Alive
    BY DEF PlacesInv
  <2>2. PICK h \in Stmts \ dead : rpb[h] = i
    BY <2>1 DEF Alive
  <2>3. rpb[h] # 0
    BY <2>2 DEF Ids
  <2>4. CASE Usable(h)
    BY <2>2, <2>4, FiledIsCached DEF Usable, Held, Doomed
  <2>5. CASE Unready(h)
    BY <2>2, <2>5 DEF Unready, StatementsInv, Handles
  <2> QED BY <2>1, <2>3, <2>4, <2>5 DEF Places
<1> QED BY <1>1, <1>2, <1>3, PTL DEF Spec

-----------------------------------------------------------------------------
(* The cursors, of clients that let an execution end before they close.     *)

LEMMA CursorOf ==
  ASSUME StatementsInv, Cursors, NEW i \in Ids, CursorClosed(i)
  PROVE  /\ cursor' = cursor \ {i}
         /\ \A j \in Ids : j \in cursor' <=> server'[j] = "cursor"
<1>1. /\ cursor' = IF server[i] = "none" THEN cursor ELSE cursor \ {i}
      /\ server' = [server EXCEPT ![i] = IF server[i] = "cursor" THEN "prepared" ELSE server[i]]
  BY DEF CursorClosed
<1>2. \A j \in Ids : j \in cursor <=> server[j] = "cursor"
  BY DEF Cursors
<1>3. cursor' = cursor \ {i}
  BY <1>1, <1>2
<1>4. server'[i] # "cursor" /\ \A j \in Ids \ {i} : server'[j] = server[j]
  BY <1>1 DEF StatementsInv, TypeOK
<1> QED BY <1>2, <1>3, <1>4

(* A handle that is being closed has another id than one that is held.      *)
LEMMA DoomedApart ==
  ASSUME StatementsInv, IdsInv, Places, NEW s \in Stmts, life[s] \in {"preparing", "open"},
         NEW k \in Closers, closing[k] # "idle"
  PROVE  /\ victim[k] \in Stmts /\ Doomed(victim[k]) /\ rpb[victim[k]] # 0
         /\ rpb[victim[k]] # Rpb(s)
<1>1. PICK v \in Stmts : v = victim[k]
  BY Closings
<1>2. Doomed(v)
  BY <1>1 DEF Doomed
<1>3. rpb[v] # 0 /\ ~Held(v) /\ ~Unready(v)
  BY <1>2 DEF Places, Usable
<1>4. PICK h \in Stmts : h = handle[s] /\ rpb[h] # 0
  BY HandleIds
<1>5. h # v
  BY <1>3, <1>4 DEF Held, Unready, StatementsInv, Handles
<1> QED BY <1>1, <1>2, <1>3, <1>4, <1>5 DEF IdsInv, Rpb

(* A statement that executes gets another cursor, or closes one.            *)
LEMMA QuietCursors ==
  ASSUME StatementsInv, IdsInv, Places, Cursors, NEW s \in Stmts, Quiet(s)
  PROVE  Cursors'
<1>1. /\ UNCHANGED <<life, handle, closing, victim, rpb>>
      /\ \A r \in Stmts \ {s} : main'[r] = main[r]
  BY QuietFrame
<1>2. main'[s] \in {"open", "stream", "fetch"} => life[s] = "open"
  <2>1. CASE Execute(s)
    BY <2>1 DEF Execute
  <2>2. CASE Opened(s)
    BY <2>2 DEF Opened, Answered, Cursors
  <2>3. CASE OpenedTooLate(s) \/ OpenFails(s) \/ Fetched(s) \/ ResultsClose(s) \/ Closed(s)
    BY <2>3 DEF OpenedTooLate, OpenFails, Fetched, AfterRows, ResultsClose, Closed,
                StatementsInv, TypeOK
  <2> QED BY <2>1, <2>2, <2>3 DEF Quiet
<1>3. \A r \in Stmts : main'[r] \in {"open", "stream", "fetch"} => life'[r] = "open"
  BY <1>1, <1>2 DEF Cursors
<1>4. /\ \A i \in Ids : i \in cursor' <=> server'[i] = "cursor"
      /\ \A k \in Closers : closing[k] = "delete" => rpb[victim[k]] \notin cursor'
  <2>1. CASE Opened(s) \/ OpenedTooLate(s)
    <3>1. /\ main[s] \in {"open", "stream"}
          /\ server' = [server EXCEPT ![Rpb(s)] = "cursor"]
          /\ cursor' = cursor \cup {Rpb(s)}
      BY <2>1 DEF Opened, OpenedTooLate, Answered
    <3>2. life[s] = "open" /\ Rpb(s) \in Ids
      BY <3>1, HandleIds DEF Cursors
    <3>3. \A k \in Closers : closing[k] = "delete" => rpb[victim[k]] # Rpb(s)
      BY <3>2, DoomedApart
    <3>4. server'[Rpb(s)] = "cursor" /\ \A i \in Ids \ {Rpb(s)} : server'[i] = server[i]
      BY <3>1, <3>2 DEF StatementsInv, TypeOK
    <3> QED BY <3>1, <3>3, <3>4 DEF Cursors
  <2>2. CASE Closed(s)
    <3>1. Rpb(s) \in Ids /\ CursorClosed(Rpb(s))
      BY <2>2, WaitsIsNotNew, HandleIds DEF Closed, Answered
    <3> QED BY <3>1, CursorOf DEF Cursors
  <2>3. CASE Execute(s) \/ OpenFails(s) \/ Fetched(s) \/ ResultsClose(s)
    <3>1. UNCHANGED <<cursor, server>>
      BY <2>3 DEF Execute, OpenFails, Fetched, ResultsClose, engineVars
    <3> QED BY <3>1 DEF Cursors
  <2> QED BY <2>1, <2>2, <2>3 DEF Quiet
<1> QED BY <1>1, <1>3, <1>4 DEF Cursors

LEMMA CursorsStay ==
  ASSUME Cursors, UNCHANGED <<closing, victim, cursor, server>>,
         \A k \in Closers : closing[k] = "delete" => rpb'[victim[k]] = rpb[victim[k]],
         \A s \in Stmts : main'[s] \in {"open", "stream", "fetch"} => life'[s] = "open"
  PROVE  Cursors'
BY DEF Cursors

LEMMA PrepareCursors ==
  ASSUME EnoughIds, StatementsInv, IdsInv, Places, Cursors,
         NEW s \in Stmts, NEW q \in Sqls, Prepare(s, q)
  PROVE  Cursors'
<1>1. /\ life[s] = "new" /\ rpb[s] = 0 /\ main[s] = "idle"
      /\ UNCHANGED <<closing, victim, cursor, server>>
      /\ Acquire(s, q) \/ Create(s)
  BY NewIsNowhere DEF Prepare, closeVars
<1>2. CASE Acquire(s, q)
  <2>1. UNCHANGED <<main, rpb>> /\ \A r \in Stmts : life[r] = "open" => life'[r] = "open"
    BY <1>1, <1>2, AcquireMoves
  <2> QED BY <1>1, <2>1, CursorsStay DEF Cursors
<1>3. CASE Create(s)
  <2>1. /\ main'[s] = "create" /\ \A r \in Stmts \ {s} : rpb'[r] = rpb[r]
        /\ \A r \in Stmts \ {s} : main'[r] = main[r] /\ life'[r] = life[r]
    BY <1>3 DEF Create, StatementsInv, TypeOK
  <2>2. ASSUME NEW k \in Closers, closing[k] = "delete"
        PROVE  victim[k] \in Stmts \ {s}
    <3>1. victim[k] \in Stmts
      BY <2>2, Closings
    <3> QED BY <1>1, <3>1 DEF Places, Doomed
  <2>3. \A r \in Stmts : main'[r] \in {"open", "stream", "fetch"} => life'[r] = "open"
    BY <2>1 DEF Cursors
  <2> QED BY <1>1, <2>1, <2>2, <2>3, CursorsStay
<1> QED BY <1>1, <1>2, <1>3

LEMMA PrepareFailsCursors ==
  ASSUME StatementsInv, Cursors, NEW s \in Stmts, PrepareFails(s)
  PROVE  Cursors'
<1>1. /\ life' = [life EXCEPT ![s] = "failed"] /\ main' = [main EXCEPT ![s] = "idle"]
      /\ UNCHANGED <<closing, victim, cursor, server, rpb>>
  BY DEF PrepareFails, closeVars, engineVars
<1>2. \A r \in Stmts : main'[r] \in {"open", "stream", "fetch"} => life'[r] = "open"
  BY <1>1 DEF StatementsInv, TypeOK, Cursors
<1> QED BY <1>1, <1>2, CursorsStay

(* What comes before the prepare is done concerns no cursor.                *)
LEMMA PreparingCursors ==
  ASSUME StatementsInv, IdsInv, Places, Hosted, Cursors, NEW s \in Stmts,
         Created(s) \/ Prepared(s)
  PROVE  Cursors' /\ cursor' = cursor /\ rpb[s] \notin cursor
<1>1. /\ life[s] = "preparing"
      /\ UNCHANGED <<closing, victim, cursor, rpb>>
      /\ \E m \in {"idle", "prepare"} : main' = [main EXCEPT ![s] = m]
      /\ \E v \in {"rpb", "prepared"} : server' = [server EXCEPT ![rpb[s]] = v]
      /\ life' = life \/ life' = [life EXCEPT ![s] = "open"]
  BY DEF Created, Prepared, Answered, StatementsInv, Handles, apiVars, closeVars, engineVars
<1>2. Unready(s)
  BY <1>1 DEF Unready
<1>3. rpb[s] # 0 /\ rpb[s] \in Ids
  BY <1>2, OwnId DEF Places
<1>4. server[rpb[s]] # "cursor"
  BY <1>2, <1>3 DEF Hosted, HostedAs
<1>5. server'[rpb[s]] # "cursor" /\ \A i \in Ids \ {rpb[s]} : server'[i] = server[i]
  BY <1>1, <1>3 DEF StatementsInv, TypeOK
<1>6. \A r \in Stmts : main'[r] \in {"open", "stream", "fetch"} => life'[r] = "open"
  BY <1>1 DEF StatementsInv, TypeOK, Cursors
<1>7. \A i \in Ids : i \in cursor' <=> server'[i] = "cursor"
  BY <1>1, <1>4, <1>5 DEF Cursors
<1>8. rpb[s] \notin cursor
  BY <1>3, <1>4 DEF Cursors
<1> QED BY <1>1, <1>6, <1>7, <1>8 DEF Cursors

LEMMA RetireCursors ==
  ASSUME StatementsInv, Cursors, NEW s \in Closers, NEW d \in Stmts, Retire(s, d)
  PROVE  \A k \in Closers : closing'[k] = "delete" => rpb[victim'[k]] \notin cursor
<1>1. CASE d \in dead
  BY <1>1 DEF Retire, Cursors
<1>2. CASE d \notin dead /\ rpb[d] \in cursor
  <2>1. closing' = [closing EXCEPT ![s] = "cursor"] /\ victim' = [victim EXCEPT ![s] = d]
    BY <1>2 DEF Retire
  <2> QED BY <2>1 DEF StatementsInv, TypeOK, Cursors
<1>3. CASE d \notin dead /\ rpb[d] \notin cursor
  <2>1. closing' = [closing EXCEPT ![s] = "delete"] /\ victim' = [victim EXCEPT ![s] = d]
    BY <1>3 DEF Retire
  <2>2. victim'[s] = d /\ \A k \in Closers \ {s} : closing'[k] = closing[k] /\ victim'[k] = victim[k]
    BY <2>1 DEF StatementsInv, TypeOK
  <2> QED BY <1>3, <2>2 DEF Cursors
<1> QED BY <1>1, <1>2, <1>3

LEMMA CloseCursors ==
  ASSUME ~CloseEarly, StatementsInv, Cursors, NEW s \in Stmts, Close(s), phase = "open"
  PROVE  Cursors'
<1>1. /\ life[s] = "open" /\ life' = [life EXCEPT ![s] = "closed"] /\ main[s] = "idle"
      /\ UNCHANGED <<main, rpb, cursor, server>>
  BY DEF Close, engineVars
<1>2. s \in Closers
  BY DEF Closers
<1>3. \A k \in Closers : closing'[k] = "delete" => rpb[victim'[k]] \notin cursor
  <2>1. ASSUME NEW d \in Stmts, Retire(s, d)
        PROVE  \A k \in Closers : closing'[k] = "delete" => rpb[victim'[k]] \notin cursor
    BY <1>2, <2>1, RetireCursors
  <2>2. CASE UNCHANGED <<closing, victim>>
    BY <2>2 DEF Cursors
  <2> QED BY <2>1, <2>2, CloseKinds
<1>4. \A r \in Stmts : main'[r] \in {"open", "stream", "fetch"} => life'[r] = "open"
  BY <1>1 DEF StatementsInv, TypeOK, Cursors
<1> QED BY <1>1, <1>3, <1>4 DEF Cursors

LEMMA CloseReplyCursors ==
  ASSUME StatementsInv, IdsInv, Places, Cursors, phase = "open",
         NEW k \in Closers, CloseReply(k)
  PROVE  Cursors' /\ cursor' \subseteq cursor
<1>1. /\ closing[k] # "idle" /\ UNCHANGED <<main, life, rpb>>
  BY DEF CloseReply, VictimCursorClosed, VictimDeleted, AnsweredTo, apiVars
<1>2. PICK v \in Stmts : v = victim[k]
  BY <1>1, Closings
<1>3. rpb[v] # 0 /\ rpb[v] \in Ids
  <2>1. Doomed(v)
    BY <1>2 DEF Doomed
  <2> QED BY <2>1, OwnId DEF Places
<1>4. CASE VictimCursorClosed(k)
  <2>1. closing' = [closing EXCEPT ![k] = "delete"] /\ victim' = victim /\ CursorClosed(rpb[v])
    BY <1>2, <1>4 DEF VictimCursorClosed
  <2>2. /\ cursor' = cursor \ {rpb[v]}
        /\ \A j \in Ids : j \in cursor' <=> server'[j] = "cursor"
    BY <1>3, <2>1, CursorOf
  <2>3. \A l \in Closers : l # k => closing'[l] = closing[l]
    BY <2>1 DEF StatementsInv, TypeOK
  <2>4. \A l \in Closers : closing'[l] = "delete" => rpb[victim'[l]] \notin cursor'
    BY <1>2, <2>1, <2>2, <2>3 DEF Cursors
  <2> QED BY <1>1, <2>2, <2>4 DEF Cursors
<1>5. CASE VictimDeleted(k)
  <2>1. /\ closing[k] = "delete" /\ closing' = [closing EXCEPT ![k] = "idle"]
        /\ victim' = [victim EXCEPT ![k] = None]
        /\ server' = [server EXCEPT ![rpb[v]] = "none"] /\ cursor' = cursor
    BY <1>2, <1>5 DEF VictimDeleted, AnsweredTo
  <2>2. rpb[v] \notin cursor
    BY <1>2, <2>1 DEF Cursors
  <2>3. server'[rpb[v]] # "cursor" /\ \A i \in Ids \ {rpb[v]} : server'[i] = server[i]
    BY <1>3, <2>1 DEF StatementsInv, TypeOK
  <2>4. \A j \in Ids : j \in cursor' <=> server'[j] = "cursor"
    BY <2>1, <2>2, <2>3 DEF Cursors
  <2>5. \A l \in Closers : closing'[l] = "delete" => rpb[victim'[l]] \notin cursor'
    BY <2>1 DEF StatementsInv, TypeOK, Cursors
  <2> QED BY <1>1, <2>1, <2>4, <2>5 DEF Cursors
<1> QED BY <1>4, <1>5 DEF CloseReply

LEMMA NextCursors ==
  ASSUME EnoughIds, ~CloseEarly, EngineInv, CursorsInv, [Next]_vars
  PROVE  CursorsInv'
<1> SUFFICES ASSUME phase' = "open" PROVE Cursors'
  BY DEF CursorsInv
<1>1. /\ phase = "open" /\ StatementsInv /\ IdsInv /\ Places /\ Hosted /\ Cursors
  BY OpenSteps DEF EngineInv, PlacesInv, HostInv, CursorsInv
<1>2. CASE Client
  <2>1. ASSUME NEW s \in Stmts, NEW q \in Sqls, Prepare(s, q) PROVE Cursors'
    BY <1>1, <2>1, PrepareCursors
  <2>2. ASSUME NEW s \in Stmts, Execute(s) \/ ResultsClose(s) PROVE Cursors'
    BY <1>1, <2>2, QuietCursors DEF Quiet
  <2>3. ASSUME NEW s \in Stmts, Close(s) PROVE Cursors'
    BY <1>1, <2>3, CloseCursors
  <2> QED BY <1>2, <2>1, <2>2, <2>3 DEF Client
<1>3. ASSUME NEW s \in Stmts, Reply(s) PROVE Cursors'
  <2>1. PrepareFails(s) \/ (Created(s) \/ Prepared(s)) \/ Quiet(s)
    BY <1>3 DEF Reply, Quiet
  <2> QED BY <1>1, <2>1, PrepareFailsCursors, PreparingCursors, QuietCursors
<1>4. ASSUME NEW k \in Closers, CloseReply(k) PROVE Cursors'
  BY <1>1, <1>4, CloseReplyCursors
<1>5. CASE UNCHANGED vars
  BY <1>1, <1>5 DEF vars, Cursors
<1> QED BY <1>2, <1>3, <1>4, <1>5, OpenSteps

LEMMA InitCursors == Init => CursorsInv
<1> SUFFICES ASSUME Init PROVE Cursors
  BY DEF CursorsInv
<1>1. /\ \A s \in Stmts : main[s] = "idle"
      /\ \A k \in Closers : closing[k] = "idle"
      /\ cursor = {} /\ \A i \in Ids : server[i] = "none"
  BY DEF Init
<1> QED BY <1>1 DEF Cursors

(* StatementManager.js and CursorManager.js: on an open connection whose    *)
(* client closes no statement that executes, the books of the client agree  *)
(* with the host whenever no request is out.  Timeouts that overtake an     *)
(* execution, refused requests and open result sets do not spoil them.      *)
THEOREM BooksAgree ==
  ASSUME EnoughIds, ~CloseEarly
  PROVE  Spec => []BooksMatchHost
<1>1. Init => EngineInv /\ CursorsInv
  BY InitEngine, InitCursors
<1>2. EngineInv /\ CursorsInv /\ [Next]_vars => EngineInv' /\ CursorsInv'
  BY NextEngine, NextCursors
<1>3. EngineInv /\ CursorsInv => BooksMatchHost
  <2> SUFFICES ASSUME EngineInv, CursorsInv, phase = "open", NEW i \in Ids
               PROVE  /\ statements[i] # None <=> server[i] \in {"prepared", "cursor"}
                      /\ i \in cursor <=> server[i] = "cursor"
    BY DEF BooksMatchHost
  <2>1. Places /\ Hosted /\ Cursors
    BY DEF EngineInv, PlacesInv, HostInv, CursorsInv
  <2>2. statements[i] # None <=> server[i] \in {"prepared", "cursor"}
    <3>1. CASE \A h \in Stmts : rpb[h] # i
      BY <2>1, <3>1 DEF Hosted
    <3>2. ASSUME NEW h \in Stmts, rpb[h] = i
          PROVE  statements[i] # None <=> server[i] \in {"prepared", "cursor"}
      <4>1. rpb[h] # 0 /\ h # None
        BY <3>2, StatementsAssumption DEF Ids
      <4>2. HostedAs(h) /\ (Usable(h) \/ h \in dead \/ Unready(h))
        BY <2>1, <4>1 DEF Hosted, Places
      <4> QED BY <3>2, <4>1, <4>2 DEF HostedAs
    <3> QED BY <3>1, <3>2
  <2> QED BY <2>1, <2>2 DEF Cursors
<1> QED BY <1>1, <1>2, <1>3, PTL DEF Spec

-----------------------------------------------------------------------------
(* The cached handles, of clients that close their result sets first and    *)
(* are overtaken by no timeout.                                             *)

LEMMA ReadyStays ==
  ASSUME Ready, UNCHANGED <<cache, life, handle, main, results, rpb>>,
         cursor' \subseteq cursor
  PROVE  Ready'
BY DEF Ready, Filed, Rpb

(* A handle that is held has an id that no other place has.                 *)
LEMMA HeldApart ==
  ASSUME StatementsInv, IdsInv, NEW s \in Stmts, life[s] = "open"
  PROVE  /\ \A h \in Stmts : Filed(h) => rpb[h] # Rpb(s)
         /\ \A r \in Stmts : life[r] = "open" /\ r # s => Rpb(r) # Rpb(s)
<1>1. PICK h \in Stmts : h = handle[s] /\ rpb[h] # 0
  BY HandleIds
<1>2. \A g \in Stmts : Filed(g) => g # h
  BY <1>1 DEF Filed, StatementsInv, OnePlace, Leased
<1>3. \A r \in Stmts : life[r] = "open" /\ r # s => handle[r] \in Stmts /\ handle[r] # h
  BY <1>1, HandleIds DEF StatementsInv, OnePlace, Leased
<1> QED BY <1>1, <1>2, <1>3 DEF IdsInv, Rpb

(* One statement gets an answer or executes.                                *)
LEMMA ReadyStep ==
  ASSUME Ready, NEW s \in Stmts, life[s] # "closed",
         UNCHANGED <<cache, life, handle, rpb>>,
         \A r \in Stmts \ {s} : main'[r] = main[r] /\ results'[r] = results[r],
         \A h \in Stmts : Filed(h) => rpb[h] \notin cursor',
         \A r \in Stmts \ {s} : life[r] = "open" /\ Rpb(r) \in cursor' => Rpb(r) \in cursor,
         Rpb(s) \in cursor' /\ life[s] = "open" => results'[s] \/ main'[s] \in {"fetch", "close"}
  PROVE  Ready'
<1>1. \A r \in Stmts : life'[r] = "closed" => main'[r] = "idle" /\ ~results'[r]
  BY DEF Ready
<1>2. \A h \in Stmts : Filed(h)' => rpb'[h] \notin cursor'
  BY DEF Filed
<1>3. \A r \in Stmts : life'[r] = "open" /\ Rpb(r)' \in cursor' =>
        results'[r] \/ main'[r] \in {"fetch", "close"}
  BY DEF Ready, Rpb
<1> QED BY <1>1, <1>2, <1>3 DEF Ready

LEMMA QuietReady ==
  ASSUME ~Timeouts, StatementsInv, IdsInv, Places, Cursors, Ready,
         NEW s \in Stmts, Quiet(s)
  PROVE  Ready'
<1>1. /\ UNCHANGED <<cache, life, handle, rpb>>
      /\ \A r \in Stmts \ {s} : main'[r] = main[r]
  BY QuietFrame
<1>2. \E t \in BOOLEAN : results' = [results EXCEPT ![s] = t]
  <2>1. CASE Opened(s) \/ ResultsClose(s)
    <3>1. results[s] \in BOOLEAN
      BY DEF StatementsInv, TypeOK
    <3> QED BY <2>1, <3>1 DEF Opened, ResultsClose
  <2>2. CASE Execute(s) \/ OpenedTooLate(s) \/ OpenFails(s) \/ Fetched(s) \/ Closed(s)
    <3>1. results' = results
      BY <2>2 DEF Execute, OpenedTooLate, OpenFails, Fetched, Closed, apiVars
    <3>2. results' = [results EXCEPT ![s] = results[s]] /\ results[s] \in BOOLEAN
      BY <3>1 DEF StatementsInv, TypeOK
    <3> QED BY <3>2
  <2> QED BY <2>1, <2>2 DEF Quiet
<1>3. \A r \in Stmts \ {s} : results'[r] = results[r]
  BY <1>2 DEF StatementsInv, TypeOK
<1>4. life[s] # "closed"
  BY DEF Quiet, Execute, Opened, OpenedTooLate, OpenFails, Fetched, ResultsClose,
         Closed, Answered, Ready
<1>5. \A h \in Stmts : Filed(h) => rpb[h] \notin cursor
  BY DEF Ready
<1>6. life[s] = "open" /\ Rpb(s) \in cursor => results[s] \/ main[s] \in {"fetch", "close"}
  BY DEF Ready
<1>7. CASE Execute(s)
  <2>1. main[s] = "idle" /\ UNCHANGED <<results, cursor>>
    BY <1>7 DEF Execute, apiVars, engineVars
  <2> QED BY <1>1, <1>3, <1>4, <1>5, <1>6, <2>1, ReadyStep
<1>8. CASE Opened(s)
  <2>1. /\ main[s] \in {"open", "stream"}
        /\ main' = [main EXCEPT ![s] = IF main[s] = "open" THEN "fetch" ELSE "idle"]
        /\ results' = [results EXCEPT ![s] = (results[s] \/ main[s] = "stream")]
        /\ cursor' = cursor \cup {Rpb(s)}
    BY <1>8 DEF Opened, Answered
  <2>2. life[s] = "open"
    BY <2>1 DEF Cursors
  <2>3. results'[s] \/ main'[s] = "fetch"
    BY <2>1 DEF StatementsInv, TypeOK
  <2>4. /\ \A h \in Stmts : Filed(h) => rpb[h] \notin cursor'
        /\ \A r \in Stmts \ {s} : life[r] = "open" /\ Rpb(r) \in cursor' => Rpb(r) \in cursor
    BY <1>5, <2>1, <2>2, HeldApart
  <2> QED BY <1>1, <1>3, <1>4, <2>3, <2>4, ReadyStep
<1>9. CASE OpenFails(s)
  <2>1. main[s] \in {"open", "stream"} /\ UNCHANGED <<results, cursor>>
    BY <1>9 DEF OpenFails, Answered, apiVars, engineVars
  <2>2. life[s] = "open" /\ Rpb(s) \in cursor => results'[s]
    BY <1>6, <2>1
  <2> QED BY <1>1, <1>3, <1>4, <1>5, <2>1, <2>2, ReadyStep
<1>10. CASE Fetched(s) \/ ResultsClose(s)
  <2>1. /\ main' = [main EXCEPT ![s] = IF Rpb(s) \in cursor THEN "close" ELSE "idle"]
        /\ cursor' = cursor
    BY <1>10 DEF Fetched, AfterRows, ResultsClose, engineVars
  <2>2. Rpb(s) \in cursor => main'[s] = "close"
    BY <2>1 DEF StatementsInv, TypeOK
  <2> QED BY <1>1, <1>3, <1>4, <1>5, <2>1, <2>2, ReadyStep
<1>11. CASE Closed(s)
  <2>1. Rpb(s) \in Ids /\ CursorClosed(Rpb(s))
    BY <1>11, WaitsIsNotNew, HandleIds DEF Closed, Answered
  <2>2. cursor' = cursor \ {Rpb(s)}
    BY <2>1, CursorOf
  <2> QED BY <1>1, <1>3, <1>4, <1>5, <2>2, ReadyStep
<1> QED BY <1>7, <1>8, <1>9, <1>10, <1>11 DEF Quiet, OpenedTooLate

LEMMA PrepareFailsReady ==
  ASSUME StatementsInv, Ready, NEW s \in Stmts, PrepareFails(s)
  PROVE  Ready'
<1>1. /\ life' = [life EXCEPT ![s] = "failed"] /\ main' = [main EXCEPT ![s] = "idle"]
      /\ UNCHANGED <<cache, handle, results, rpb, cursor>>
  BY DEF PrepareFails, engineVars
<1>2. /\ life'[s] = "failed"
      /\ \A r \in Stmts \ {s} : life'[r] = life[r] /\ main'[r] = main[r]
  BY <1>1 DEF StatementsInv, TypeOK
<1> QED BY <1>1, <1>2 DEF Ready, Filed, Rpb

LEMMA PreparingReady ==
  ASSUME StatementsInv, IdsInv, Places, Hosted, Cursors, Ready, NEW s \in Stmts,
         Created(s) \/ Prepared(s)
  PROVE  Ready'
<1>1. /\ life[s] = "preparing" /\ handle[s] = s
      /\ UNCHANGED <<cache, handle, results, rpb>>
      /\ \E m \in {"idle", "prepare"} : main' = [main EXCEPT ![s] = m]
      /\ life' = life \/ life' = [life EXCEPT ![s] = "open"]
  BY DEF Created, Prepared, Answered, StatementsInv, Handles, apiVars, engineVars
<1>2. cursor' = cursor /\ Rpb(s) \notin cursor
  BY <1>1, PreparingCursors DEF Rpb
<1>3. /\ life'[s] \in {"preparing", "open"}
      /\ \A r \in Stmts \ {s} : life'[r] = life[r] /\ main'[r] = main[r]
  BY <1>1 DEF StatementsInv, TypeOK
<1> QED BY <1>1, <1>2, <1>3 DEF Ready, Filed, Rpb

LEMMA PrepareReady ==
  ASSUME EnoughIds, StatementsInv, IdsInv, Ready,
         NEW s \in Stmts, NEW q \in Sqls, Prepare(s, q)
  PROVE  Ready'
<1>1. /\ life[s] = "new" /\ UNCHANGED <<results, cursor>>
      /\ Acquire(s, q) \/ Create(s)
  BY DEF Prepare
<1>2. CASE Acquire(s, q)
  <2>1. PICK h \in Stmts :
           /\ Filed(h) /\ life'[s] = "open" /\ handle'[s] = h
           /\ \A r \in Stmts \ {s} : life'[r] = life[r] /\ handle'[r] = handle[r]
           /\ UNCHANGED <<main, counter, rpb>>
           /\ \A g \in Stmts : Filed(g)' <=> Filed(g) /\ g # h
    BY <1>1, <1>2, AcquireMoves
  <2>2. rpb[h] \notin cursor
    BY <2>1 DEF Ready
  <2>3. \A g \in Stmts : Filed(g)' => rpb'[g] \notin cursor'
    BY <1>1, <2>1 DEF Ready
  <2>4. \A r \in Stmts : life'[r] = "closed" => main'[r] = "idle" /\ ~results'[r]
    BY <1>1, <2>1 DEF Ready
  <2>5. \A r \in Stmts : life'[r] = "open" /\ Rpb(r)' \in cursor' =>
          results'[r] \/ main'[r] \in {"fetch", "close"}
    BY <1>1, <2>1, <2>2 DEF Ready, Rpb
  <2> QED BY <2>3, <2>4, <2>5 DEF Ready
<1>3. CASE Create(s)
  <2>1. /\ life'[s] = "preparing" /\ cache' = cache
        /\ \A r \in Stmts \ {s} : /\ life'[r] = life[r] /\ handle'[r] = handle[r]
                                  /\ main'[r] = main[r] /\ rpb'[r] = rpb[r]
    BY <1>3 DEF Create, StatementsInv, TypeOK
  <2>2. \A g \in Stmts : Filed(g)' => Filed(g) /\ g # s
    BY <1>1, <2>1, NewIsNowhere DEF Filed
  <2>3. \A r \in Stmts : life[r] = "open" => r # s /\ handle[r] \in Stmts \ {s}
    BY <1>1, NewIsNowhere, HandleIds
  <2>4. \A r \in Stmts : life'[r] = "open" => life[r] = "open" /\ Rpb(r)' = Rpb(r) /\ r # s
    BY <2>1, <2>3 DEF Rpb
  <2>5. \A g \in Stmts : Filed(g)' => rpb'[g] \notin cursor'
    BY <1>1, <2>1, <2>2 DEF Ready
  <2>6. \A r \in Stmts : life'[r] = "closed" => main'[r] = "idle" /\ ~results'[r]
    BY <1>1, <2>1 DEF Ready
  <2>7. \A r \in Stmts : life'[r] = "open" /\ Rpb(r)' \in cursor' =>
          results'[r] \/ main'[r] \in {"fetch", "close"}
    BY <1>1, <2>1, <2>4 DEF Ready
  <2> QED BY <2>5, <2>6, <2>7 DEF Ready
<1> QED BY <1>1, <1>2, <1>3

LEMMA CloseReady ==
  ASSUME ~CloseEarly, ~LeaveOpen, StatementsInv, Ready,
         NEW s \in Stmts, Close(s), phase = "open"
  PROVE  Ready'
<1>1. /\ life[s] = "open" /\ life' = [life EXCEPT ![s] = "closed"]
      /\ main[s] = "idle" /\ ~results[s]
      /\ UNCHANGED <<handle, main, results, rpb, cursor>>
  BY DEF Close, engineVars
<1>2. Rpb(s) \notin cursor
  BY <1>1 DEF Ready
<1>3. \A g \in Stmts : Filed(g)' => Filed(g) \/ g = handle[s]
  BY CloseKinds
<1>4. life'[s] = "closed" /\ \A r \in Stmts \ {s} : life'[r] = life[r]
  BY <1>1 DEF StatementsInv, TypeOK
<1>5. \A g \in Stmts : Filed(g)' => rpb'[g] \notin cursor'
  BY <1>1, <1>2, <1>3 DEF Ready, Rpb
<1> QED BY <1>1, <1>4, <1>5 DEF Ready, Rpb

LEMMA CloseReplyReady ==
  ASSUME StatementsInv, IdsInv, Places, Cursors, Ready, phase = "open",
         NEW k \in Closers, CloseReply(k)
  PROVE  Ready'
<1>1. UNCHANGED <<cache, life, handle, main, results, rpb>>
  BY DEF CloseReply, VictimCursorClosed, VictimDeleted, apiVars
<1> QED BY <1>1, CloseReplyCursors, ReadyStays

LEMMA NextReady ==
  ASSUME EnoughIds, ~CloseEarly, ~LeaveOpen, ~Timeouts, EngineInv, CursorsInv, ReadyInv,
         [Next]_vars
  PROVE  ReadyInv'
<1> SUFFICES ASSUME phase' = "open" PROVE Ready'
  BY DEF ReadyInv
<1>1. /\ phase = "open" /\ StatementsInv /\ IdsInv /\ Places /\ Hosted /\ Cursors /\ Ready
  BY OpenSteps DEF EngineInv, PlacesInv, HostInv, CursorsInv, ReadyInv
<1>2. CASE Client
  <2>1. ASSUME NEW s \in Stmts, NEW q \in Sqls, Prepare(s, q) PROVE Ready'
    BY <1>1, <2>1, PrepareReady
  <2>2. ASSUME NEW s \in Stmts, Execute(s) \/ ResultsClose(s) PROVE Ready'
    BY <1>1, <2>2, QuietReady DEF Quiet
  <2>3. ASSUME NEW s \in Stmts, Close(s) PROVE Ready'
    BY <1>1, <2>3, CloseReady
  <2> QED BY <1>2, <2>1, <2>2, <2>3 DEF Client
<1>3. ASSUME NEW s \in Stmts, Reply(s) PROVE Ready'
  <2>1. PrepareFails(s) \/ (Created(s) \/ Prepared(s)) \/ Quiet(s)
    BY <1>3 DEF Reply, Quiet
  <2> QED BY <1>1, <2>1, PrepareFailsReady, PreparingReady, QuietReady
<1>4. ASSUME NEW k \in Closers, CloseReply(k) PROVE Ready'
  BY <1>1, <1>4, CloseReplyReady
<1>5. CASE UNCHANGED vars
  BY <1>1, <1>5, ReadyStays DEF vars
<1> QED BY <1>2, <1>3, <1>4, <1>5, OpenSteps

LEMMA InitReady == Init => ReadyInv
<1> SUFFICES ASSUME Init PROVE Ready
  BY DEF ReadyInv
<1>1. /\ \A s \in Stmts : life[s] = "new"
      /\ cursor = {}
  BY DEF Init
<1> QED BY <1>1 DEF Ready

(* PreparedStatementCache.js: a handle that the cache can hand out is       *)
(* prepared on the host and has no cursor there, so that its next execution *)
(* does not fail with -502, if the clients close their result sets before   *)
(* their statements and no timeout overtakes an execution.                  *)
THEOREM CachedReady ==
  ASSUME EnoughIds, ~CloseEarly, ~LeaveOpen, ~Timeouts
  PROVE  Spec => []CachedHandlesAreReady
<1>1. Init => EngineInv /\ CursorsInv /\ ReadyInv
  BY InitEngine, InitCursors, InitReady
<1>2. EngineInv /\ CursorsInv /\ ReadyInv /\ [Next]_vars => EngineInv' /\ CursorsInv' /\ ReadyInv'
  BY NextEngine, NextCursors, NextReady
<1>3. EngineInv /\ CursorsInv /\ ReadyInv => CachedHandlesAreReady
  <2> SUFFICES ASSUME EngineInv, CursorsInv, ReadyInv, phase = "open", NEW h \in Cached
               PROVE  server[rpb[h]] = "prepared" /\ rpb[h] \notin cursor /\ h \notin dead
    BY DEF CachedHandlesAreReady
  <2>1. StatementsInv /\ Places /\ Hosted /\ Cursors /\ Ready
    BY DEF EngineInv, PlacesInv, HostInv, CursorsInv, ReadyInv
  <2>2. h \in Stmts
    BY <2>1, EntryAt DEF Cached
  <2>3. Filed(h) /\ Usable(h)
    BY <2>1, <2>2, FiledIsCached DEF Usable
  <2>4. rpb[h] # 0 /\ h \notin dead
    BY <2>1, <2>2, <2>3 DEF Places, StatementsInv, OnePlace, Filed
  <2>5. server[rpb[h]] \in {"prepared", "cursor"} /\ rpb[h] \in Ids
    BY <2>1, <2>2, <2>3, <2>4, StatementsAssumption
       DEF Hosted, HostedAs, StatementsInv, TypeOK, Ids
  <2>6. rpb[h] \notin cursor
    BY <2>1, <2>2, <2>3 DEF Ready
  <2> QED BY <2>1, <2>4, <2>5, <2>6 DEF Cursors
<1> QED BY <1>1, <1>2, <1>3, PTL DEF Spec
=============================================================================
