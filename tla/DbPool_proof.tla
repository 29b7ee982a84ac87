---------------------------- MODULE DbPool_proof ----------------------------
(***************************************************************************)
(* Proofs about DbPool, for any number of requests and connections, any    *)
(* sizes, with and without validation, and with the history ahead for      *)
(* the limit.                                                              *)
(***************************************************************************)
EXTENDS MCDbPool, Integers, SequencesExt, SequenceTheorems, FiniteSetTheorems, TLAPS

-----------------------------------------------------------------------------
(* Lists without duplicates, and the sets of their elements.                *)

(* The elements of a list, by their index.                                  *)
LEMMA InToSet ==
  ASSUME NEW S, NEW s \in Seq(S), NEW e
  PROVE  e \in ToSet(s) <=> \E i \in 1..Len(s) : s[i] = e
BY DEF ToSet

(* The elements of a list of S are in S.                                    *)
LEMMA ToSetSubset ==
  ASSUME NEW S, NEW s \in Seq(S)
  PROVE  ToSet(s) \subseteq S
BY DEF ToSet

(* SubSeq, by its first index and its length.                               *)
LEMMA SubSeqOf ==
  ASSUME NEW S, NEW s \in Seq(S), NEW m \in Nat, NEW k \in Nat, NEW n \in Int,
         m >= 1, n = m + k - 1, n <= Len(s)
  PROVE  /\ SubSeq(s, m, n) \in Seq(S)
         /\ Len(SubSeq(s, m, n)) = k
         /\ \A j \in 1..k : SubSeq(s, m, n)[j] = s[j + (m - 1)]
<1>1. Len(s) \in Nat /\ \A i \in 1..Len(s) : s[i] \in S
  BY LenProperties, ElementOfSeq
<1>2. \A i \in m..n : s[i] \in S
  BY <1>1
<1>3. /\ SubSeq(s, m, n) \in Seq(S)
      /\ Len(SubSeq(s, m, n)) = IF m <= n THEN n - m + 1 ELSE 0
      /\ \A i \in 1 .. n - m + 1 : SubSeq(s, m, n)[i] = s[m + i - 1]
  BY <1>2, SubSeqProperties
<1>4. n - m + 1 = k /\ (m <= n <=> k >= 1)
  OBVIOUS
<1>5. \A j \in 1..k : m + j - 1 = j + (m - 1)
  OBVIOUS
<1> QED BY <1>3, <1>4, <1>5

(* A list with a new element at its end.                                    *)
LEMMA PushInjective ==
  ASSUME NEW S, NEW s \in Seq(S), NEW e \in S, IsInjective(s), e \notin ToSet(s)
  PROVE  /\ Append(s, e) \in Seq(S)
         /\ IsInjective(Append(s, e))
         /\ ToSet(Append(s, e)) = ToSet(s) \cup {e}
<1> DEFINE t == Append(s, e)
<1>1. /\ t \in Seq(S) /\ Len(s) \in Nat /\ Len(t) = Len(s) + 1 /\ t[Len(s) + 1] = e
      /\ \A i \in 1..Len(s) : t[i] = s[i]
  BY AppendProperties, LenProperties
<1>2. \A i \in 1..Len(s) : s[i] # e
  BY InToSet
<1> HIDE DEF t
<1>3. IsInjective(t)
  BY <1>1, <1>2 DEF IsInjective
<1>4. \A i \in 1..Len(t) : i \in 1..Len(s) \/ i = Len(s) + 1
  BY <1>1
<1>5. 1..Len(s) \subseteq 1..Len(t) /\ Len(s) + 1 \in 1..Len(t)
  BY <1>1
<1>6. \A d : d \in ToSet(t) <=> \E i \in 1..Len(t) : t[i] = d
  BY <1>1, InToSet
<1>7. \A d : d \in ToSet(s) <=> \E i \in 1..Len(s) : s[i] = d
  BY InToSet
<1>8. \A d : d \in ToSet(t) <=> d \in ToSet(s) \/ d = e
  BY <1>1, <1>4, <1>5, <1>6, <1>7
<1> QED BY <1>1, <1>3, <1>8 DEF t

(* t is s without its element at i.                                         *)
Without(s, i, t) ==
  /\ Len(t) = Len(s) - 1
  /\ \A j \in 1..(Len(s) - 1) : t[j] = IF j < i THEN s[j] ELSE s[j + 1]

LEMMA PlaceGone ==
  ASSUME NEW S, NEW s \in Seq(S), NEW t \in Seq(S), NEW i \in 1..Len(s),
         IsInjective(s), Without(s, i, t)
  PROVE  s[i] \in ToSet(s) /\ IsInjective(t) /\ ToSet(t) = ToSet(s) \ {s[i]}
<1> USE DEF Without
<1>1. Len(s) \in Nat /\ \A j, k \in 1..Len(s) : s[j] = s[k] => j = k
  BY LenProperties DEF IsInjective
<1>2. \A j \in 1..Len(s) : s[j] # s[i] => \E k \in 1..Len(t) : t[k] = s[j]
  <2>1. ASSUME NEW j \in 1..Len(s), j < i PROVE j \in 1..Len(t) /\ t[j] = s[j]
    BY <1>1, <2>1
  <2>2. ASSUME NEW j \in 1..Len(s), j > i PROVE j - 1 \in 1..Len(t) /\ t[j - 1] = s[j]
    BY <1>1, <2>2
  <2>3. \A j \in 1..Len(s) : j < i \/ j > i \/ j = i
    BY <1>1
  <2> QED BY <2>1, <2>2, <2>3
<1>3. \A k \in 1..Len(t) : \E j \in 1..Len(s) : t[k] = s[j] /\ s[j] # s[i]
  <2>1. ASSUME NEW k \in 1..Len(t), k < i PROVE k \in 1..Len(s) /\ t[k] = s[k] /\ s[k] # s[i]
    BY <1>1, <2>1
  <2>2. ASSUME NEW k \in 1..Len(t), ~(k < i)
        PROVE  k + 1 \in 1..Len(s) /\ t[k] = s[k + 1] /\ s[k + 1] # s[i]
    BY <1>1, <2>2
  <2> QED BY <2>1, <2>2
<1>4. IsInjective(t)
  BY <1>1 DEF IsInjective
<1>5. /\ \A e : e \in ToSet(t) <=> \E k \in 1..Len(t) : t[k] = e
      /\ \A e : e \in ToSet(s) <=> \E k \in 1..Len(s) : s[k] = e
  BY InToSet
<1>6. \A e \in ToSet(t) : e \in ToSet(s) /\ e # s[i]
  BY <1>3, <1>5
<1>7. \A e \in ToSet(s) : e # s[i] => e \in ToSet(t)
  BY <1>2, <1>5
<1> QED BY <1>4, <1>5, <1>6, <1>7

(* What is left when the last element is taken.                             *)
LEMMA PopInjective ==
  ASSUME NEW S, NEW s \in Seq(S), s # <<>>, IsInjective(s)
  PROVE  /\ Front(s) \in Seq(S)
         /\ Last(s) \in ToSet(s)
         /\ IsInjective(Front(s))
         /\ ToSet(Front(s)) = ToSet(s) \ {Last(s)}
<1>1. PICK i \in 1..Len(s) : i = Len(s)
  BY EmptySeq, LenProperties
<1> DEFINE n == Len(s) - 1
           t == Front(s)
<1>2. n \in Nat /\ n = i - 1 /\ \A j \in 1 .. n : s[j] \in S
  BY <1>1, LenProperties, ElementOfSeq
<1>3. t = SubSeq(s, 1, n) /\ Last(s) = s[i]
  BY <1>1 DEF Front, Last
<1> HIDE DEF n, t
<1>4. /\ t \in Seq(S) /\ Len(t) = IF 1 <= n THEN n - 1 + 1 ELSE 0
      /\ \A j \in 1 .. n - 1 + 1 : t[j] = s[1 + j - 1]
  BY <1>2, <1>3, SubSeqProperties
<1>5. Without(s, i, t)
  BY <1>2, <1>4 DEF Without, n
<1>6. s[i] \in ToSet(s) /\ IsInjective(t) /\ ToSet(t) = ToSet(s) \ {s[i]}
  BY <1>4, <1>5, PlaceGone
<1> QED BY <1>3, <1>4, <1>6 DEF t

(* What is left when the element at i is taken.                             *)
LEMMA SpliceAt ==
  ASSUME NEW S, NEW s \in Seq(S), NEW i \in 1..Len(s)
  PROVE  RemoveAt(s, i) \in Seq(S) /\ Without(s, i, RemoveAt(s, i))
<1> DEFINE a == SubSeq(s, 1, i - 1)
           b == SubSeq(s, i + 1, Len(s))
<1>1. Len(s) \in Nat /\ \A j \in 1..Len(s) : s[j] \in S
  BY LenProperties, ElementOfSeq
<1>2. a \in Seq(S) /\ Len(a) = i - 1 /\ \A j \in 1..(i - 1) : a[j] = s[j]
  BY <1>1, SubSeqProperties
<1>3. b \in Seq(S) /\ Len(b) = Len(s) - i /\ \A j \in 1..(Len(s) - i) : b[j] = s[i + j]
  BY <1>1, SubSeqProperties
<1>4. RemoveAt(s, i) = a \o b
  BY DEF RemoveAt
<1> HIDE DEF a, b
<1>5. /\ a \o b \in Seq(S) /\ Len(a \o b) = Len(s) - 1
      /\ \A j \in 1..(Len(s) - 1) : (a \o b)[j] = IF j < i THEN a[j] ELSE b[j - (i - 1)]
  <2>1. /\ a \o b \in Seq(S) /\ Len(a \o b) = Len(a) + Len(b)
        /\ \A j \in 1 .. Len(a) + Len(b) : (a \o b)[j] = IF j <= Len(a) THEN a[j] ELSE b[j - Len(a)]
    BY <1>2, <1>3, ConcatProperties
  <2>2. Len(a) + Len(b) = Len(s) - 1 /\ \A j \in 1..(Len(s) - 1) : j <= Len(a) <=> j < i
    BY <1>1, <1>2, <1>3
  <2> QED BY <1>2, <2>1, <2>2
<1> QED BY <1>1, <1>2, <1>3, <1>4, <1>5 DEF Without

LEMMA SpliceInjective ==
  ASSUME NEW S, NEW s \in Seq(S), NEW i \in 1..Len(s), IsInjective(s)
  PROVE  /\ RemoveAt(s, i) \in Seq(S)
         /\ s[i] \in ToSet(s)
         /\ IsInjective(RemoveAt(s, i))
         /\ ToSet(RemoveAt(s, i)) = ToSet(s) \ {s[i]}
BY SpliceAt, PlaceGone

-----------------------------------------------------------------------------
(* The invariant.                                                           *)

(* Where the connections are.  Beyond NoSharing: only connections that were *)
(* born are anywhere, and until the pool is closed every open one is        *)
(* somewhere, which is what lets close() find them all.                     *)
Places ==
  /\ NoSharing
  /\ \A r \in Requests : Has(r) => conn[r] \in Conns /\ state[conn[r]] # "unborn"
  /\ \A c \in ToSet(idle) : state[c] # "unborn"

NoneForgotten ==
  ~closed => \A c \in Conns : state[c] = "open" =>
               c \in ToSet(idle) \/ \E r \in Requests : Has(r) /\ conn[r] = c

PoolInv ==
  TypeOK /\ Places /\ UsableUntilClosed /\ ActiveIsCheckedOut /\ NoneForgotten

LEMMA SizeIsInt == ASSUME TypeOK PROVE Size \in Nat
<1>1. IsFiniteSet(active)
  BY PoolAssumption, FS_Subset DEF TypeOK
<1>2. Cardinality(active) \in Nat /\ Len(idle) \in Nat
  BY <1>1, FS_CardinalityType, LenProperties DEF TypeOK
<1> QED BY <1>2 DEF Size

LEMMA InitPoolInv == Init => PoolInv
<1> SUFFICES ASSUME Init PROVE PoolInv
  OBVIOUS
<1>1. ToSet(<<>>) = {}
  BY DEF ToSet
<1>2. TypeOK
  <2>1. idle \in Seq(Conns) /\ active \in SUBSET Conns /\ told \in SUBSET Requests
    BY EmptySeq DEF Init
  <2>2. closed \in BOOLEAN
    BY DEF Init
  <2>3. warm \in -1..MinSize
    BY PoolAssumption DEF Init
  <2>4. /\ state \in [Conns -> {"unborn", "open", "closed"}]
        /\ pc \in [Requests -> {"idle", "validating", "connecting", "waiting",
                                "holding", "lost", "released", "failed"}]
        /\ conn \in [Requests -> Conns \cup {NoConn}]
    BY DEF Init
  <2> QED BY <2>1, <2>2, <2>3, <2>4 DEF TypeOK
<1>3. Places
  BY <1>1 DEF Init, Places, NoSharing, IsInjective, Has
<1>4. UsableUntilClosed /\ ActiveIsCheckedOut /\ NoneForgotten
  BY <1>1 DEF Init, UsableUntilClosed, ActiveIsCheckedOut, NoneForgotten, Has
<1> QED BY <1>2, <1>3, <1>4 DEF PoolInv

(* A request takes the top of the idle list, or goes on without one.  It    *)
(* may have given up a connection that failed its validation.               *)
LEMMA AcquireStep ==
  ASSUME PoolInv, NEW r \in Requests, Acquire(r),
         pc[r] \in {"idle", "waiting", "validating"},
         UNCHANGED <<closed, told>>, warm' = warm,
         \/ state' = state /\ pc[r] # "validating"
         \/ pc[r] = "validating" /\ state' = [state EXCEPT ![conn[r]] = "closed"]
  PROVE  PoolInv'
<1> USE DEF PoolInv
<1>1. \A q \in Requests : q # r => pc'[q] = pc[q] /\ conn'[q] = conn[q]
  BY DEF Acquire, TakeIdle, StartConnecting, StartWaiting, Resolve, TypeOK
<1>2. \A q \in Requests : q # r /\ Has(q) => state'[conn[q]] = state[conn[q]]
  BY DEF Places, NoSharing, Has, TypeOK
<1>3. \A c \in ToSet(idle) : state'[c] = state[c]
  BY ToSetSubset DEF Places, NoSharing, Has, TypeOK
<1>4. state' \in [Conns -> {"unborn", "open", "closed"}]
  BY DEF TypeOK
<1>5. \A c \in Conns : state'[c] = "open" =>
          state[c] = "open" /\ ~(Has(r) /\ conn[r] = c)
  BY DEF TypeOK, Places, Has
<1>6. CASE TakeIdle(r)
  <2> DEFINE c == Last(idle)
  <2>1. /\ idle' \in Seq(Conns) /\ IsInjective(idle')
        /\ ToSet(idle') = ToSet(idle) \ {c}
        /\ c \in ToSet(idle) /\ c \in Conns
    BY <1>6, PopInjective, ToSetSubset DEF TakeIdle, Places, NoSharing, TypeOK
  <2> HIDE DEF c
  <2>2. /\ conn' = [conn EXCEPT ![r] = c]
        /\ \/ pc' = [pc EXCEPT ![r] = "validating"] /\ active' = active
           \/ /\ active' = active \cup {c}
              /\ \E q \in {"lost", "holding"} : pc' = [pc EXCEPT ![r] = q]
    BY <1>6 DEF TakeIdle, Resolve, c
  <2>3. conn'[r] = c /\ Has(r)'
    BY <2>2 DEF Has, TypeOK
  <2>4. TypeOK'
    BY <1>4, <2>1, <2>2 DEF TypeOK
  <2>5. NoSharing'
    <3>1. \A q \in Requests : q # r /\ Has(q)' => conn'[q] # c /\ conn'[q] \notin ToSet(idle')
      BY <1>1, <2>1 DEF Places, NoSharing, Has
    <3>2. \A q, s \in Requests : Has(q)' /\ Has(s)' /\ conn'[q] = conn'[s] => q = s
      BY <1>1, <2>3, <3>1 DEF Places, NoSharing, Has
    <3> QED BY <2>1, <2>3, <3>1, <3>2 DEF NoSharing
  <2>6. Places'
    BY <1>1, <1>2, <1>3, <2>1, <2>3, <2>5 DEF Places, Has
  <2>7. UsableUntilClosed'
    BY <1>1, <1>2, <1>3, <2>1, <2>3 DEF UsableUntilClosed, Has
  <2>8. ActiveIsCheckedOut'
    <3>1. ASSUME ~closed, NEW d \in Conns
          PROVE  d \in active' <=> \E q \in Requests :
                   pc'[q] \in {"holding", "lost"} /\ conn'[q] = d
      <4>1. d \in active <=> \E q \in Requests \ {r} :
                   pc[q] \in {"holding", "lost"} /\ conn[q] = d
        BY <3>1 DEF ActiveIsCheckedOut
      <4>2. \/ active' = active /\ pc'[r] = "validating"
            \/ active' = active \cup {c} /\ pc'[r] \in {"holding", "lost"}
        BY <2>2 DEF TypeOK
      <4> QED BY <1>1, <2>3, <4>1, <4>2
    <3> QED BY <3>1 DEF ActiveIsCheckedOut
  <2>9. NoneForgotten'
    BY <1>1, <1>5, <2>1, <2>3 DEF NoneForgotten, Has
  <2> QED BY <2>4, <2>6, <2>7, <2>8, <2>9
<1>7. CASE StartConnecting(r) \/ StartWaiting(r)
  <2>1. /\ UNCHANGED <<idle, active>> /\ conn' = [conn EXCEPT ![r] = NoConn]
        /\ \E q \in {"connecting", "waiting"} : pc' = [pc EXCEPT ![r] = q]
    BY <1>7 DEF StartConnecting, StartWaiting
  <2>2. ~Has(r)' /\ pc'[r] \notin {"holding", "lost"}
    BY <2>1 DEF Has, TypeOK
  <2>3. TypeOK'
    BY <1>4, <2>1 DEF TypeOK
  <2>4. Places'
    BY <1>1, <1>2, <1>3, <2>1, <2>2 DEF Places, NoSharing, Has
  <2>5. UsableUntilClosed'
    BY <1>1, <1>2, <1>3, <2>1, <2>2 DEF UsableUntilClosed, Has
  <2>6. ActiveIsCheckedOut'
    BY <1>1, <2>1, <2>2 DEF ActiveIsCheckedOut
  <2>7. NoneForgotten'
    BY <1>1, <1>5, <2>1 DEF NoneForgotten, Has
  <2> QED BY <2>3, <2>4, <2>5, <2>6, <2>7
<1> QED BY <1>6, <1>7 DEF Acquire

(* A request that has no connection changes state without getting one, the  *)
(* timer rejects a promise, or warmup() counts.                             *)
LEMMA QuietStep ==
  ASSUME PoolInv, UNCHANGED <<poolVars, state, conn>>,
         told' \in SUBSET Requests, warm' \in -1..MinSize,
         \/ pc' = pc
         \/ \E r \in Requests : /\ pc[r] \in {"idle", "connecting", "waiting"}
                                /\ pc' = [pc EXCEPT ![r] = "failed"]
  PROVE  PoolInv'
<1> USE DEF PoolInv, poolVars
<1>1. \A q \in Requests : /\ Has(q)' <=> Has(q)
                          /\ pc'[q] \in {"holding", "lost"} <=> pc[q] \in {"holding", "lost"}
  BY DEF Has, TypeOK
<1>2. pc' \in [Requests -> {"idle", "validating", "connecting", "waiting",
                            "holding", "lost", "released", "failed"}]
  BY DEF TypeOK
<1>3. TypeOK'
  BY <1>2 DEF TypeOK
<1>4. Places'
  BY <1>1 DEF Places, NoSharing
<1>5. UsableUntilClosed'
  BY <1>1 DEF UsableUntilClosed
<1>6. ActiveIsCheckedOut'
  BY <1>1 DEF ActiveIsCheckedOut
<1>7. NoneForgotten'
  BY <1>1 DEF NoneForgotten
<1> QED BY <1>3, <1>4, <1>5, <1>6, <1>7

LEMMA ValidatedStep ==
  ASSUME PoolInv, NEW r \in Requests, Validated(r)
  PROVE  PoolInv'
<1> USE DEF PoolInv
<1>1. /\ UNCHANGED <<idle, closed, state, conn, told, warm>>
      /\ active' = active \cup {conn[r]}
      /\ \E q \in {"lost", "holding"} : pc' = [pc EXCEPT ![r] = q]
      /\ pc[r] = "validating" /\ Has(r)
  BY DEF Validated, Resolve, Has
<1>2. \A q \in Requests : q # r => pc'[q] = pc[q]
  BY <1>1 DEF TypeOK
<1>3. pc'[r] \in {"holding", "lost"}
  BY <1>1 DEF TypeOK
<1>4. \A q \in Requests : Has(q)' <=> Has(q)
  BY <1>1, <1>2, <1>3 DEF Has
<1>5. TypeOK'
  <2>1. conn[r] \in Conns
    BY <1>1 DEF Places
  <2>2. active' \in SUBSET Conns /\ pc' \in [Requests ->
          {"idle", "validating", "connecting", "waiting",
           "holding", "lost", "released", "failed"}]
    BY <1>1, <2>1 DEF TypeOK
  <2> QED BY <1>1, <2>2 DEF TypeOK
<1>6. Places'
  BY <1>1, <1>4 DEF Places, NoSharing
<1>7. UsableUntilClosed'
  BY <1>1, <1>4 DEF UsableUntilClosed
<1>8. ActiveIsCheckedOut'
  BY <1>1, <1>2, <1>3 DEF ActiveIsCheckedOut
<1>9. NoneForgotten'
  BY <1>1, <1>4 DEF NoneForgotten
<1> QED BY <1>5, <1>6, <1>7, <1>8, <1>9

(* A connection that is born is nowhere yet.                                *)
LEMMA UnbornIsNowhere ==
  ASSUME PoolInv, NEW c \in Conns, state[c] = "unborn"
  PROVE  c \notin ToSet(idle) /\ \A r \in Requests : Has(r) => conn[r] # c
  BY DEF PoolInv, Places

LEMMA ConnectedStep ==
  ASSUME PoolInv, NEW r \in Requests, Connected(r)
  PROVE  PoolInv'
<1> USE DEF PoolInv
<1>1. PICK c \in Conns : /\ state[c] = "unborn"
                         /\ state' = [state EXCEPT ![c] = "open"]
                         /\ active' = active \cup {c}
                         /\ conn' = [conn EXCEPT ![r] = c]
  BY DEF Connected
<1>2. /\ UNCHANGED <<idle, closed, told, warm>>
      /\ \E q \in {"lost", "holding"} : pc' = [pc EXCEPT ![r] = q]
      /\ pc[r] = "connecting"
  BY DEF Connected, Resolve
<1>3. c \notin ToSet(idle) /\ \A q \in Requests : Has(q) => conn[q] # c
  BY <1>1, UnbornIsNowhere
<1>4. \A q \in Requests : q # r => pc'[q] = pc[q] /\ conn'[q] = conn[q]
  BY <1>1, <1>2 DEF TypeOK
<1>5. pc'[r] \in {"holding", "lost"} /\ conn'[r] = c /\ Has(r)' /\ ~Has(r)
  BY <1>1, <1>2 DEF TypeOK, Has
<1>6. state'[c] = "open" /\ \A d \in Conns : d # c => state'[d] = state[d]
  BY <1>1 DEF TypeOK
<1>7. \A q \in Requests : q # r /\ Has(q)' => Has(q) /\ state'[conn'[q]] = state[conn[q]]
  BY <1>3, <1>4, <1>6 DEF Has, Places
<1>8. \A d \in ToSet(idle) : state'[d] = state[d]
  BY <1>3, <1>6, ToSetSubset DEF TypeOK
<1>9. TypeOK'
  <2>1. /\ active' \in SUBSET Conns
        /\ conn' \in [Requests -> Conns \cup {NoConn}]
        /\ state' \in [Conns -> {"unborn", "open", "closed"}]
        /\ pc' \in [Requests ->
             {"idle", "validating", "connecting", "waiting",
              "holding", "lost", "released", "failed"}]
    BY <1>1, <1>2 DEF TypeOK
  <2> QED BY <1>2, <2>1 DEF TypeOK
<1>10. Places'
  <2>1. NoSharing'
    BY <1>2, <1>3, <1>4, <1>5, <1>7 DEF Places, NoSharing
  <2> QED BY <1>2, <1>4, <1>5, <1>6, <1>7, <1>8, <2>1 DEF Places
<1>11. UsableUntilClosed'
  BY <1>2, <1>4, <1>5, <1>6, <1>7, <1>8 DEF UsableUntilClosed
<1>12. ActiveIsCheckedOut'
  <2>1. ASSUME ~closed, NEW d \in Conns
        PROVE  d \in active' <=> \E q \in Requests :
                 pc'[q] \in {"holding", "lost"} /\ conn'[q] = d
    <3>1. d \in active <=> \E q \in Requests \ {r} :
                 pc[q] \in {"holding", "lost"} /\ conn[q] = d
      BY <1>2, <2>1 DEF ActiveIsCheckedOut
    <3> QED BY <1>1, <1>4, <1>5, <3>1
  <2> QED BY <1>2, <2>1 DEF ActiveIsCheckedOut
<1>13. NoneForgotten'
  <2>1. \A q \in Requests : Has(q) => q # r /\ Has(q)'
    BY <1>4, <1>5 DEF Has
  <2> QED BY <1>2, <1>4, <1>5, <1>6, <2>1 DEF NoneForgotten
<1> QED BY <1>9, <1>10, <1>11, <1>12, <1>13

LEMMA ReleaseStep ==
  ASSUME PoolInv, NEW r \in Requests, Release(r)
  PROVE  PoolInv'
<1> USE DEF PoolInv
<1>1. /\ UNCHANGED <<closed, conn, told, warm>>
      /\ pc' = [pc EXCEPT ![r] = "released"]
      /\ pc[r] = "holding" /\ Has(r)
  BY DEF Release, Has
<1>2. \A q \in Requests : q # r => pc'[q] = pc[q]
  BY <1>1 DEF TypeOK
<1>3. pc'[r] = "released" /\ ~Has(r)'
  BY <1>1 DEF TypeOK, Has
<1>4. \A q \in Requests : Has(q)' <=> q # r /\ Has(q)
  BY <1>2, <1>3 DEF Has
<1>5. pc' \in [Requests -> {"idle", "validating", "connecting", "waiting",
                            "holding", "lost", "released", "failed"}]
  BY <1>1 DEF TypeOK
<1>6. conn[r] \in Conns /\ state[conn[r]] # "unborn" /\ conn[r] \notin ToSet(idle)
  BY <1>1 DEF Places, NoSharing
<1>7. CASE closed
  <2>1. UNCHANGED <<idle, active>> /\ state' = [state EXCEPT ![conn[r]] = "closed"]
    BY <1>7 DEF Release
  <2>2. TypeOK'
    <3>1. state' \in [Conns -> {"unborn", "open", "closed"}]
      BY <2>1 DEF TypeOK
    <3> QED BY <1>1, <1>5, <2>1, <3>1 DEF TypeOK
  <2>3. \A c \in Conns : state[c] # "unborn" => state'[c] # "unborn"
    BY <2>1 DEF TypeOK
  <2>4. ToSet(idle) \subseteq Conns
    BY ToSetSubset DEF TypeOK
  <2>5. Places'
    BY <1>1, <1>4, <2>1, <2>3, <2>4 DEF Places, NoSharing
  <2> QED BY <1>1, <1>7, <2>2, <2>5 DEF UsableUntilClosed, ActiveIsCheckedOut, NoneForgotten
<1>8. CASE ~closed
  <2> DEFINE c == conn[r]
  <2>1. active' = active \ {c} /\ idle' = Append(idle, c) /\ state' = state
    BY <1>8 DEF Release
  <2>2. idle' \in Seq(Conns) /\ IsInjective(idle') /\ ToSet(idle') = ToSet(idle) \cup {c}
    BY <1>6, <2>1, PushInjective DEF TypeOK, Places, NoSharing
  <2>3. c \in Conns /\ state[c] = "open" /\ \A q \in Requests : q # r /\ Has(q) => conn[q] # c
    BY <1>1, <1>6, <1>8 DEF UsableUntilClosed, Places, NoSharing
  <2> HIDE DEF c
  <2>4. TypeOK'
    <3>1. active' \in SUBSET Conns
      BY <2>1 DEF TypeOK
    <3> QED BY <1>1, <1>5, <2>1, <2>2, <3>1 DEF TypeOK
  <2>5. Places'
    BY <1>1, <1>4, <2>1, <2>2, <2>3 DEF Places, NoSharing
  <2>6. UsableUntilClosed'
    BY <1>1, <1>4, <2>1, <2>2, <2>3 DEF UsableUntilClosed
  <2>7. ActiveIsCheckedOut'
    <3>1. ASSUME NEW d \in Conns
          PROVE  d \in active' <=> \E q \in Requests :
                   pc'[q] \in {"holding", "lost"} /\ conn'[q] = d
      <4>1. d \in active <=> \E q \in Requests : pc[q] \in {"holding", "lost"} /\ conn[q] = d
        BY <1>8 DEF ActiveIsCheckedOut
      <4>2. \A q \in Requests : q # r /\ pc[q] \in {"holding", "lost"} => conn[q] # c
        BY <2>3 DEF Has
      <4>3. c = conn[r]
        BY DEF c
      <4> QED BY <1>1, <1>2, <1>3, <2>1, <4>1, <4>2, <4>3
    <3> QED BY <3>1 DEF ActiveIsCheckedOut
  <2>8. NoneForgotten'
    <3>1. c = conn[r]
      BY DEF c
    <3> QED BY <1>1, <1>4, <2>1, <2>2, <3>1 DEF NoneForgotten
  <2> QED BY <2>4, <2>5, <2>6, <2>7, <2>8
<1> QED BY <1>7, <1>8

LEMMA WarmConnectedStep ==
  ASSUME PoolInv, WarmConnected
  PROVE  PoolInv'
<1> USE DEF PoolInv
<1>1. PICK c \in Conns : /\ state[c] = "unborn"
                         /\ state' = [state EXCEPT ![c] = "open"]
                         /\ idle' = Append(idle, c)
  BY DEF WarmConnected
<1>2. UNCHANGED <<active, closed, pc, conn, told>> /\ warm' \in -1..MinSize
  BY PoolAssumption DEF WarmConnected, TypeOK, requestVars
<1>3. c \notin ToSet(idle) /\ \A q \in Requests : Has(q) => conn[q] # c
  BY <1>1, UnbornIsNowhere
<1>4. idle' \in Seq(Conns) /\ IsInjective(idle') /\ ToSet(idle') = ToSet(idle) \cup {c}
  BY <1>1, <1>3, PushInjective DEF TypeOK, Places, NoSharing
<1>5. state'[c] = "open" /\ \A d \in Conns : d # c => state'[d] = state[d]
  BY <1>1 DEF TypeOK
<1>6. \A d \in ToSet(idle) : state'[d] = state[d]
  BY <1>3, <1>5, ToSetSubset DEF TypeOK
<1>7. \A q \in Requests : Has(q)' <=> Has(q)
  BY <1>2 DEF Has
<1>8. \A q \in Requests : Has(q) => state'[conn[q]] = state[conn[q]]
  BY <1>3, <1>5 DEF Places
<1>9. TypeOK'
  <2>1. state' \in [Conns -> {"unborn", "open", "closed"}]
    BY <1>1 DEF TypeOK
  <2> QED BY <1>2, <1>4, <2>1 DEF TypeOK
<1>10. Places'
  BY <1>2, <1>3, <1>4, <1>5, <1>6, <1>7, <1>8 DEF Places, NoSharing
<1>11. UsableUntilClosed'
  BY <1>2, <1>4, <1>5, <1>6, <1>7, <1>8 DEF UsableUntilClosed
<1>12. ActiveIsCheckedOut'
  BY <1>2 DEF ActiveIsCheckedOut
<1>13. NoneForgotten'
  BY <1>2, <1>4, <1>5, <1>7 DEF NoneForgotten
<1> QED BY <1>9, <1>10, <1>11, <1>12, <1>13

LEMMA SweepStep ==
  ASSUME PoolInv, Sweep
  PROVE  PoolInv'
<1> USE DEF PoolInv
<1>1. PICK i \in 1..Len(idle) : /\ idle' = RemoveAt(idle, i)
                                /\ state' = [state EXCEPT ![idle[i]] = "closed"]
  BY DEF Sweep
<1>2. UNCHANGED <<active, closed, pc, conn, told, warm>>
  BY DEF Sweep, requestVars
<1> DEFINE c == idle[i]
<1>3. /\ idle' \in Seq(Conns) /\ IsInjective(idle') /\ ToSet(idle') = ToSet(idle) \ {c}
      /\ c \in ToSet(idle) /\ c \in Conns
  BY <1>1, SpliceInjective, ToSetSubset DEF TypeOK, Places, NoSharing
<1>4. state' = [state EXCEPT ![c] = "closed"]
  BY <1>1
<1> HIDE DEF c
<1>5. state'[c] = "closed" /\ \A d \in Conns : d # c => state'[d] = state[d]
  BY <1>3, <1>4 DEF TypeOK
<1>6. \A q \in Requests : Has(q)' <=> Has(q)
  BY <1>2 DEF Has
<1>7. \A q \in Requests : Has(q) => state'[conn[q]] = state[conn[q]]
  BY <1>3, <1>5 DEF Places, NoSharing
<1>8. \A d \in ToSet(idle') : state'[d] = state[d]
  BY <1>3, <1>5, ToSetSubset DEF TypeOK
<1>9. TypeOK'
  <2>1. state' \in [Conns -> {"unborn", "open", "closed"}]
    BY <1>3, <1>4 DEF TypeOK
  <2> QED BY <1>2, <1>3, <2>1 DEF TypeOK
<1>10. Places'
  BY <1>2, <1>3, <1>6, <1>7, <1>8 DEF Places, NoSharing
<1>11. UsableUntilClosed'
  BY <1>2, <1>3, <1>6, <1>7, <1>8 DEF UsableUntilClosed
<1>12. ActiveIsCheckedOut'
  BY <1>2 DEF ActiveIsCheckedOut
<1>13. NoneForgotten'
  BY <1>2, <1>3, <1>5, <1>6 DEF NoneForgotten
<1> QED BY <1>9, <1>10, <1>11, <1>12, <1>13

LEMMA CloseStep ==
  ASSUME PoolInv, Close
  PROVE  PoolInv'
<1> USE DEF PoolInv
<1>1. /\ closed' = TRUE /\ idle' = <<>> /\ active' = {}
      /\ state' = [c \in Conns |->
                     IF c \in ToSet(idle) \cup active THEN "closed" ELSE state[c]]
      /\ UNCHANGED <<pc, conn, told, warm>>
  BY DEF Close, requestVars
<1>2. ToSet(idle') = {} /\ idle' \in Seq(Conns) /\ IsInjective(idle')
  BY <1>1, EmptySeq DEF ToSet, IsInjective
<1>3. \A q \in Requests : Has(q)' <=> Has(q)
  BY <1>1 DEF Has
<1>4. \A c \in Conns : state[c] # "unborn" => state'[c] # "unborn"
  BY <1>1
<1>5. TypeOK'
  <2>1. state' \in [Conns -> {"unborn", "open", "closed"}]
    BY <1>1 DEF TypeOK
  <2>2. active' \in SUBSET Conns
    BY <1>1
  <2>3. closed' \in BOOLEAN
    BY <1>1
  <2>4. /\ pc' \in [Requests -> {"idle", "validating", "connecting", "waiting",
                                "holding", "lost", "released", "failed"}]
        /\ conn' \in [Requests -> Conns \cup {NoConn}]
        /\ told' \in SUBSET Requests /\ warm' \in -1..MinSize
    BY <1>1 DEF TypeOK
  <2> QED BY <1>2, <2>1, <2>2, <2>3, <2>4 DEF TypeOK
<1>6. Places'
  BY <1>1, <1>2, <1>3, <1>4 DEF Places, NoSharing
<1>7. UsableUntilClosed' /\ ActiveIsCheckedOut' /\ NoneForgotten'
  BY <1>1 DEF UsableUntilClosed, ActiveIsCheckedOut, NoneForgotten
<1> QED BY <1>5, <1>6, <1>7

-----------------------------------------------------------------------------
(* Every step, one per action.                                              *)

LEMMA NextPoolInv ==
  ASSUME PoolInv, [Next]_vars
  PROVE  PoolInv'
<1> USE DEF PoolInv
<1>1. ASSUME NEW r \in Requests, GetConnection(r) PROVE PoolInv'
  BY <1>1, AcquireStep DEF GetConnection
<1>2. ASSUME NEW r \in Requests, GetConnectionRefused(r) PROVE PoolInv'
  BY <1>2, QuietStep DEF GetConnectionRefused, TypeOK, poolVars
<1>3. ASSUME NEW r \in Requests, ValidationFails(r) PROVE PoolInv'
  BY <1>3, AcquireStep DEF ValidationFails
<1>4. ASSUME NEW r \in Requests, ConnectFails(r) PROVE PoolInv'
  BY <1>4, QuietStep DEF ConnectFails, TypeOK, poolVars
<1>5. ASSUME NEW r \in Requests, Timeout(r) PROVE PoolInv'
  <2>1. told' \in SUBSET Requests
    BY <1>5 DEF Timeout, TypeOK
  <2> QED BY <1>5, <2>1, QuietStep DEF Timeout, TypeOK, poolVars
<1>6. ASSUME NEW r \in Requests, Poll(r) PROVE PoolInv'
  BY <1>6, AcquireStep DEF Poll, Acquire
<1>7. ASSUME NEW r \in Requests, PollClosed(r) PROVE PoolInv'
  BY <1>7, QuietStep DEF PollClosed, TypeOK, poolVars
<1>8. CASE Warmup
  <2>1. warm' \in -1..MinSize
    BY <1>8, SizeIsInt, PoolAssumption DEF Warmup
  <2> QED BY <1>8, <2>1, QuietStep DEF Warmup, TypeOK, poolVars, requestVars
<1>9. CASE WarmFails
  BY <1>9, QuietStep, PoolAssumption DEF WarmFails, TypeOK, poolVars, requestVars
<1>10. CASE UNCHANGED vars
  BY <1>10, QuietStep DEF vars, TypeOK, poolVars
<1> QED BY <1>1, <1>2, <1>3, <1>4, <1>5, <1>6, <1>7, <1>8, <1>9, <1>10,
           ValidatedStep, ConnectedStep, ReleaseStep, WarmConnectedStep,
           SweepStep, CloseStep
        DEF Next, RequestStep

LEMMA PoolInvAlways == Spec => []PoolInv
<1>1. Init => PoolInv
  BY InitPoolInv
<1>2. PoolInv /\ [Next]_vars => PoolInv'
  BY NextPoolInv
<1> QED BY <1>1, <1>2, PTL DEF Spec

-----------------------------------------------------------------------------
(* The theorems.                                                            *)

(* Every variable keeps its type.                                           *)
THEOREM PoolTypeCorrect == Spec => []TypeOK
<1>1. PoolInv => TypeOK
  BY DEF PoolInv
<1> QED BY <1>1, PoolInvAlways, PTL

(* getConnection(), release(), warmup() and the sweep never put one         *)
(* connection in two places, whatever the order of validation, connects,    *)
(* polls, timeouts and close().                                             *)
THEOREM ConnectionsNotShared == Spec => []NoSharing
<1>1. PoolInv => NoSharing
  BY DEF PoolInv, Places
<1> QED BY <1>1, PoolInvAlways, PTL

(* Nobody holds, and release() and the sweep leave in the idle list, a      *)
(* connection that the pool itself closed, while the pool is open.          *)
THEOREM ConnectionsUsable == Spec => []UsableUntilClosed
<1>1. PoolInv => UsableUntilClosed
  BY DEF PoolInv
<1> QED BY <1>1, PoolInvAlways, PTL

(* #active is the set of the connections that are checked out.              *)
THEOREM ActiveIsExact == Spec => []ActiveIsCheckedOut
<1>1. PoolInv => ActiveIsCheckedOut
  BY DEF PoolInv
<1> QED BY <1>1, PoolInvAlways, PTL

(* close() leaves open only connections under validation.                   *)
THEOREM CloseFindsAll == Spec => CloseReachesAll
<1> DEFINE Reached == closed' # closed =>
             \A c \in Conns : state'[c] = "open" =>
                \E r \in Requests : pc[r] = "validating" /\ conn[r] = c
<1>1. PoolInv /\ [Next]_vars => [Reached]_vars
  <2> SUFFICES ASSUME PoolInv, Next, closed' # closed, NEW c \in Conns,
                      state'[c] = "open"
               PROVE  \E r \in Requests : pc[r] = "validating" /\ conn[r] = c
    BY DEF Reached
  <2>1. Close
    BY DEF Next, RequestStep, GetConnection, GetConnectionRefused, Validated,
           ValidationFails, Connected, ConnectFails, Timeout, Poll, PollClosed,
           Release, Warmup, WarmConnected, WarmFails, Sweep, poolVars
  <2>2. ~closed /\ state[c] = "open" /\ c \notin ToSet(idle) /\ c \notin active
    BY <2>1 DEF Close
  <2>3. PICK r \in Requests : Has(r) /\ conn[r] = c
    BY <2>2 DEF PoolInv, NoneForgotten
  <2>4. pc[r] \notin {"holding", "lost"}
    BY <2>2, <2>3 DEF PoolInv, ActiveIsCheckedOut
  <2> QED BY <2>3, <2>4 DEF Has
<1>2. [][Reached]_vars => CloseReachesAll
  BY DEF CloseReachesAll
<1> HIDE DEF Reached
<1> QED BY <1>1, <1>2, PoolInvAlways, PTL DEF Spec

-----------------------------------------------------------------------------
(* The limit.                                                               *)

Way == {r \in Requests : pc[r] \in {"validating", "connecting"}}
WarmLeft == IF warm > 0 THEN warm ELSE 0

(* ExcessIsOverlap is inductive as soon as the requests on their way are    *)
(* finitely many, which they are however many calls an application makes.   *)
WayFinite == IsFiniteSet(Way)

LimitInv == WayFinite /\ ahead \in Nat /\ ExcessIsOverlap

LEMMA CountsAreNat ==
  ASSUME PoolInv, IsFiniteSet(Way)
  PROVE  /\ Cardinality(active) \in Nat /\ Len(idle) \in Nat
         /\ IsFiniteSet(active)
         /\ Cardinality(Way) \in Nat /\ WarmLeft \in Nat
         /\ OnTheWay(Requests) = Cardinality(Way) + WarmLeft
<1>1. IsFiniteSet(active)
  BY PoolAssumption, FS_Subset DEF PoolInv, TypeOK
<1>2. Cardinality(active) \in Nat /\ Len(idle) \in Nat /\ Cardinality(Way) \in Nat
  BY <1>1, FS_CardinalityType, LenProperties DEF PoolInv, TypeOK
<1>3. WarmLeft \in Nat
  BY PoolAssumption DEF WarmLeft, PoolInv, TypeOK
<1> QED BY <1>1, <1>2, <1>3 DEF OnTheWay, Way, WarmLeft

(* One request moves: the number of those on their way changes by at most   *)
(* one, in the direction its own state tells.                               *)
LEMMA OneMoves ==
  ASSUME IsFiniteSet(Way), NEW r \in Requests,
         \A q \in Requests : q # r => pc'[q] = pc[q]
  PROVE  /\ IsFiniteSet(Way') /\ IsFiniteSet(Way \ {r})
         /\ Cardinality(Way \ {r}) \in Nat
         /\ Cardinality(Way) =
              Cardinality(Way \ {r}) + (IF r \in Way THEN 1 ELSE 0)
         /\ Cardinality(Way') =
              Cardinality(Way \ {r}) + (IF r \in Way' THEN 1 ELSE 0)
<1>1. PICK W : W = Way
  OBVIOUS
<1>2. PICK V : V = Way'
  OBVIOUS
<1>3. V \ {r} = W \ {r}
  BY <1>1, <1>2 DEF Way
<1>4. IsFiniteSet(W \ {r}) /\ Cardinality(W \ {r}) \in Nat
  BY <1>1, FS_Subset, FS_CardinalityType
<1>5. IsFiniteSet(V)
  <2>1. IsFiniteSet((W \ {r}) \cup {r})
    BY <1>4, FS_AddElement
  <2>2. V \subseteq (W \ {r}) \cup {r}
    BY <1>3
  <2> QED BY <2>1, <2>2, FS_Subset
<1>6. Cardinality(W) = Cardinality(W \ {r}) + (IF r \in W THEN 1 ELSE 0)
  BY <1>1, <1>4, FS_RemoveElement, FS_CardinalityType
<1>7. Cardinality(V) = Cardinality(V \ {r}) + (IF r \in V THEN 1 ELSE 0)
  BY <1>3, <1>4, <1>5, FS_RemoveElement, FS_CardinalityType
<1> QED BY <1>1, <1>2, <1>3, <1>4, <1>5, <1>6, <1>7

(* The connections that count for the limit, wherever they are.             *)
Load == Len(idle) + Cardinality(active) + Cardinality(Way) + WarmLeft

LoadIsLimited ==
  Load \in Nat /\ (ExcessIsOverlap <=> Load <= MaxSize + ahead)

LEMMA LoadOfState == PoolInv /\ WayFinite => LoadIsLimited
BY CountsAreNat, PoolAssumption
DEF WayFinite, LoadIsLimited, Load, ExcessIsOverlap, Size

LEMMA LoadOfNextState == PoolInv' /\ WayFinite' => LoadIsLimited'
BY LoadOfState, PTL

Counted == Len(idle) \in Nat /\ Cardinality(active) \in Nat /\ WarmLeft \in Nat

LEMMA CountsOfState == PoolInv /\ WayFinite => Counted
BY CountsAreNat DEF WayFinite, Counted

LEMMA CountsOfNextState == PoolInv' /\ WayFinite' => Counted'
BY CountsOfState, PTL

(* The history never falls.                                                 *)
AheadGrows == ahead' \in Nat /\ ahead <= ahead'

LEMMA StillUnder ==
  ASSUME NEW l \in Nat, NEW k \in Nat, NEW m \in Nat, NEW a \in Nat, NEW b \in Nat,
         k <= l, l <= m + a, a <= b
  PROVE  k <= m + b
OBVIOUS

(* A step that adds nothing to the load keeps the limit.                    *)
LEMMA NoHeavier ==
  ASSUME PoolInv, PoolInv', LimitInv, WayFinite', AheadGrows, Load' <= Load
  PROVE  LimitInv'
<1>1. LoadIsLimited /\ LoadIsLimited'
  BY LoadOfState, LoadOfNextState DEF LimitInv
<1>2. Load \in Nat /\ Load' \in Nat /\ Load <= MaxSize + ahead
  BY <1>1 DEF LoadIsLimited, LimitInv
<1>3. ahead \in Nat /\ ahead' \in Nat /\ ahead <= ahead' /\ MaxSize \in Nat
  BY PoolAssumption DEF LimitInv, AheadGrows
<1>4. Load' <= MaxSize + ahead'
  BY <1>2, <1>3, StillUnder
<1> QED BY <1>1, <1>3, <1>4 DEF LoadIsLimited, LimitInv

(* One request moves, or none.                                              *)
LEMMA LoadWhenOneMoves ==
  ASSUME PoolInv, PoolInv', WayFinite, NEW r \in Requests,
         \A q \in Requests : q # r => pc'[q] = pc[q]
  PROVE  /\ WayFinite'
         /\ \E k \in Nat :
              /\ Cardinality(Way \ {r}) = k
              /\ Load = Len(idle) + Cardinality(active) + k
                          + (IF r \in Way THEN 1 ELSE 0) + WarmLeft
              /\ Load' = Len(idle') + Cardinality(active') + k
                          + (IF r \in Way' THEN 1 ELSE 0) + WarmLeft'
<1>1. /\ IsFiniteSet(Way')
      /\ Cardinality(Way \ {r}) \in Nat
      /\ Cardinality(Way) =
              Cardinality(Way \ {r}) + (IF r \in Way THEN 1 ELSE 0)
      /\ Cardinality(Way') =
              Cardinality(Way \ {r}) + (IF r \in Way' THEN 1 ELSE 0)
  BY OneMoves DEF WayFinite
<1>2. WayFinite'
  BY <1>1 DEF WayFinite
<1>3. Load \in Nat /\ Load' \in Nat
  BY <1>2, LoadOfState, LoadOfNextState DEF LoadIsLimited
<1>4. /\ Len(idle) \in Nat /\ Cardinality(active) \in Nat /\ WarmLeft \in Nat
  BY CountsAreNat DEF WayFinite
<1>5. Load = Len(idle) + Cardinality(active) + Cardinality(Way \ {r})
                          + (IF r \in Way THEN 1 ELSE 0) + WarmLeft
  BY <1>1, <1>4 DEF Load
<1>6. /\ Len(idle') \in Nat /\ Cardinality(active') \in Nat /\ WarmLeft' \in Nat
  BY <1>2, CountsOfNextState DEF Counted
<1>7. Load' = Len(idle') + Cardinality(active') + Cardinality(Way \ {r})
                          + (IF r \in Way' THEN 1 ELSE 0) + WarmLeft'
  BY <1>1, <1>6 DEF Load
<1> QED BY <1>1, <1>2, <1>5, <1>7

LEMMA AddAtMostOne ==
  ASSUME NEW S, NEW x, IsFiniteSet(S)
  PROVE  /\ Cardinality(S \cup {x}) \in Nat
         /\ Cardinality(S \cup {x}) <= Cardinality(S) + 1
<1>1. Cardinality(S) \in Nat
  BY FS_CardinalityType
<1> QED BY <1>1, FS_AddElement

LEMMA FrontIsShorter ==
  ASSUME NEW S, NEW s \in Seq(S), s # <<>>
  PROVE  Len(Front(s)) = Len(s) - 1 /\ Len(s) \in Nat
<1>1. Len(s) \in Nat \ {0}
  BY EmptySeq
<1>2. 1 + (Len(s) - 1) - 1 = Len(s) - 1 /\ Len(s) - 1 \in Nat
  BY <1>1
<1>3. Len(SubSeq(s, 1, Len(s) - 1)) = Len(s) - 1
  BY <1>1, <1>2, SubSeqOf
<1> QED BY <1>1, <1>3 DEF Front

(* A connection leaves the list: it becomes active, or its request is on    *)
(* its way while it validates, but not both.                                *)
LEMMA OneComesOneGoes ==
  ASSUME NEW l \in Nat, NEW a \in Nat, NEW b \in Nat, NEW k \in Nat, NEW w \in Nat,
         NEW was \in 0..1, NEW is \in 0..1, is + b <= a + 1
  PROVE  (l - 1) + b + k + is + w <= l + a + k + was + w
  OBVIOUS

(* A request takes the top of the idle list, sets out to open a connection, *)
(* which adds one to the load, or waits.                                    *)
LEMMA AcquireLimit ==
  ASSUME PoolInv, PoolInv', LimitInv, NEW r \in Requests, Acquire(r),
         pc[r] \in {"idle", "waiting", "validating"}, warm' = warm,
         AheadGrows, SettingOut # {} => OnTheWay(Requests \ SettingOut) <= ahead'
  PROVE  LimitInv'
<1> USE DEF LimitInv
<1>1. \A q \in Requests : q # r => pc'[q] = pc[q]
  BY DEF Acquire, TakeIdle, StartConnecting, StartWaiting, Resolve, PoolInv, TypeOK
<1>2. WarmLeft' = WarmLeft /\ WarmLeft \in Nat
  BY CountsAreNat DEF WarmLeft, WayFinite
<1>3. PICK k \in Nat :
              /\ Cardinality(Way \ {r}) = k
              /\ Load = Len(idle) + Cardinality(active) + k
                          + (IF r \in Way THEN 1 ELSE 0) + WarmLeft
              /\ Load' = Len(idle') + Cardinality(active') + k
                          + (IF r \in Way' THEN 1 ELSE 0) + WarmLeft'
  BY <1>1, LoadWhenOneMoves
<1>4. WayFinite'
  BY <1>1, LoadWhenOneMoves
<1>5. /\ Len(idle) \in Nat /\ Cardinality(active) \in Nat /\ IsFiniteSet(active)
  BY CountsAreNat DEF WayFinite
<1>6. r \in Way <=> pc[r] = "validating"
  BY DEF Way
<1>7. r \in Way' <=> pc'[r] \in {"validating", "connecting"}
  BY DEF Way
<1>8. CASE TakeIdle(r)
  <2>1. Len(idle') = Len(idle) - 1
    BY <1>8, FrontIsShorter DEF TakeIdle, PoolInv, TypeOK
  <2>2. \/ active' = active
        \/ active' = active \cup {Last(idle)} /\ r \notin Way'
    BY <1>7, <1>8 DEF TakeIdle, Resolve, PoolInv, TypeOK
  <2>3. Cardinality(active \cup {Last(idle)}) <= Cardinality(active) + 1
    BY <1>5, AddAtMostOne
  <2>4. Cardinality(active \cup {Last(idle)}) \in Nat
    BY <1>5, AddAtMostOne
  <2> DEFINE was == IF r \in Way THEN 1 ELSE 0
             is == IF r \in Way' THEN 1 ELSE 0
  <2>a. was \in 0..1 /\ is \in 0..1
    OBVIOUS
  <2>b. /\ Load = Len(idle) + Cardinality(active) + k + was + WarmLeft
        /\ Load' = (Len(idle) - 1) + Cardinality(active') + k + is + WarmLeft
    BY <1>2, <1>3, <2>1
  <2>c. ASSUME Cardinality(active') \in Nat,
               is + Cardinality(active') <= Cardinality(active) + 1
        PROVE  Load' <= Load
    <3> HIDE DEF was, is
    <3> QED BY <1>2, <1>5, <2>a, <2>b, <2>c, OneComesOneGoes
  <2>5. ASSUME active' = active PROVE Load' <= Load
    BY <1>5, <2>a, <2>c, <2>5
  <2>6. ASSUME active' = active \cup {Last(idle)}, r \notin Way' PROVE Load' <= Load
    BY <2>3, <2>4, <2>c, <2>6
  <2>7. Load' <= Load
    BY <2>2, <2>5, <2>6
  <2> QED BY <1>4, <2>7, NoHeavier
<1>9. CASE StartConnecting(r)
  <2>1. /\ UNCHANGED <<idle, active>>
        /\ Len(idle) + Cardinality(active) < MaxSize
        /\ pc'[r] = "connecting" /\ pc[r] # "connecting"
    BY <1>9 DEF StartConnecting, Size, PoolInv, TypeOK
  <2>2. SettingOut = {r}
    BY <1>1, <2>1 DEF SettingOut
  <2>3. {q \in Requests \ {r} : pc[q] \in {"validating", "connecting"}} = Way \ {r}
    BY DEF Way
  <2>4. OnTheWay(Requests \ {r}) = k + WarmLeft
    BY <1>3, <2>3 DEF OnTheWay, WarmLeft
  <2>5. k + WarmLeft <= ahead'
    BY <2>2, <2>4
  <2>6. Load' = Len(idle) + Cardinality(active) + k + 1 + WarmLeft
    BY <1>2, <1>3, <1>7, <2>1
  <2>7. Load' <= MaxSize + ahead'
    BY <1>2, <1>5, <2>1, <2>5, <2>6, PoolAssumption DEF AheadGrows
  <2>8. LoadIsLimited'
    BY <1>4, LoadOfNextState
  <2> QED BY <1>4, <2>7, <2>8 DEF LoadIsLimited, AheadGrows
<1>10. CASE StartWaiting(r)
  <2>1. UNCHANGED <<idle, active>> /\ r \notin Way'
    BY <1>7, <1>10 DEF StartWaiting, PoolInv, TypeOK
  <2>2. Load' <= Load
    BY <1>2, <1>3, <1>5, <2>1
  <2> QED BY <1>4, <2>2, NoHeavier
<1> QED BY <1>8, <1>9, <1>10 DEF Acquire

(* A request moves, and nobody sets out to open a connection.               *)
LEMMA MoveLimit ==
  ASSUME PoolInv, PoolInv', LimitInv, AheadGrows, NEW r \in Requests,
         \A q \in Requests : q # r => pc'[q] = pc[q],
         pc'[r] \notin {"validating", "connecting"},
         warm' = warm,
         \/ UNCHANGED <<idle, active>>
         \/ pc[r] \in {"validating", "connecting"} /\ idle' = idle
              /\ \E c : active' = active \cup {c}
         \/ \E c \in active : active' = active \ {c} /\ idle' = Append(idle, c)
  PROVE  LimitInv'
<1> USE DEF LimitInv
<1>2. WarmLeft' = WarmLeft /\ WarmLeft \in Nat
  BY CountsAreNat DEF WarmLeft, WayFinite
<1>3. PICK k \in Nat :
              /\ Cardinality(Way \ {r}) = k
              /\ Load = Len(idle) + Cardinality(active) + k
                          + (IF r \in Way THEN 1 ELSE 0) + WarmLeft
              /\ Load' = Len(idle') + Cardinality(active') + k
                          + (IF r \in Way' THEN 1 ELSE 0) + WarmLeft'
  BY LoadWhenOneMoves
<1>4. WayFinite'
  BY LoadWhenOneMoves
<1>5. /\ Len(idle) \in Nat /\ Cardinality(active) \in Nat /\ IsFiniteSet(active)
  BY CountsAreNat DEF WayFinite
<1>6. r \in Way <=> pc[r] \in {"validating", "connecting"}
  BY DEF Way
<1>7. r \notin Way'
  BY DEF Way
<1>8. CASE UNCHANGED <<idle, active>>
  <2>1. Load' <= Load
    BY <1>2, <1>3, <1>5, <1>7, <1>8
  <2> QED BY <1>4, <2>1, NoHeavier
<1>9. ASSUME pc[r] \in {"validating", "connecting"}, idle' = idle,
             NEW c, active' = active \cup {c}
      PROVE  LimitInv'
  <2>1. Cardinality(active') \in Nat /\ Cardinality(active') <= Cardinality(active) + 1
    BY <1>5, <1>9, AddAtMostOne
  <2>2. Load' <= Load
    BY <1>2, <1>3, <1>5, <1>6, <1>7, <1>9, <2>1
  <2> QED BY <1>4, <2>2, NoHeavier
<1>10. ASSUME NEW c \in active, active' = active \ {c}, idle' = Append(idle, c)
       PROVE  LimitInv'
  <2>1. Cardinality(active') = Cardinality(active) - 1
    BY <1>5, <1>10, FS_RemoveElement
  <2>2. Len(idle') = Len(idle) + 1
    BY <1>10, AppendProperties DEF PoolInv, TypeOK
  <2>3. Load' <= Load
    BY <1>2, <1>3, <1>5, <1>7, <2>1, <2>2
  <2> QED BY <1>4, <2>3, NoHeavier
<1> QED BY <1>8, <1>9, <1>10

LEMMA RemoveAtIsShorter ==
  ASSUME NEW S, NEW s \in Seq(S), NEW i \in 1..Len(s)
  PROVE  Len(RemoveAt(s, i)) = Len(s) - 1
<1>1. Len(s) \in Nat /\ i \in Nat /\ i - 1 \in Nat /\ Len(s) - i \in Nat
      /\ i + 1 \in Nat /\ i - 1 = 1 + (i - 1) - 1
      /\ Len(s) = (i + 1) + (Len(s) - i) - 1 /\ i - 1 <= Len(s)
  BY LenProperties
<1>2. SubSeq(s, 1, i - 1) \in Seq(S) /\ Len(SubSeq(s, 1, i - 1)) = i - 1
  BY <1>1, SubSeqOf
<1>3. /\ SubSeq(s, i + 1, Len(s)) \in Seq(S)
      /\ Len(SubSeq(s, i + 1, Len(s))) = Len(s) - i
  BY <1>1, SubSeqOf
<1>4. Len(SubSeq(s, 1, i - 1) \o SubSeq(s, i + 1, Len(s)))
        = Len(SubSeq(s, 1, i - 1)) + Len(SubSeq(s, i + 1, Len(s)))
  BY <1>2, <1>3, ConcatProperties
<1>5. (i - 1) + (Len(s) - i) = Len(s) - 1
  BY <1>1
<1> QED BY <1>2, <1>3, <1>4, <1>5 DEF RemoveAt

(* warmup(), the sweep and close() move no request.                         *)
LEMMA PoolOnlyLimit ==
  ASSUME PoolInv, PoolInv', LimitInv, AheadGrows, pc' = pc,
         Len(idle') + Cardinality(active') + WarmLeft'
           <= Len(idle) + Cardinality(active) + WarmLeft
  PROVE  LimitInv'
<1> USE DEF LimitInv
<1>1. Way' = Way
  BY DEF Way
<1>2. WayFinite'
  BY <1>1 DEF WayFinite
<1>3. /\ Len(idle) \in Nat /\ Cardinality(active) \in Nat
      /\ WarmLeft \in Nat /\ Cardinality(Way) \in Nat
  BY CountsAreNat DEF WayFinite
<1>4. /\ Len(idle') \in Nat /\ Cardinality(active') \in Nat /\ WarmLeft' \in Nat
  BY <1>2, CountsOfNextState DEF Counted
<1>5. Load' <= Load
  BY <1>1, <1>3, <1>4 DEF Load
<1> QED BY <1>2, <1>5, NoHeavier

LEMMA WarmupLimit ==
  ASSUME PoolInv, PoolInv', LimitInv, Warmup, AheadGrows,
         WarmsUp => OnTheWay(Requests \ SettingOut) <= ahead'
  PROVE  LimitInv'
<1> USE DEF LimitInv
<1>1. UNCHANGED <<idle, active, pc>> /\ warm = -1
      /\ warm' = IF MinSize > Size THEN MinSize - Size ELSE 0
  BY DEF Warmup, poolVars, requestVars
<1>2. /\ Len(idle) \in Nat /\ Cardinality(active) \in Nat
      /\ WarmLeft \in Nat /\ Cardinality(Way) \in Nat
      /\ OnTheWay(Requests) = Cardinality(Way) + WarmLeft
  BY CountsAreNat DEF WayFinite
<1>3. Way' = Way /\ WayFinite'
  BY <1>1 DEF Way, WayFinite
<1>4. LoadIsLimited /\ LoadIsLimited'
  BY <1>3, LoadOfState, LoadOfNextState
<1>5. WarmsUp
  BY <1>1, <1>2, PoolAssumption DEF WarmsUp, Size
<1>6. Requests \ SettingOut = Requests
  BY <1>1 DEF SettingOut
<1>7. Cardinality(Way) <= ahead'
  <2>1. OnTheWay(Requests) <= ahead'
    BY <1>5, <1>6
  <2>2. OnTheWay(Requests) = Cardinality(Way)
    BY <1>1, <1>2 DEF WarmLeft
  <2> QED BY <2>1, <2>2
<1>8. WarmLeft' = IF MinSize > Size THEN MinSize - Size ELSE 0
  BY <1>1, <1>2, PoolAssumption DEF WarmLeft, Size
<1>9. Load' = Len(idle) + Cardinality(active) + Cardinality(Way) + WarmLeft'
  BY <1>1, <1>3 DEF Load
<1>10. WarmLeft = 0
  BY <1>1 DEF WarmLeft
<1>11. Load' <= MaxSize + ahead'
  <2>1. CASE MinSize > Size
    <3>1. WarmLeft' = MinSize - (Len(idle) + Cardinality(active))
      BY <1>8, <2>1 DEF Size
    <3>2. Load' = Cardinality(Way) + MinSize
      BY <1>2, <1>9, <3>1, PoolAssumption
    <3>3. MinSize <= MaxSize /\ MinSize \in Nat /\ MaxSize \in Nat /\ ahead' \in Nat
      BY PoolAssumption DEF AheadGrows
    <3> HIDE DEF LimitInv
    <3> QED BY <1>2, <1>7, <3>2, <3>3
  <2>2. CASE ~(MinSize > Size)
    <3>1. Load' = Load
      BY <1>2, <1>8, <1>9, <1>10, <2>2 DEF Load
    <3>2. Load \in Nat /\ Load <= MaxSize + ahead
      BY <1>4 DEF LoadIsLimited
    <3>3. ahead \in Nat /\ ahead' \in Nat /\ ahead <= ahead' /\ MaxSize \in Nat
      BY PoolAssumption DEF AheadGrows
    <3>4. Load' \in Nat /\ Load' <= Load
      BY <3>1, <3>2
    <3> QED BY <3>2, <3>3, <3>4, StillUnder
  <2> QED BY <2>1, <2>2
<1> QED BY <1>3, <1>4, <1>11 DEF LoadIsLimited, AheadGrows

(* What the history of a step says.                                         *)
LEMMA AheadOfStep ==
  ASSUME PoolInv, LimitInv, AheadNext
  PROVE  /\ AheadGrows
         /\ SettingOut # {} => OnTheWay(Requests \ SettingOut) <= ahead'
         /\ WarmsUp => OnTheWay(Requests \ SettingOut) <= ahead'
<1> DEFINE n == OnTheWay(Requests \ SettingOut)
           W == {r \in Requests \ SettingOut : pc[r] \in {"validating", "connecting"}}
<1>1. W \subseteq Way
  BY DEF Way
<1>2. Cardinality(W) \in Nat
  BY <1>1, FS_Subset, FS_CardinalityType DEF LimitInv, WayFinite
<1>3. WarmLeft \in Nat
  BY CountsAreNat DEF LimitInv, WayFinite
<1>4. n \in Nat
  BY <1>2, <1>3 DEF OnTheWay, WarmLeft
<1>5. ahead' = IF SettingOut # {} \/ WarmsUp THEN (IF n > ahead THEN n ELSE ahead) ELSE ahead
  BY DEF AheadNext, Larger
<1>6. ahead \in Nat
  BY DEF LimitInv
<1> HIDE DEF n
<1>7. AheadGrows /\ (SettingOut # {} \/ WarmsUp => n <= ahead')
  BY <1>4, <1>5, <1>6 DEF AheadGrows
<1> QED BY <1>7 DEF n

LEMMA NextLimitInv ==
  ASSUME PoolInv, PoolInv', LimitInv, AheadNext
  PROVE  LimitInv'
<1> USE DEF LimitInv
<1>1. /\ AheadGrows
      /\ SettingOut # {} => OnTheWay(Requests \ SettingOut) <= ahead'
      /\ WarmsUp => OnTheWay(Requests \ SettingOut) <= ahead'
  BY AheadOfStep
<1>2. ASSUME NEW r \in Requests, GetConnection(r) \/ ValidationFails(r) \/ Poll(r)
      PROVE  LimitInv'
  BY <1>1, <1>2, AcquireLimit DEF GetConnection, ValidationFails, Poll, Acquire
<1>3. ASSUME NEW r \in Requests,
             \/ GetConnectionRefused(r) \/ ConnectFails(r) \/ PollClosed(r)
             \/ Validated(r) \/ Connected(r)
      PROVE  LimitInv'
  <2>1. /\ \A q \in Requests : q # r => pc'[q] = pc[q]
        /\ pc'[r] \notin {"validating", "connecting"}
        /\ warm' = warm
    BY <1>3 DEF GetConnectionRefused, ConnectFails, PollClosed, Validated,
                Connected, Resolve, PoolInv, TypeOK
  <2>2. \/ UNCHANGED <<idle, active>>
        \/ pc[r] \in {"validating", "connecting"} /\ idle' = idle
             /\ \E c : active' = active \cup {c}
    BY <1>3 DEF GetConnectionRefused, ConnectFails, PollClosed, Validated,
                Connected, poolVars
  <2> QED BY <1>1, <2>1, <2>2, MoveLimit
<1>4. ASSUME NEW r \in Requests, Release(r) PROVE LimitInv'
  <2>1. /\ \A q \in Requests : q # r => pc'[q] = pc[q]
        /\ pc'[r] \notin {"validating", "connecting"}
        /\ warm' = warm
    BY <1>4 DEF Release, PoolInv, TypeOK
  <2>2. pc[r] = "holding" /\ conn[r] \in Conns
    BY <1>4 DEF Release, PoolInv, Places, Has
  <2>3. ~closed => conn[r] \in active
    BY <2>2 DEF PoolInv, ActiveIsCheckedOut
  <2>4. \/ UNCHANGED <<idle, active>>
        \/ \E c \in active : active' = active \ {c} /\ idle' = Append(idle, c)
    BY <1>4, <2>3 DEF Release
  <2> QED BY <1>1, <2>1, <2>4, MoveLimit
<1>5. ASSUME NEW r \in Requests, Timeout(r) PROVE LimitInv'
  BY <1>1, <1>5, PoolOnlyLimit, CountsAreNat
  DEF Timeout, poolVars, WayFinite, WarmLeft
<1>6. CASE WarmConnected
  <2>1. PICK c \in Conns : idle' = Append(idle, c)
    BY <1>6 DEF WarmConnected
  <2>2. Len(idle') = Len(idle) + 1
    BY <2>1, AppendProperties DEF PoolInv, TypeOK
  <2>3. /\ active' = active /\ pc' = pc /\ warm > 0 /\ warm' = warm - 1
        /\ warm \in Int
    BY <1>6, PoolAssumption DEF WarmConnected, requestVars, PoolInv, TypeOK
  <2>4. WarmLeft = warm /\ WarmLeft' = warm - 1
    BY <2>3 DEF WarmLeft
  <2>5. Len(idle) \in Nat /\ Cardinality(active) \in Nat
    BY CountsAreNat DEF WayFinite
  <2> QED BY <1>1, <2>2, <2>3, <2>4, <2>5, PoolOnlyLimit
<1>7. CASE WarmFails
  <2>1. UNCHANGED <<idle, active, pc>> /\ WarmLeft' = 0
    BY <1>7 DEF WarmFails, poolVars, requestVars, WarmLeft
  <2>2. Len(idle) \in Nat /\ Cardinality(active) \in Nat /\ WarmLeft \in Nat
    BY CountsAreNat DEF WayFinite
  <2> QED BY <1>1, <2>1, <2>2, PoolOnlyLimit
<1>8. CASE Sweep
  <2>1. PICK i \in 1..Len(idle) : idle' = RemoveAt(idle, i)
    BY <1>8 DEF Sweep
  <2>2. Len(idle') = Len(idle) - 1
    BY <2>1, RemoveAtIsShorter DEF PoolInv, TypeOK
  <2>3. UNCHANGED <<active, pc, warm>>
    BY <1>8 DEF Sweep, requestVars
  <2>4. Len(idle) \in Nat /\ Cardinality(active) \in Nat /\ WarmLeft \in Nat
    BY CountsAreNat DEF WayFinite
  <2> QED BY <1>1, <2>2, <2>3, <2>4, PoolOnlyLimit DEF WarmLeft
<1>9. CASE Close
  <2>1. idle' = <<>> /\ active' = {} /\ UNCHANGED <<pc, warm>>
    BY <1>9 DEF Close, requestVars
  <2>2. Len(idle') = 0 /\ Cardinality(active') = 0
    BY <2>1, EmptySeq, FS_EmptySet
  <2>3. Len(idle) \in Nat /\ Cardinality(active) \in Nat /\ WarmLeft \in Nat
    BY CountsAreNat DEF WayFinite
  <2> QED BY <1>1, <2>1, <2>2, <2>3, PoolOnlyLimit DEF WarmLeft
<1>10. Next
  BY DEF AheadNext
<1> QED
  BY <1>1, <1>2, <1>3, <1>4, <1>5, <1>6, <1>7, <1>8, <1>9, <1>10, WarmupLimit
  DEF Next, RequestStep

(* pool.test.js, 'respects max pool size': the pool is over options.max by  *)
(* no more than there were connections on their way when it set out to open *)
(* another, whatever the number of requests, the sizes, and the timing of   *)
(* validations, polls, releases, the sweep, warmup() and close().           *)
THEOREM LimitHolds == AheadSpec => []ExcessIsOverlap
<1>1. AheadInit => PoolInv /\ LimitInv
  <2> SUFFICES ASSUME AheadInit PROVE PoolInv /\ LimitInv
    OBVIOUS
  <2>1. PoolInv
    BY InitPoolInv DEF AheadInit
  <2>2. Way = {} /\ WarmLeft = 0 /\ idle = <<>> /\ active = {} /\ ahead = 0
    BY DEF AheadInit, Init, Way, WarmLeft
  <2>3. WayFinite /\ Cardinality(Way) = 0 /\ Cardinality(active) = 0 /\ Len(idle) = 0
    BY <2>2, FS_EmptySet, EmptySeq DEF WayFinite
  <2>4. Load <= MaxSize + ahead
    BY <2>2, <2>3, PoolAssumption DEF Load
  <2> QED BY <2>1, <2>2, <2>3, <2>4, LoadOfState DEF LimitInv, LoadIsLimited
<1>2. PoolInv /\ LimitInv /\ [AheadNext]_<<vars, ahead>> => PoolInv' /\ LimitInv'
  <2> SUFFICES ASSUME PoolInv, LimitInv, [AheadNext]_<<vars, ahead>>
               PROVE  PoolInv' /\ LimitInv'
    OBVIOUS
  <2>1. PoolInv'
    BY NextPoolInv DEF AheadNext
  <2>2. CASE UNCHANGED <<vars, ahead>>
    <3>1. UNCHANGED <<idle, active, pc, warm, ahead>>
      BY <2>2 DEF vars
    <3>2. Len(idle) \in Nat /\ Cardinality(active) \in Nat /\ WarmLeft \in Nat
      BY CountsAreNat DEF WayFinite, LimitInv
    <3>3. AheadGrows
      BY <3>1 DEF AheadGrows, LimitInv
    <3> QED BY <2>1, <3>1, <3>2, <3>3, PoolOnlyLimit DEF WarmLeft
  <2> QED BY <2>1, <2>2, NextLimitInv
<1>3. LimitInv => ExcessIsOverlap
  BY DEF LimitInv
<1> QED BY <1>1, <1>2, <1>3, PTL DEF AheadSpec
=============================================================================
