--------------------------- MODULE AS400Pool_proof ---------------------------
(***************************************************************************)
(* Proofs about AS400Pool, for any number of borrowers and resources and   *)
(* any limit.                                                              *)
(***************************************************************************)
EXTENDS AS400Pool, Integers, SequencesExt, SequenceTheorems, FiniteSetTheorems, TLAPS

-----------------------------------------------------------------------------
(* Lists without duplicates, and the sets of their elements.                *)

(* The elements of a list, by their index.                                  *)
LEMMA InToSet ==
  ASSUME NEW S, NEW s \in Seq(S), NEW e
  PROVE  e \in ToSet(s) <=> \E i \in 1..Len(s) : s[i] = e
BY DEF ToSet

(* The elements of a list of S are in S.                                    *)
LEMMA ToSetSubset ==
  ASSUME NEW S, NEW s \in Seq(S)
  PROVE  ToSet(s) \subseteq S
BY DEF ToSet

(* A list with a new element at its end.                                    *)
LEMMA PushInjective ==
  ASSUME NEW S, NEW s \in Seq(S), NEW e \in S, IsInjective(s), e \notin ToSet(s)
  PROVE  /\ Append(s, e) \in Seq(S)
         /\ IsInjective(Append(s, e))
         /\ ToSet(Append(s, e)) = ToSet(s) \cup {e}
<1> DEFINE t == Append(s, e)
<1>1. /\ t \in Seq(S) /\ Len(s) \in Nat /\ Len(t) = Len(s) + 1 /\ t[Len(s) + 1] = e
      /\ \A i \in 1..Len(s) : t[i] = s[i]
  BY AppendProperties, LenProperties
<1>2. \A i \in 1..Len(s) : s[i] # e
  BY InToSet
<1> HIDE DEF t
<1>3. IsInjective(t)
  BY <1>1, <1>2 DEF IsInjective
<1>4. \A i \in 1..Len(t) : i \in 1..Len(s) \/ i = Len(s) + 1
  BY <1>1
<1>5. 1..Len(s) \subseteq 1..Len(t) /\ Len(s) + 1 \in 1..Len(t)
  BY <1>1
<1>6. \A d : d \in ToSet(t) <=> \E i \in 1..Len(t) : t[i] = d
  BY <1>1, InToSet
<1>7. \A d : d \in ToSet(s) <=> \E i \in 1..Len(s) : s[i] = d
  BY InToSet
<1>8. \A d : d \in ToSet(t) <=> d \in ToSet(s) \/ d = e
  BY <1>1, <1>4, <1>5, <1>6, <1>7
<1> QED BY <1>1, <1>3, <1>8 DEF t

(* t is s without its element at i.                                         *)
Without(s, i, t) ==
  /\ Len(t) = Len(s) - 1
  /\ \A j \in 1..(Len(s) - 1) : t[j] = IF j < i THEN s[j] ELSE s[j + 1]

LEMMA PlaceGone ==
  ASSUME NEW S, NEW s \in Seq(S), NEW t \in Seq(S), NEW i \in 1..Len(s),
         IsInjective(s), Without(s, i, t)
  PROVE  s[i] \in ToSet(s) /\ IsInjective(t) /\ ToSet(t) = ToSet(s) \ {s[i]}
<1> USE DEF Without
<1>1. Len(s) \in Nat /\ \A j, k \in 1..Len(s) : s[j] = s[k] => j = k
  BY LenProperties DEF IsInjective
<1>2. \A j \in 1..Len(s) : s[j] # s[i] => \E k \in 1..Len(t) : t[k] = s[j]
  <2>1. ASSUME NEW j \in 1..Len(s), j < i PROVE j \in 1..Len(t) /\ t[j] = s[j]
    BY <1>1, <2>1
  <2>2. ASSUME NEW j \in 1..Len(s), j > i PROVE j - 1 \in 1..Len(t) /\ t[j - 1] = s[j]
    BY <1>1, <2>2
  <2>3. \A j \in 1..Len(s) : j < i \/ j > i \/ j = i
    BY <1>1
  <2> QED BY <2>1, <2>2, <2>3
<1>3. \A k \in 1..Len(t) : \E j \in 1..Len(s) : t[k] = s[j] /\ s[j] # s[i]
  <2>1. ASSUME NEW k \in 1..Len(t), k < i PROVE k \in 1..Len(s) /\ t[k] = s[k] /\ s[k] # s[i]
    BY <1>1, <2>1
  <2>2. ASSUME NEW k \in 1..Len(t), ~(k < i)
        PROVE  k + 1 \in 1..Len(s) /\ t[k] = s[k + 1] /\ s[k + 1] # s[i]
    BY <1>1, <2>2
  <2> QED BY <2>1, <2>2
<1>4. IsInjective(t)
  BY <1>1 DEF IsInjective
<1>5. /\ \A e : e \in ToSet(t) <=> \E k \in 1..Len(t) : t[k] = e
      /\ \A e : e \in ToSet(s) <=> \E k \in 1..Len(s) : s[k] = e
  BY InToSet
<1>6. \A e \in ToSet(t) : e \in ToSet(s) /\ e # s[i]
  BY <1>3, <1>5
<1>7. \A e \in ToSet(s) : e # s[i] => e \in ToSet(t)
  BY <1>2, <1>5
<1> QED BY <1>4, <1>5, <1>6, <1>7

(* What is left when the element at i is taken.                             *)
LEMMA SpliceAt ==
  ASSUME NEW S, NEW s \in Seq(S), NEW i \in 1..Len(s)
  PROVE  RemoveAt(s, i) \in Seq(S) /\ Without(s, i, RemoveAt(s, i))
<1> DEFINE a == SubSeq(s, 1, i - 1)
           b == SubSeq(s, i + 1, Len(s))
<1>1. Len(s) \in Nat /\ \A j \in 1..Len(s) : s[j] \in S
  BY LenProperties, ElementOfSeq
<1>2. a \in Seq(S) /\ Len(a) = i - 1 /\ \A j \in 1..(i - 1) : a[j] = s[j]
  BY <1>1, SubSeqProperties
<1>3. b \in Seq(S) /\ Len(b) = Len(s) - i /\ \A j \in 1..(Len(s) - i) : b[j] = s[i + j]
  BY <1>1, SubSeqProperties
<1>4. RemoveAt(s, i) = a \o b
  BY DEF RemoveAt
<1> HIDE DEF a, b
<1>5. /\ a \o b \in Seq(S) /\ Len(a \o b) = Len(s) - 1
      /\ \A j \in 1..(Len(s) - 1) : (a \o b)[j] = IF j < i THEN a[j] ELSE b[j - (i - 1)]
  <2>1. /\ a \o b \in Seq(S) /\ Len(a \o b) = Len(a) + Len(b)
        /\ \A j \in 1 .. Len(a) + Len(b) : (a \o b)[j] = IF j <= Len(a) THEN a[j] ELSE b[j - Len(a)]
    BY <1>2, <1>3, ConcatProperties
  <2>2. Len(a) + Len(b) = Len(s) - 1 /\ \A j \in 1..(Len(s) - 1) : j <= Len(a) <=> j < i
    BY <1>1, <1>2, <1>3
  <2> QED BY <1>2, <2>1, <2>2
<1> QED BY <1>1, <1>2, <1>3, <1>4, <1>5 DEF Without

LEMMA SpliceInjective ==
  ASSUME NEW S, NEW s \in Seq(S), NEW i \in 1..Len(s), IsInjective(s)
  PROVE  /\ RemoveAt(s, i) \in Seq(S)
         /\ s[i] \in ToSet(s)
         /\ IsInjective(RemoveAt(s, i))
         /\ ToSet(RemoveAt(s, i)) = ToSet(s) \ {s[i]}
BY SpliceAt, PlaceGone

-----------------------------------------------------------------------------
(* The invariant.                                                           *)

(* No resource has two entries, and only entries have an inUse flag.        *)
Places ==
  /\ IsInjective(entries)
  /\ used \subseteq ToSet(entries)
  /\ \A r \in ToSet(entries) : state[r] # "new"
  /\ \A b \in Borrowers : pc[b] = "holding" => res[b] \in Resources /\ state[res[b]] # "new"

(* Until the pool is closed the entries are the open resources, which is    *)
(* what lets close() find them all.                                         *)
EntriesAreOpen ==
  ~closed => /\ cursor = 0
             /\ \A r \in Resources : state[r] = "open" <=> r \in ToSet(entries)

(* While close() runs, what is open is still ahead of it.                   *)
AheadOfClose ==
  closed /\ cursor > 0 /\ ~skipped =>
    /\ cursor <= Len(entries) + 1
    /\ \A r \in Resources : state[r] = "open" =>
         r \in late \/ \E i \in 1..Len(entries) : i >= cursor /\ entries[i] = r

PoolInv ==
  /\ TypeOK
  /\ Places
  /\ EntriesAreOpen
  /\ HeldIsSafe
  /\ AheadOfClose
  /\ CloseReachesAll

LEMMA InitPoolInv == Init => PoolInv
<1> SUFFICES ASSUME Init PROVE PoolInv
  OBVIOUS
<1>1. ToSet(entries) = {} /\ entries \in Seq(Resources) /\ IsInjective(entries)
  BY EmptySeq DEF Init, ToSet, IsInjective
<1>2. TypeOK
  BY <1>1 DEF Init, TypeOK
<1>3. Places /\ EntriesAreOpen /\ HeldIsSafe
  BY <1>1 DEF Init, Places, EntriesAreOpen, HeldIsSafe
<1>4. AheadOfClose /\ CloseReachesAll
  BY DEF Init, AheadOfClose, CloseReachesAll
<1> QED BY <1>2, <1>3, <1>4 DEF PoolInv

(* A borrower that has nothing, before and after: the pool is as it was.    *)
LEMMA QuietStep ==
  ASSUME PoolInv, UNCHANGED <<entries, used, closed, cursor, state, res, skipped, late>>,
         pc' \in [Borrowers -> {"idle", "creating", "waiting", "holding"}],
         peak' \in Nat,
         \A b \in Borrowers : pc'[b] = "holding" => pc[b] = "holding"
  PROVE  PoolInv'
<1> USE DEF PoolInv
<1>1. TypeOK'
  BY DEF TypeOK
<1>2. Places' /\ EntriesAreOpen' /\ HeldIsSafe'
  BY DEF Places, EntriesAreOpen, HeldIsSafe
<1>3. AheadOfClose' /\ CloseReachesAll'
  BY DEF AheadOfClose, CloseReachesAll
<1> QED BY <1>1, <1>2, <1>3

(* An idle entry is marked and handed out.                                  *)
LEMMA TakeStep ==
  ASSUME PoolInv, NEW b \in Borrowers, pc[b] # "holding", TakeFree(b),
         UNCHANGED <<entries, closed, cursor, state, histories>>
  PROVE  PoolInv'
<1> USE DEF PoolInv, histories
<1>1. PICK i \in Free : /\ used' = used \cup {entries[i]}
                        /\ res' = [res EXCEPT ![b] = entries[i]]
                        /\ pc' = [pc EXCEPT ![b] = "holding"]
  BY DEF TakeFree
<1> DEFINE r == entries[i]
<1>2. r \in ToSet(entries) /\ r \in Resources /\ r \notin used
  BY InToSet, ToSetSubset DEF Free, TypeOK
<1>3. used' = used \cup {r} /\ res' = [res EXCEPT ![b] = r]
  BY <1>1
<1> HIDE DEF r
<1>4. res'[b] = r /\ \A c \in Borrowers : c # b => pc'[c] = pc[c] /\ res'[c] = res[c]
  BY <1>1, <1>3 DEF TypeOK
<1>5. TypeOK'
  BY <1>1, <1>2, <1>3 DEF TypeOK
<1>6. Places'
  BY <1>2, <1>3, <1>4 DEF Places
<1>7. HeldIsSafe'
  <2> SUFFICES ASSUME ~closed PROVE HeldIsSafe'
    BY DEF HeldIsSafe
  <2>1. \A c \in Borrowers : c # b /\ pc[c] = "holding" => res[c] \in used
    BY DEF HeldIsSafe
  <2>2. state[r] = "open"
    BY <1>2 DEF EntriesAreOpen
  <2> QED BY <1>2, <1>3, <1>4, <2>1, <2>2 DEF HeldIsSafe
<1>8. EntriesAreOpen' /\ AheadOfClose' /\ CloseReachesAll'
  BY DEF EntriesAreOpen, AheadOfClose, CloseReachesAll
<1> QED BY <1>5, <1>6, <1>7, <1>8

(* A new resource enters the array behind the others.                       *)
LEMMA CreatedStep ==
  ASSUME PoolInv, NEW b \in Borrowers, Created(b)
  PROVE  PoolInv'
<1> USE DEF PoolInv
<1>1. PICK r \in Resources :
        /\ state[r] = "new"
        /\ state' = [state EXCEPT ![r] = "open"]
        /\ entries' = Append(entries, r)
        /\ used' = used \cup {r}
        /\ res' = [res EXCEPT ![b] = r]
        /\ late' = IF closed /\ cursor = 0 THEN late \cup {r} ELSE late
  BY DEF Created
<1>2. /\ pc[b] = "creating" /\ pc' = [pc EXCEPT ![b] = "holding"]
      /\ UNCHANGED <<closed, cursor, peak, skipped>>
  BY DEF Created
<1>3. r \notin ToSet(entries)
  BY <1>1 DEF Places
<1>4. entries' \in Seq(Resources) /\ IsInjective(entries') /\ ToSet(entries') = ToSet(entries) \cup {r}
  BY <1>1, <1>3, PushInjective DEF TypeOK, Places
<1>5. state'[r] = "open" /\ \A q \in Resources : q # r => state'[q] = state[q]
  BY <1>1 DEF TypeOK
<1>6. res'[b] = r /\ \A c \in Borrowers : c # b => pc'[c] = pc[c] /\ res'[c] = res[c]
  BY <1>1, <1>2 DEF TypeOK
<1>7. \A c \in Borrowers : pc[c] = "holding" => res[c] # r /\ res[c] \in Resources
  BY <1>1 DEF Places
<1>8. TypeOK'
  <2>1. state' \in [Resources -> {"new", "open", "closed"}] /\ late' \in SUBSET Resources
    BY <1>1 DEF TypeOK
  <2> QED BY <1>1, <1>2, <1>4, <2>1 DEF TypeOK
<1>9. Places'
  <2>1. \A q \in ToSet(entries') : state'[q] # "new"
    BY <1>4, <1>5, ToSetSubset DEF TypeOK, Places
  <2>2. \A c \in Borrowers : pc'[c] = "holding" =>
           res'[c] \in Resources /\ state'[res'[c]] # "new"
    BY <1>5, <1>6, <1>7 DEF Places
  <2> QED BY <1>1, <1>4, <2>1, <2>2 DEF Places
<1>10. EntriesAreOpen'
  BY <1>2, <1>4, <1>5 DEF EntriesAreOpen
<1>11. HeldIsSafe'
  <2> SUFFICES ASSUME ~closed PROVE HeldIsSafe'
    BY <1>2 DEF HeldIsSafe
  <2> QED BY <1>1, <1>4, <1>5, <1>6, <1>7 DEF HeldIsSafe
<1>12. AheadOfClose'
  <2> SUFFICES ASSUME closed, cursor > 0, ~skipped
               PROVE  /\ cursor <= Len(entries') + 1
                      /\ \A q \in Resources : state'[q] = "open" =>
                           q \in late' \/ \E i \in 1..Len(entries') : i >= cursor /\ entries'[i] = q
    BY <1>2 DEF AheadOfClose
  <2>1. /\ Len(entries') = Len(entries) + 1 /\ Len(entries) \in Nat
        /\ \A i \in 1..Len(entries) : entries'[i] = entries[i]
        /\ entries'[Len(entries) + 1] = r
    BY <1>1, AppendProperties, LenProperties DEF TypeOK
  <2>2. cursor <= Len(entries) + 1 /\ cursor \in Nat
    BY DEF AheadOfClose, TypeOK
  <2>3. ASSUME NEW q \in Resources, state'[q] = "open", q # r
        PROVE  q \in late' \/ \E i \in 1..Len(entries') : i >= cursor /\ entries'[i] = q
    <3>1. q \in late \/ \E i \in 1..Len(entries) : i >= cursor /\ entries[i] = q
      BY <1>5, <2>3 DEF AheadOfClose
    <3>2. CASE q \in late
      BY <1>1, <3>2
    <3>3. ASSUME NEW i \in 1..Len(entries), i >= cursor, entries[i] = q
          PROVE  \E j \in 1..Len(entries') : j >= cursor /\ entries'[j] = q
      <4>1. i \in 1..Len(entries') /\ entries'[i] = q
        BY <2>1, <3>3
      <4> QED BY <3>3, <4>1
    <3> QED BY <3>1, <3>2, <3>3
  <2>4. Len(entries) + 1 \in 1..Len(entries') /\ Len(entries) + 1 >= cursor
    BY <2>1, <2>2
  <2> QED BY <2>1, <2>2, <2>3, <2>4
<1>13. CloseReachesAll'
  BY <1>1, <1>2, <1>5 DEF CloseReachesAll
<1> QED BY <1>8, <1>9, <1>10, <1>11, <1>12, <1>13

(* release() of the one borrower that holds the resource.                   *)
LEMMA ReleaseStep ==
  ASSUME PoolInv, NEW b \in Borrowers, Release(b)
  PROVE  PoolInv'
<1> USE DEF PoolInv
<1>1. /\ pc[b] = "holding" /\ used' = used \ {res[b]}
      /\ pc' = [pc EXCEPT ![b] = "idle"] /\ res' = [res EXCEPT ![b] = NoResource]
      /\ UNCHANGED <<entries, closed, cursor, state, peak, skipped, late>>
  BY DEF Release, histories
<1>2. pc'[b] = "idle" /\ \A c \in Borrowers : c # b => pc'[c] = pc[c] /\ res'[c] = res[c]
  BY <1>1 DEF TypeOK
<1>3. TypeOK'
  BY <1>1 DEF TypeOK
<1>4. Places'
  BY <1>1, <1>2 DEF Places
<1>5. HeldIsSafe'
  BY <1>1, <1>2 DEF HeldIsSafe
<1>6. EntriesAreOpen' /\ AheadOfClose' /\ CloseReachesAll'
  BY <1>1 DEF EntriesAreOpen, AheadOfClose, CloseReachesAll
<1> QED BY <1>3, <1>4, <1>5, <1>6

(* remove() of a resource that is not in the array any more.                *)
LEMMA DiscardGoneStep ==
  ASSUME PoolInv, NEW b \in Borrowers, Discard(b), res[b] \notin ToSet(entries)
  PROVE  PoolInv'
<1> USE DEF PoolInv
<1>1. /\ pc[b] = "holding" /\ used' = used \ {res[b]}
      /\ state' = [state EXCEPT ![res[b]] = "closed"]
      /\ pc' = [pc EXCEPT ![b] = "idle"] /\ res' = [res EXCEPT ![b] = NoResource]
      /\ UNCHANGED <<closed, cursor, peak, late>>
  BY DEF Discard
<1>2. UNCHANGED <<entries, skipped>>
  BY InToSet DEF Discard, TypeOK
<1>3. closed
  BY <1>1 DEF HeldIsSafe
<1>4. \A r \in Resources : state'[r] = "open" => state[r] = "open"
  BY <1>1 DEF TypeOK
<1>5. TypeOK'
  <2>1. state' \in [Resources -> {"new", "open", "closed"}]
    BY <1>1 DEF TypeOK
  <2> QED BY <1>1, <1>2, <2>1 DEF TypeOK
<1>6. Places'
  BY <1>1, <1>2, ToSetSubset DEF Places, TypeOK
<1>7. HeldIsSafe' /\ EntriesAreOpen'
  BY <1>1, <1>3 DEF HeldIsSafe, EntriesAreOpen
<1>8. AheadOfClose' /\ CloseReachesAll'
  BY <1>1, <1>2, <1>4 DEF AheadOfClose, CloseReachesAll
<1> QED BY <1>5, <1>6, <1>7, <1>8

(* An entry is spliced out of an array that close() may be going through.   *)
(* What is behind the index of close() stays behind it, and so does what is *)
(* ahead, unless the entry was behind.                                      *)
LEMMA SpliceUnderClose ==
  ASSUME PoolInv, NEW i \in 1..Len(entries), entries' = RemoveAt(entries, i),
         state' = [state EXCEPT ![entries[i]] = "closed"],
         skipped' = (skipped \/ i < cursor), UNCHANGED <<closed, cursor, late>>
  PROVE  AheadOfClose'
<1> USE DEF PoolInv
<1>0. ~(i < cursor) => i >= cursor
  BY LenProperties DEF TypeOK
<1> SUFFICES ASSUME closed, cursor > 0, ~skipped, i >= cursor
             PROVE  /\ cursor <= Len(entries') + 1
                    /\ \A q \in Resources : state'[q] = "open" =>
                         q \in late \/ \E j \in 1..Len(entries') : j >= cursor /\ entries'[j] = q
  BY <1>0 DEF AheadOfClose
<1>1. /\ Len(entries') = Len(entries) - 1
      /\ \A j \in 1..(Len(entries) - 1) :
           entries'[j] = IF j < i THEN entries[j] ELSE entries[j + 1]
  BY SpliceAt DEF Without, TypeOK
<1>2. Len(entries) \in Nat /\ cursor \in Nat /\ cursor <= Len(entries')  + 1
  BY <1>1, LenProperties DEF TypeOK
<1>3. ASSUME NEW q \in Resources, state'[q] = "open", q \notin late
      PROVE  \E j \in 1..Len(entries') : j >= cursor /\ entries'[j] = q
  <2>1. state[q] = "open" /\ q # entries[i]
    BY <1>3, ElementOfSeq DEF TypeOK
  <2>2. PICK k \in 1..Len(entries) : k >= cursor /\ entries[k] = q
    BY <1>3, <2>1 DEF AheadOfClose
  <2>3. k # i
    BY <2>1, <2>2
  <2>4. CASE k < i
    <3>1. k \in 1..Len(entries') /\ entries'[k] = q
      BY <1>1, <1>2, <2>2, <2>4
    <3> QED BY <2>2, <3>1
  <2>5. CASE k > i
    <3>1. k - 1 \in 1..Len(entries') /\ ~(k - 1 < i) /\ (k - 1) + 1 = k /\ k - 1 >= cursor
      BY <1>1, <1>2, <2>5
    <3>2. entries'[k - 1] = q
      BY <1>1, <2>2, <3>1
    <3> QED BY <3>1, <3>2
  <2> QED BY <2>3, <2>4, <2>5
<1> QED BY <1>2, <1>3

(* remove() of a resource in the array.                                     *)
LEMMA DiscardStep ==
  ASSUME PoolInv, NEW b \in Borrowers, Discard(b), res[b] \in ToSet(entries)
  PROVE  PoolInv'
<1> USE DEF PoolInv
<1>1. PICK i \in 1..Len(entries) : /\ entries[i] = res[b]
                                   /\ entries' = RemoveAt(entries, i)
                                   /\ skipped' = (skipped \/ i < cursor)
  BY DEF Discard
<1> DEFINE r == res[b]
<1>2. /\ pc[b] = "holding" /\ used' = used \ {r}
      /\ state' = [state EXCEPT ![r] = "closed"]
      /\ pc' = [pc EXCEPT ![b] = "idle"] /\ res' = [res EXCEPT ![b] = NoResource]
      /\ UNCHANGED <<closed, cursor, peak, late>>
  BY DEF Discard
<1>3. /\ entries' \in Seq(Resources) /\ IsInjective(entries')
      /\ ToSet(entries') = ToSet(entries) \ {r} /\ r \in Resources
  BY <1>1, SpliceInjective, ToSetSubset DEF TypeOK, Places
<1>4. AheadOfClose'
  BY <1>1, <1>2, SpliceUnderClose
<1> HIDE DEF r
<1>5. state'[r] = "closed" /\ \A q \in Resources : q # r => state'[q] = state[q]
  BY <1>2, <1>3 DEF TypeOK
<1>6. pc'[b] = "idle" /\ \A c \in Borrowers : c # b => pc'[c] = pc[c] /\ res'[c] = res[c]
  BY <1>2 DEF TypeOK
<1>7. TypeOK'
  <2>1. state' \in [Resources -> {"new", "open", "closed"}] /\ skipped' \in BOOLEAN
    BY <1>1, <1>2 DEF TypeOK
  <2> QED BY <1>2, <1>3, <2>1 DEF TypeOK
<1>8. Places'
  BY <1>2, <1>3, <1>5, <1>6, ToSetSubset DEF Places, TypeOK
<1>9. HeldIsSafe'
  <2> SUFFICES ASSUME ~closed PROVE HeldIsSafe'
    BY <1>2 DEF HeldIsSafe
  <2>1. \A c \in Borrowers : c # b /\ pc[c] = "holding" => res[c] # r
    BY <1>2 DEF HeldIsSafe, r
  <2> QED BY <1>2, <1>3, <1>5, <1>6, <2>1 DEF HeldIsSafe, Places
<1>10. EntriesAreOpen'
  BY <1>2, <1>3, <1>5 DEF EntriesAreOpen
<1>11. CloseReachesAll'
  BY <1>1, <1>2, <1>3, <1>5 DEF CloseReachesAll, TypeOK
<1> QED BY <1>4, <1>7, <1>8, <1>9, <1>10, <1>11

LEMMA ReapStep ==
  ASSUME PoolInv, Reap
  PROVE  PoolInv'
<1> USE DEF PoolInv
<1>1. PICK i \in Free : /\ entries' = RemoveAt(entries, i)
                        /\ state' = [state EXCEPT ![entries[i]] = "closed"]
  BY DEF Reap
<1> DEFINE r == entries[i]
<1>2. ~closed /\ UNCHANGED <<used, closed, cursor, pc, res, peak, skipped, late>>
  BY DEF Reap, histories
<1>3. /\ entries' \in Seq(Resources) /\ IsInjective(entries')
      /\ ToSet(entries') = ToSet(entries) \ {r} /\ r \in Resources /\ r \notin used
  BY <1>1, SpliceInjective, ToSetSubset DEF TypeOK, Places, Free
<1>4. state' = [state EXCEPT ![r] = "closed"]
  BY <1>1
<1> HIDE DEF r
<1>5. state'[r] = "closed" /\ \A q \in Resources : q # r => state'[q] = state[q]
  BY <1>3, <1>4 DEF TypeOK
<1>6. TypeOK'
  <2>1. state' \in [Resources -> {"new", "open", "closed"}]
    BY <1>4 DEF TypeOK
  <2> QED BY <1>2, <1>3, <2>1 DEF TypeOK
<1>7. Places'
  BY <1>2, <1>3, <1>5, ToSetSubset DEF Places, TypeOK
<1>8. HeldIsSafe'
  BY <1>2, <1>3, <1>5 DEF HeldIsSafe, Places
<1>9. EntriesAreOpen'
  BY <1>2, <1>3, <1>5 DEF EntriesAreOpen
<1>10. AheadOfClose' /\ CloseReachesAll'
  BY <1>2 DEF AheadOfClose, CloseReachesAll
<1> QED BY <1>6, <1>7, <1>8, <1>9, <1>10

(* One round of close(): what is open is ahead of index i before it, and    *)
(* ahead of the next index after it.                                        *)
LEMMA DestroyStep ==
  ASSUME PoolInv, NEW i \in Nat \ {0}, DestroyAt(i), closed',
         UNCHANGED <<pc, res, histories>>,
         ~skipped =>
           /\ i <= Len(entries) + 1
           /\ \A r \in Resources : state[r] = "open" =>
                r \in late \/ \E j \in 1..Len(entries) : j >= i /\ entries[j] = r
  PROVE  PoolInv'
<1> USE DEF PoolInv, histories
<1>0. Len(entries) \in Nat
  BY LenProperties DEF TypeOK
<1>1. EntriesAreOpen' /\ HeldIsSafe' /\ closed' = TRUE
  BY DEF EntriesAreOpen, HeldIsSafe
<1>2. CASE i <= Len(entries)
  <2> DEFINE r == entries[i]
  <2>1. cursor' = i + 1 /\ state' = [state EXCEPT ![r] = "closed"] /\ UNCHANGED <<entries, used>>
    BY <1>2 DEF DestroyAt
  <2>2. r \in Resources
    BY <1>0, <1>2, ElementOfSeq DEF TypeOK
  <2>3. \A q \in Resources : state'[q] = "open" => state[q] = "open" /\ q # r
    BY <2>1, <2>2 DEF TypeOK
  <2>4. TypeOK'
    <3>1. state' \in [Resources -> {"new", "open", "closed"}]
      BY <2>1 DEF TypeOK
    <3> QED BY <2>1, <3>1 DEF TypeOK
  <2>5. Places'
    <3> HIDE DEF r
    <3> QED BY <2>1, <2>2, ToSetSubset DEF Places, TypeOK
  <2>6. AheadOfClose'
    <3> SUFFICES ASSUME ~skipped
                 PROVE  /\ i + 1 <= Len(entries) + 1
                        /\ \A q \in Resources : state'[q] = "open" =>
                             q \in late \/ \E j \in 1..Len(entries) : j >= i + 1 /\ entries[j] = q
      BY <2>1 DEF AheadOfClose
    <3>1. ASSUME NEW j \in 1..Len(entries), j >= i, entries[j] # r PROVE j >= i + 1
      BY <3>1
    <3> QED BY <1>0, <1>2, <2>3, <3>1
  <2>7. CloseReachesAll'
    BY <2>1 DEF CloseReachesAll
  <2> QED BY <1>1, <2>4, <2>5, <2>6, <2>7
<1>3. CASE ~(i <= Len(entries))
  <2>1. cursor' = 0 /\ entries' = <<>> /\ used' = {} /\ state' = state
    BY <1>3 DEF DestroyAt
  <2>2. entries' \in Seq(Resources) /\ ToSet(entries') = {} /\ IsInjective(entries')
    BY <2>1, EmptySeq DEF ToSet, IsInjective
  <2>3. TypeOK'
    BY <2>1, <2>2 DEF TypeOK
  <2>4. Places'
    BY <2>1, <2>2 DEF Places
  <2>5. AheadOfClose'
    BY <2>1 DEF AheadOfClose
  <2>6. CloseReachesAll'
    <3>1. \A j \in 1..Len(entries) : ~(j >= i)
      BY <1>0, <1>3
    <3> QED BY <2>1, <3>1 DEF CloseReachesAll
  <2> QED BY <1>1, <2>3, <2>4, <2>5, <2>6
<1> QED BY <1>2, <1>3

LEMMA CloseStep ==
  ASSUME PoolInv, Close
  PROVE  PoolInv'
<1> USE DEF PoolInv
<1>1. cursor = 0 /\ closed' /\ DestroyAt(1) /\ UNCHANGED <<pc, res, histories>>
  BY DEF Close
<1>2. ASSUME ~skipped, NEW r \in Resources, state[r] = "open"
      PROVE  r \in late \/ \E j \in 1..Len(entries) : j >= 1 /\ entries[j] = r
  <2>1. CASE closed
    BY <1>1, <1>2, <2>1 DEF CloseReachesAll
  <2>2. CASE ~closed
    <3>1. r \in ToSet(entries)
      BY <1>2, <2>2 DEF EntriesAreOpen
    <3> QED BY <3>1, InToSet DEF TypeOK
  <2> QED BY <2>1, <2>2
<1>3. 1 <= Len(entries) + 1 /\ 1 \in Nat \ {0}
  BY LenProperties DEF TypeOK
<1> QED BY <1>1, <1>2, <1>3, DestroyStep

LEMMA CloseNextStep ==
  ASSUME PoolInv, CloseNext
  PROVE  PoolInv'
<1> USE DEF PoolInv
<1>1. cursor > 0 /\ DestroyAt(cursor) /\ UNCHANGED <<closed, pc, res, histories>>
  BY DEF CloseNext
<1>2. closed /\ cursor \in Nat \ {0}
  BY <1>1 DEF EntriesAreOpen, TypeOK
<1> QED BY <1>1, <1>2, DestroyStep DEF AheadOfClose

-----------------------------------------------------------------------------
(* Every step, one per action.                                              *)

LEMMA NextPoolInv ==
  ASSUME PoolInv, [Next]_vars
  PROVE  PoolInv'
<1> USE DEF PoolInv
<1>1. ASSUME NEW b \in Borrowers, Acquire(b) PROVE PoolInv'
  <2>1. CASE TakeFree(b)
    BY <1>1, <2>1, TakeStep DEF Acquire, histories, StartCreating, CallFactory, StartWaiting, TakeFree
  <2>2. CASE ~TakeFree(b)
    <3>1. /\ UNCHANGED <<entries, used, closed, cursor, state, res, skipped, late>>
          /\ \E q \in {"creating", "waiting"} : pc' = [pc EXCEPT ![b] = q]
      BY <1>1, <2>2 DEF Acquire, StartCreating, CallFactory, StartWaiting
    <3>2. IsFiniteSet(Creating \cup {b})
      BY AS400PoolAssumption, FS_Subset DEF Creating
    <3>3. Cardinality(Creating \cup {b}) \in Nat
      BY <3>2, FS_CardinalityType
    <3>4. peak' \in Nat
      BY <1>1, <2>2, <3>3 DEF Acquire, StartCreating, CallFactory, StartWaiting, TypeOK
    <3> QED BY <3>1, <3>4, QuietStep DEF TypeOK
  <2> QED BY <2>1, <2>2
<1>2. ASSUME NEW b \in Borrowers, CreateFails(b) PROVE PoolInv'
  BY <1>2, QuietStep DEF CreateFails, TypeOK, histories
<1>3. ASSUME NEW b \in Borrowers, Poll(b) PROVE PoolInv'
  BY <1>3, TakeStep DEF Poll
<1>4. ASSUME NEW b \in Borrowers, PollClosed(b) PROVE PoolInv'
  BY <1>4, QuietStep DEF PollClosed, TypeOK, histories
<1>5. CASE UNCHANGED vars
  BY <1>5, QuietStep DEF vars, TypeOK, histories
<1> QED BY <1>1, <1>2, <1>3, <1>4, <1>5, CreatedStep, ReleaseStep, DiscardGoneStep,
           DiscardStep, ReapStep, CloseStep, CloseNextStep
        DEF Next, BorrowerStep

LEMMA PoolInvAlways == Spec => []PoolInv
<1>1. Init => PoolInv
  BY InitPoolInv
<1>2. PoolInv /\ [Next]_vars => PoolInv'
  BY NextPoolInv
<1> QED BY <1>1, <1>2, PTL DEF Spec

-----------------------------------------------------------------------------
(* The limit.                                                               *)

LEMMA CreatingIsFinite ==
  ASSUME TypeOK
  PROVE  /\ IsFiniteSet(Creating)
         /\ Cardinality(Creating) \in Nat
         /\ Len(entries) \in Nat
<1>1. IsFiniteSet(Creating)
  BY AS400PoolAssumption, FS_Subset DEF Creating
<1> QED BY <1>1, FS_CardinalityType, LenProperties DEF TypeOK

(* Nobody goes into a factory, and the array does not grow.                 *)
LEMMA NoGrowth ==
  ASSUME TypeOK, TypeOK', ExcessIsOverlap, peak' = peak,
         Creating' \subseteq Creating, Len(entries') <= Len(entries)
  PROVE  ExcessIsOverlap'
<1>1. IsFiniteSet(Creating') /\ Cardinality(Creating') \in Nat /\ Len(entries') \in Nat
  BY CreatingIsFinite, FS_Subset, FS_CardinalityType, LenProperties DEF TypeOK
<1>2. Cardinality(Creating') <= Cardinality(Creating)
  BY CreatingIsFinite, FS_Subset
<1>3. MaxSize \in Nat /\ peak \in Nat
  BY AS400PoolAssumption DEF TypeOK
<1> QED BY <1>1, <1>2, <1>3, CreatingIsFinite DEF ExcessIsOverlap

LEMMA NextMax ==
  ASSUME TypeOK, TypeOK', ExcessIsOverlap, [Next]_vars
  PROVE  ExcessIsOverlap'
<1>0. MaxSize \in Nat
  BY AS400PoolAssumption
<1>1. ASSUME NEW b \in Borrowers, Acquire(b) PROVE ExcessIsOverlap'
  <2>1. CASE StartCreating(b)
    <3>1. pc[b] = "idle" /\ pc' = [pc EXCEPT ![b] = "creating"]
      BY <1>1, <2>1 DEF Acquire, StartCreating, CallFactory
    <3>2. Creating' = Creating \cup {b}
      BY <3>1 DEF Creating, TypeOK
    <3>3. Len(entries) < MaxSize /\ entries' = entries
      BY <1>1, <2>1 DEF Acquire, StartCreating
    <3>4. peak' = IF Cardinality(Creating') > peak THEN Cardinality(Creating') ELSE peak
      BY <2>1, <3>2 DEF StartCreating, CallFactory
    <3>5. Cardinality(Creating') \in Nat
      BY <3>2, CreatingIsFinite, FS_AddElement, FS_CardinalityType
    <3>6. Cardinality(Creating') <= peak'
      BY <3>4, <3>5 DEF TypeOK
    <3>7. peak' \in Nat
      BY DEF TypeOK
    <3>8. Len(entries') + Cardinality(Creating') <= MaxSize + peak' - 1
      BY <1>0, <3>3, <3>5, <3>6, <3>7, CreatingIsFinite
    <3> QED BY <3>8 DEF ExcessIsOverlap
  <2>2. CASE ~StartCreating(b)
    <3>1. peak' = peak /\ entries' = entries
      BY <1>1, <2>2 DEF Acquire, StartWaiting
    <3>2. Creating' \subseteq Creating
      BY <1>1, <2>2 DEF Acquire, TakeFree, StartWaiting, Creating, TypeOK
    <3> QED BY <3>1, <3>2, CreatingIsFinite, NoGrowth
  <2> QED BY <2>1, <2>2
<1>2. ASSUME NEW b \in Borrowers, Created(b) PROVE ExcessIsOverlap'
  <2>1. /\ b \in Creating
        /\ Creating' = Creating \ {b}
        /\ peak' = peak
    BY <1>2 DEF Created, Creating, TypeOK
  <2>2. Cardinality(Creating') = Cardinality(Creating) - 1
    BY <2>1, CreatingIsFinite, FS_RemoveElement
  <2>3. Len(entries') = Len(entries) + 1
    BY <1>2, AppendProperties DEF Created, TypeOK
  <2> QED BY <1>0, <2>1, <2>2, <2>3, CreatingIsFinite DEF ExcessIsOverlap
<1>3. ASSUME NEW b \in Borrowers,
             CreateFails(b) \/ Poll(b) \/ PollClosed(b) \/ Release(b)
      PROVE  ExcessIsOverlap'
  <2>1. peak' = peak /\ entries' = entries
    BY <1>3 DEF CreateFails, Poll, PollClosed, Release, histories
  <2>2. Creating' \subseteq Creating
    BY <1>3 DEF CreateFails, Poll, TakeFree, PollClosed, Release, Creating, TypeOK
  <2> QED BY <2>1, <2>2, CreatingIsFinite, NoGrowth
<1>4. ASSUME NEW i \in 1..Len(entries) PROVE Len(RemoveAt(entries, i)) <= Len(entries)
  <2>1. Len(RemoveAt(entries, i)) = Len(entries) - 1
    BY SpliceAt DEF Without, TypeOK
  <2> QED BY <2>1, CreatingIsFinite
<1>5. ASSUME NEW b \in Borrowers, Discard(b) PROVE ExcessIsOverlap'
  <2>1. peak' = peak /\ Creating' \subseteq Creating
    BY <1>5 DEF Discard, Creating, TypeOK
  <2>2. Len(entries') <= Len(entries)
    BY <1>4, <1>5, CreatingIsFinite DEF Discard
  <2> QED BY <2>1, <2>2, NoGrowth
<1>6. CASE Reap
  <2>1. peak' = peak /\ Creating' = Creating
    BY <1>6 DEF Reap, Creating, histories
  <2>2. Len(entries') <= Len(entries)
    BY <1>4, <1>6 DEF Reap, Free
  <2> QED BY <2>1, <2>2, NoGrowth
<1>7. CASE Close \/ CloseNext
  <2>1. peak' = peak /\ Creating' = Creating
    BY <1>7 DEF Close, CloseNext, Creating, histories
  <2>2. entries' = entries \/ entries' = <<>>
    BY <1>7 DEF Close, CloseNext, DestroyAt
  <2>3. Len(entries') <= Len(entries)
    BY <2>2, CreatingIsFinite, EmptySeq
  <2> QED BY <2>1, <2>3, NoGrowth
<1>8. CASE UNCHANGED vars
  BY <1>8, CreatingIsFinite, NoGrowth DEF vars, histories, Creating
<1> QED BY <1>1, <1>2, <1>3, <1>5, <1>6, <1>7, <1>8 DEF Next, BorrowerStep

-----------------------------------------------------------------------------
(* The theorems.                                                            *)

(* Every variable keeps its type.                                           *)
THEOREM PoolTypeCorrect == Spec => []TypeOK
<1>1. PoolInv => TypeOK
  BY DEF PoolInv
<1> QED BY <1>1, PoolInvAlways, PTL

(* acquire(), release(), remove() and the reaper never take from a borrower *)
(* what it holds, nor give it to another one, until the pool is closed.     *)
THEOREM HeldStaysSafe == Spec => []HeldIsSafe
<1>1. PoolInv => HeldIsSafe
  BY DEF PoolInv
<1> QED BY <1>1, PoolInvAlways, PTL

(* close() closes what is in the array when it begins and what enters it    *)
(* while it runs.                                                           *)
THEOREM CloseFindsAll == Spec => []CloseReachesAll
<1>1. PoolInv => CloseReachesAll
  BY DEF PoolInv
<1> QED BY <1>1, PoolInvAlways, PTL

(* In every history the array and the factories together exceed opts.max by *)
(* less than the number of factory calls that were once under way together. *)
THEOREM MaxKept == Spec => []ExcessIsOverlap
<1>1. Init => ExcessIsOverlap
  <2> SUFFICES ASSUME Init PROVE ExcessIsOverlap
    OBVIOUS
  <2>1. Creating = {} /\ Len(entries) = 0 /\ peak = 0
    BY EmptySeq DEF Init, Creating
  <2> QED BY <2>1, FS_EmptySet, AS400PoolAssumption DEF ExcessIsOverlap
<1>2. PoolInv => TypeOK
  BY DEF PoolInv
<1>3. TypeOK /\ TypeOK' /\ ExcessIsOverlap /\ [Next]_vars => ExcessIsOverlap'
  BY NextMax
<1> QED BY <1>1, <1>2, <1>3, PoolInvAlways, PTL DEF Spec
=============================================================================
