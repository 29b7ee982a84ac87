-------------------------- MODULE DataQueues_proof --------------------------
(***************************************************************************)
(* Proofs about DataQueues, for any number of calls, AS400 objects, keys   *)
(* and connections, whatever the calls ask for.  That a call is answered   *)
(* once, and its request not carried out twice when its connection goes,   *)
(* rests on where the calls stand in the lines; that entries are accounted *)
(* for rests on every call being answered once; the order of the writes    *)
(* rests on the order of the lines.                                        *)
(***************************************************************************)
EXTENDS DataQueues, Integers, SequencesExt, SequenceTheorems, TLAPS

-----------------------------------------------------------------------------
(* Lists without duplicates, and the sets of their elements.                *)

(* The elements of a list, by their index.                                  *)
LEMMA InToSet ==
  ASSUME NEW S, NEW s \in Seq(S), NEW e
  PROVE  e \in ToSet(s) <=> \E i \in 1..Len(s) : s[i] = e
BY DEF ToSet

(* The elements of a list of S are in S.                                    *)
LEMMA ToSetSubset ==
  ASSUME NEW S, NEW s \in Seq(S)
  PROVE  ToSet(s) \subseteq S
BY DEF ToSet

(* A list with a new element at its end.                                    *)
LEMMA PushInjective ==
  ASSUME NEW S, NEW s \in Seq(S), NEW e \in S, IsInjective(s), e \notin ToSet(s)
  PROVE  /\ Append(s, e) \in Seq(S)
         /\ IsInjective(Append(s, e))
         /\ ToSet(Append(s, e)) = ToSet(s) \cup {e}
<1> DEFINE t == Append(s, e)
<1>1. /\ t \in Seq(S) /\ Len(s) \in Nat /\ Len(t) = Len(s) + 1 /\ t[Len(s) + 1] = e
      /\ \A i \in 1..Len(s) : t[i] = s[i]
  BY AppendProperties, LenProperties
<1>2. \A i \in 1..Len(s) : s[i] # e
  BY InToSet
<1> HIDE DEF t
<1>3. IsInjective(t)
  BY <1>1, <1>2 DEF IsInjective
<1>4. \A i \in 1..Len(t) : i \in 1..Len(s) \/ i = Len(s) + 1
  BY <1>1
<1>5. 1..Len(s) \subseteq 1..Len(t) /\ Len(s) + 1 \in 1..Len(t)
  BY <1>1
<1>6. \A d : d \in ToSet(t) <=> \E i \in 1..Len(t) : t[i] = d
  BY <1>1, InToSet
<1>7. \A d : d \in ToSet(s) <=> \E i \in 1..Len(s) : s[i] = d
  BY InToSet
<1>8. \A d : d \in ToSet(t) <=> d \in ToSet(s) \/ d = e
  BY <1>1, <1>4, <1>5, <1>6, <1>7
<1> QED BY <1>1, <1>3, <1>8 DEF t

(* t is s without its element at i.                                         *)
Without(s, i, t) ==
  /\ Len(t) = Len(s) - 1
  /\ \A j \in 1..(Len(s) - 1) : t[j] = IF j < i THEN s[j] ELSE s[j + 1]

LEMMA PlaceGone ==
  ASSUME NEW S, NEW s \in Seq(S), NEW t \in Seq(S), NEW i \in 1..Len(s),
         IsInjective(s), Without(s, i, t)
  PROVE  s[i] \in ToSet(s) /\ IsInjective(t) /\ ToSet(t) = ToSet(s) \ {s[i]}
<1> USE DEF Without
<1>1. Len(s) \in Nat /\ \A j, k \in 1..Len(s) : s[j] = s[k] => j = k
  BY LenProperties DEF IsInjective
<1>2. \A j \in 1..Len(s) : s[j] # s[i] => \E k \in 1..Len(t) : t[k] = s[j]
  <2>1. ASSUME NEW j \in 1..Len(s), j < i PROVE j \in 1..Len(t) /\ t[j] = s[j]
    BY <1>1, <2>1
  <2>2. ASSUME NEW j \in 1..Len(s), j > i PROVE j - 1 \in 1..Len(t) /\ t[j - 1] = s[j]
    BY <1>1, <2>2
  <2>3. \A j \in 1..Len(s) : j < i \/ j > i \/ j = i
    BY <1>1
  <2> QED BY <2>1, <2>2, <2>3
<1>3. \A k \in 1..Len(t) : \E j \in 1..Len(s) : t[k] = s[j] /\ s[j] # s[i]
  <2>1. ASSUME NEW k \in 1..Len(t), k < i PROVE k \in 1..Len(s) /\ t[k] = s[k] /\ s[k] # s[i]
    BY <1>1, <2>1
  <2>2. ASSUME NEW k \in 1..Len(t), ~(k < i)
        PROVE  k + 1 \in 1..Len(s) /\ t[k] = s[k + 1] /\ s[k + 1] # s[i]
    BY <1>1, <2>2
  <2> QED BY <2>1, <2>2
<1>4. IsInjective(t)
  BY <1>1 DEF IsInjective
<1>5. /\ \A e : e \in ToSet(t) <=> \E k \in 1..Len(t) : t[k] = e
      /\ \A e : e \in ToSet(s) <=> \E k \in 1..Len(s) : s[k] = e
  BY InToSet
<1>6. \A e \in ToSet(t) : e \in ToSet(s) /\ e # s[i]
  BY <1>3, <1>5
<1>7. \A e \in ToSet(s) : e # s[i] => e \in ToSet(t)
  BY <1>2, <1>5
<1> QED BY <1>4, <1>5, <1>6, <1>7

(* What is left when the first element is taken.                            *)
LEMMA TailInjective ==
  ASSUME NEW S, NEW s \in Seq(S), s # <<>>, IsInjective(s)
  PROVE  /\ Tail(s) \in Seq(S)
         /\ Head(s) \in ToSet(s)
         /\ IsInjective(Tail(s))
         /\ ToSet(Tail(s)) = ToSet(s) \ {Head(s)}
<1> DEFINE t == Tail(s)
<1>1. PICK i \in 1..Len(s) : i = 1
  BY EmptySeq, LenProperties
<1>2. /\ t \in Seq(S) /\ Head(s) = s[1] /\ Len(t) = Len(s) - 1
      /\ \A j \in 1..(Len(s) - 1) : t[j] = s[j + 1]
  BY HeadTailProperties
<1> HIDE DEF t
<1>3. Without(s, i, t)
  BY <1>1, <1>2 DEF Without
<1>4. s[i] \in ToSet(s) /\ IsInjective(t) /\ ToSet(t) = ToSet(s) \ {s[i]}
  BY <1>2, <1>3, PlaceGone
<1> QED BY <1>1, <1>2, <1>4 DEF t

(* What is left when the element at i is taken.                             *)
LEMMA SpliceAt ==
  ASSUME NEW S, NEW s \in Seq(S), NEW i \in 1..Len(s)
  PROVE  RemoveAt(s, i) \in Seq(S) /\ Without(s, i, RemoveAt(s, i))
<1> DEFINE a == SubSeq(s, 1, i - 1)
           b == SubSeq(s, i + 1, Len(s))
<1>1. Len(s) \in Nat /\ \A j \in 1..Len(s) : s[j] \in S
  BY LenProperties, ElementOfSeq
<1>2. a \in Seq(S) /\ Len(a) = i - 1 /\ \A j \in 1..(i - 1) : a[j] = s[j]
  BY <1>1, SubSeqProperties
<1>3. b \in Seq(S) /\ Len(b) = Len(s) - i /\ \A j \in 1..(Len(s) - i) : b[j] = s[i + j]
  BY <1>1, SubSeqProperties
<1>4. RemoveAt(s, i) = a \o b
  BY DEF RemoveAt
<1> HIDE DEF a, b
<1>5. /\ a \o b \in Seq(S) /\ Len(a \o b) = Len(s) - 1
      /\ \A j \in 1..(Len(s) - 1) : (a \o b)[j] = IF j < i THEN a[j] ELSE b[j - (i - 1)]
  <2>1. /\ a \o b \in Seq(S) /\ Len(a \o b) = Len(a) + Len(b)
        /\ \A j \in 1 .. Len(a) + Len(b) : (a \o b)[j] = IF j <= Len(a) THEN a[j] ELSE b[j - Len(a)]
    BY <1>2, <1>3, ConcatProperties
  <2>2. Len(a) + Len(b) = Len(s) - 1 /\ \A j \in 1..(Len(s) - 1) : j <= Len(a) <=> j < i
    BY <1>1, <1>2, <1>3
  <2> QED BY <1>2, <2>1, <2>2
<1> QED BY <1>1, <1>2, <1>3, <1>4, <1>5 DEF Without

LEMMA SpliceInjective ==
  ASSUME NEW S, NEW s \in Seq(S), NEW i \in 1..Len(s), IsInjective(s)
  PROVE  /\ RemoveAt(s, i) \in Seq(S)
         /\ s[i] \in ToSet(s)
         /\ IsInjective(RemoveAt(s, i))
         /\ ToSet(RemoveAt(s, i)) = ToSet(s) \ {s[i]}
BY SpliceAt, PlaceGone

-----------------------------------------------------------------------------
(* The invariant.                                                           *)

Types ==
  /\ order \in Orders \cup {"none"}
  /\ entries \in Seq(Calls)
  /\ orphans \subseteq Calls
  /\ owner \in [Conns -> Systems \cup {None}]
  /\ up \subseteq Conns
  /\ silent \subseteq Conns \ up
  /\ state \in [Systems -> Conns \cup {None}]
  /\ line \in [Conns -> Seq(Calls)]
  /\ pc \in [Calls -> {"new", "connecting", "queued", "answered", "returned", "failed"}]
  /\ request \in [Calls -> AllRequests \cup {NoRequest}]
  /\ conn \in [Calls -> Conns \cup {None}]
  /\ reply \in [Calls -> Outcomes]
  /\ got \in [Calls -> Calls \cup {None}]
  /\ late \subseteq Calls
  /\ cleared \subseteq Calls

(* Calls inside sendAndReceive(), and where they stand.  An answered call is *)
(* first in line, so its return takes itself out.                           *)
Inside(c) == pc[c] \in {"queued", "answered"}

LinesInv ==
  /\ \A k \in Conns : IsInjective(line[k])
  /\ \A c \in Calls, k \in Conns : c \in ToSet(line[k]) <=> Inside(c) /\ conn[c] = k
  /\ \A c \in Calls : Inside(c) => conn[c] \in up \cup silent
  /\ \A c \in Calls : pc[c] = "answered" => c = Head(line[conn[c]])
  /\ \A c \in Calls : pc[c] = "failed" => conn[c] \notin up \cup silent
  /\ \A c \in Calls : pc[c] \in {"new", "connecting"} => conn[c] = None
  /\ \A c \in Calls : pc[c] # "new" => request[c] \in AllRequests

(* Whose a connection is never changes.                                     *)
OwnersInv ==
  /\ \A k \in up \cup silent : owner[k] # None
  /\ \A c \in Calls : conn[c] # None => owner[conn[c]] = SystemOf[c]
  /\ \A s \in Systems : state[s] # None => owner[state[s]] = s

(* The host answers a request once, that of an orphan included.             *)
ServedInv ==
  /\ \A c \in Calls : pc[c] \in {"new", "connecting"} => reply[c] = "none"
  /\ \A c \in Calls : pc[c] = "queued" /\ conn[c] \in up => reply[c] = "none"
  /\ \A c \in orphans :
       /\ pc[c] \in {"queued", "failed"} /\ reply[c] = "none"
       /\ conn[c] \in Conns \ up
       /\ conn[c] \in silent => c = Head(line[conn[c]])

(* Entries are writes that were answered well.                              *)
Written(w) == Is(w, "write") /\ reply[w] = "ok"

HandedOut ==
  \A c \in Calls : got[c] # None => reply[c] = "entry" /\ Written(got[c])

Stored ==
  /\ IsInjective(entries)
  /\ ToSet(entries) \cap cleared = {}
  /\ \A w \in ToSet(entries) \cup cleared : Written(w)

TakenOnce ==
  /\ \A r \in Calls : Takes(r) /\ got[r] # None => got[r] \notin ToSet(entries) \cup cleared
  /\ \A q, r \in Calls : Takes(q) /\ Takes(r) /\ got[q] = got[r] /\ got[r] # None => q = r

NoneLost ==
  \A w \in Calls : Written(w) =>
    w \in ToSet(entries) \cup cleared \/ \E r \in Calls : Takes(r) /\ got[r] = w

EntriesInv == HandedOut /\ Stored /\ TakenOnce /\ NoneLost

(* A call that must come before another one of the same connection, which it*)
(* does as long as it waits in line, and as its entry waits in the queue.   *)
Before(c, d) ==
  c < d /\ conn[c] = conn[d] /\ c \notin late /\ pc[c] # "failed"

CalledInOrder ==
  \A c, d \in Calls : SystemOf[c] = SystemOf[d] /\ d < c /\ pc[d] = "new" => pc[c] = "new"

LinesOrdered ==
  \A k \in Conns : \A i, j \in DOMAIN line[k] :
    i < j /\ line[k][j] < line[k][i] => line[k][j] \in late

ServedAfter ==
  \A c, d \in Calls : Before(c, d) /\ pc[c] = "queued" => reply[d] = "none"

Ordered == \A m, n \in DOMAIN entries : Before(entries[m], entries[n]) => m < n

OrderInv ==
  /\ CalledInOrder /\ LinesOrdered /\ ServedAfter /\ Ordered
  /\ \A c \in Calls : pc[c] = "connecting" => c \in late

QueuesInv == Types /\ LinesInv /\ OwnersInv /\ ServedInv /\ EntriesInv /\ OrderInv

LEMMA InitQueuesInv == Init => QueuesInv
<1> SUFFICES ASSUME Init PROVE QueuesInv
  OBVIOUS
<1>1. /\ <<>> \in Seq(Calls) /\ ToSet(<<>>) = {} /\ IsInjective(<<>>)
      /\ DOMAIN <<>> = {}
  BY DEF ToSet, IsInjective
<1>2. MaxConns \in Nat /\ 1 \in Conns /\ None \notin Conns /\ None \notin Systems
      /\ Ready \in Systems \cup {None}
  BY DataQueueAssumption DEF Conns, None
<1>3. Types
  <2>1. /\ order \in Orders \cup {"none"} /\ entries \in Seq(Calls)
        /\ orphans \subseteq Calls /\ up \subseteq Conns /\ silent \subseteq Conns \ up
        /\ late \subseteq Calls /\ cleared \subseteq Calls
    BY <1>1 DEF Init
  <2>2. /\ owner \in [Conns -> Systems \cup {None}]
        /\ state \in [Systems -> Conns \cup {None}]
        /\ line \in [Conns -> Seq(Calls)]
    BY <1>1, <1>2 DEF Init
  <2>3. /\ pc \in [Calls -> {"new", "connecting", "queued", "answered", "returned", "failed"}]
        /\ request \in [Calls -> AllRequests \cup {NoRequest}]
        /\ conn \in [Calls -> Conns \cup {None}]
        /\ reply \in [Calls -> Outcomes]
        /\ got \in [Calls -> Calls \cup {None}]
    BY DEF Init, Outcomes
  <2> QED BY <2>1, <2>2, <2>3 DEF Types
<1>4. LinesInv
  BY <1>1 DEF Init, LinesInv, Inside
<1>5. OwnersInv
  <2>1. \A k \in up \cup silent : owner[k] # None
    BY DEF Init
  <2>2. \A c \in Calls : conn[c] = None
    BY DEF Init
  <2>3. \A s \in Systems : state[s] # None => owner[state[s]] = s
    BY <1>2 DEF Init
  <2> QED BY <2>1, <2>2, <2>3 DEF OwnersInv
<1>6. ServedInv
  BY DEF Init, ServedInv
<1>7. EntriesInv
  BY <1>1 DEF Init, EntriesInv, HandedOut, Stored, TakenOnce, NoneLost, Written
<1>8. OrderInv
  BY <1>1 DEF Init, OrderInv, CalledInOrder, LinesOrdered, ServedAfter, Ordered, Before
<1> QED BY <1>3, <1>4, <1>5, <1>6, <1>7, <1>8 DEF QueuesInv

-----------------------------------------------------------------------------
(* The parts of the queue that are left.                                    *)

(* Entries of a list at increasing places.                                  *)
Pick(s, n, at) == [i \in 1 .. n |-> s[at[i]]]

LEMMA Picked ==
  ASSUME NEW s \in Seq(Calls), NEW n \in Nat, NEW at \in [1 .. n -> DOMAIN s],
         \A i, j \in 1 .. n : i < j => at[i] < at[j]
  PROVE  /\ Pick(s, n, at) \in Seq(Calls) /\ DOMAIN Pick(s, n, at) = 1 .. n
         /\ \A e : e \in ToSet(Pick(s, n, at)) <=> \E i \in 1 .. n : s[at[i]] = e
         /\ ToSet(Pick(s, n, at)) \subseteq ToSet(s)
         /\ IsInjective(s) => IsInjective(Pick(s, n, at))
<1> DEFINE t == Pick(s, n, at)
<1>1. \A i \in 1 .. n : t[i] = s[at[i]] /\ at[i] \in DOMAIN s /\ s[at[i]] \in Calls
  BY ElementOfSeq, LenProperties DEF Pick
<1>2. t \in Seq(Calls) /\ DOMAIN t = 1 .. n /\ Len(t) = n
  BY <1>1, IsASeq, LenProperties DEF Pick
<1> HIDE DEF t
<1>3. \A e : e \in ToSet(t) <=> \E i \in 1 .. n : s[at[i]] = e
  <2>1. \A e : e \in ToSet(t) <=> \E i \in 1 .. n : t[i] = e
    BY <1>2, InToSet
  <2> QED BY <1>1, <2>1
<1>4. ToSet(t) \subseteq ToSet(s)
  BY <1>1, <1>3 DEF ToSet
<1>5. ASSUME IsInjective(s) PROVE IsInjective(t)
  <2>1. ASSUME NEW i \in 1 .. n, NEW j \in 1 .. n, t[i] = t[j] PROVE i = j
    <3>1. at[i] = at[j]
      BY <1>1, <1>5, <2>1 DEF IsInjective
    <3>2. at[i] \in Nat /\ at[j] \in Nat
      BY <1>1, LenProperties
    <3>3. ~(i < j) /\ ~(j < i)
      BY <3>1, <3>2
    <3> QED BY <3>3
  <2> QED BY <1>2, <2>1 DEF IsInjective
<1> QED BY <1>2, <1>3, <1>4, <1>5 DEF t

(* An entry is removed: the others, at increasing places.                   *)
Others(s, i) == [j \in 1 .. Len(s) - 1 |-> IF j < i THEN j ELSE j + 1]

LEMMA RemovedAt ==
  ASSUME NEW S, NEW s \in Seq(S), NEW i \in DOMAIN s
  PROVE  /\ Len(s) - 1 \in Nat
         /\ Others(s, i) \in [1 .. Len(s) - 1 -> DOMAIN s]
         /\ \A j, k \in 1 .. Len(s) - 1 : j < k => Others(s, i)[j] < Others(s, i)[k]
         /\ RemoveAt(s, i) = Pick(s, Len(s) - 1, Others(s, i))
<1>1. Len(s) \in Nat /\ DOMAIN s = 1 .. Len(s) /\ i \in 1 .. Len(s)
  BY LenProperties
<1> DEFINE n == Len(s) - 1
           at == Others(s, i)
           t == RemoveAt(s, i)
<1>2. n \in Nat /\ n + 1 = Len(s)
  BY <1>1
<1>3. t \in Seq(S) /\ Len(t) = n /\ \A j \in 1 .. n : t[j] = IF j < i THEN s[j] ELSE s[j + 1]
  BY <1>1, SpliceAt DEF Without
<1>4. at = [j \in 1 .. n |-> IF j < i THEN j ELSE j + 1]
  BY DEF Others
<1> HIDE DEF t, n, at
<1>5. at \in [1 .. n -> DOMAIN s] /\ \A j \in 1 .. n : t[j] = s[at[j]]
  BY <1>1, <1>2, <1>3, <1>4
<1>6. t = Pick(s, n, at)
  BY <1>3, <1>5, LenProperties DEF Pick
<1>7. \A j, k \in 1 .. n : j < k => at[j] < at[k]
  BY <1>1, <1>2, <1>4
<1> QED BY <1>2, <1>5, <1>6, <1>7 DEF t, n, at

-----------------------------------------------------------------------------
(* What the host does with one request.                                     *)

LEMMA OrderAsked ==
  ASSUME NEW r \in AllRequests, r.op = "create", ~r.keyed
  PROVE  r.order \in {"FIFO", "LIFO"}
BY DEF AllRequests

(* A write puts its entry at the end.                                       *)
Puts(c) ==
  /\ Is(c, "write") /\ reply' = [reply EXCEPT ![c] = "ok"]
  /\ entries' = Append(entries, c)
  /\ UNCHANGED <<got, cleared>>

(* A read is given an entry, and takes it unless it peeks.                  *)
Hands(c) ==
  /\ IsRead(c) /\ reply' = [reply EXCEPT ![c] = "entry"]
  /\ UNCHANGED cleared
  /\ \E i \in DOMAIN entries :
       /\ got' = [got EXCEPT ![c] = entries[i]]
       /\ entries' = IF request[c].peek THEN entries ELSE RemoveAt(entries, i)

(* Entries are cleared, and those that are left stay in order.              *)
Thins(c) ==
  /\ ~Is(c, "write") /\ \E r \in Outcomes \ {"none"} : reply' = [reply EXCEPT ![c] = r]
  /\ UNCHANGED got
  /\ \E n \in Nat : \E at \in [1 .. n -> DOMAIN entries] :
       /\ \A i, j \in 1 .. n : i < j => at[i] < at[j]
       /\ entries' = Pick(entries, n, at)
       /\ cleared' = cleared \cup
            {entries[p] : p \in {p \in DOMAIN entries : \A i \in 1 .. n : at[i] # p}}

(* Nothing happens to the entries.                                          *)
Spares(c) ==
  /\ \E r \in Outcomes \ {"none"} :
       reply' = [reply EXCEPT ![c] = r] /\ (Is(c, "write") => r # "ok")
  /\ UNCHANGED <<entries, got, cleared>>

LEMMA ThinsAll ==
  ASSUME Types, NEW c \in Calls, ~Is(c, "write"),
         reply' = [reply EXCEPT ![c] = "ok"], got' = got,
         entries' = <<>>, cleared' = cleared \cup ToSet(entries)
  PROVE  Thins(c)
<1> DEFINE at == [i \in 1 .. 0 |-> 0]
<1>1. at \in [1 .. 0 -> DOMAIN entries] /\ \A i, j \in 1 .. 0 : i < j => at[i] < at[j]
  OBVIOUS
<1>2. entries' = Pick(entries, 0, at)
  <2> DEFINE t == Pick(entries, 0, at)
  <2>1. t \in Seq(Calls) /\ Len(t) = 0
    BY IsASeq, LenProperties DEF Pick
  <2> HIDE DEF t
  <2>2. t = <<>>
    BY <2>1, EmptySeq
  <2> QED BY <2>2 DEF t
<1>3. {p \in DOMAIN entries : \A i \in 1 .. 0 : at[i] # p} = DOMAIN entries
  <2>1. \A i \in 1 .. 0 : FALSE
    OBVIOUS
  <2> HIDE DEF at
  <2> QED BY <2>1
<1>4. ToSet(entries) = {entries[p] : p \in DOMAIN entries}
  BY DEF ToSet
<1>5. "ok" \in Outcomes \ {"none"} /\ 0 \in Nat
  BY DEF Outcomes
<1> HIDE DEF at
<1>6. \E n \in Nat : \E a \in [1 .. n -> DOMAIN entries] :
        /\ \A i, j \in 1 .. n : i < j => a[i] < a[j]
        /\ entries' = Pick(entries, n, a)
        /\ cleared' = cleared \cup
             {entries[p] : p \in {p \in DOMAIN entries : \A i \in 1 .. n : a[i] # p}}
  <2> USE <1>1
  <2> WITNESS 0 \in Nat
  <2> WITNESS at \in [1 .. 0 -> DOMAIN entries]
  <2> QED BY <1>1, <1>2, <1>3, <1>4
<1> QED BY <1>5, <1>6 DEF Thins

LEMMA ServeDoes ==
  ASSUME Types, NEW c \in Calls, request[c] \in AllRequests, Serve(c)
  PROVE  /\ order' \in Orders \cup {"none"}
         /\ Puts(c) \/ Hands(c) \/ Thins(c) \/ Spares(c)
<1> USE DEF Answer, AnswerEntry, Is, IsRead
<1>1. "ok" \in Outcomes /\ "error" \in Outcomes /\ "no data" \in Outcomes
      /\ Orders \subseteq Outcomes /\ "none" \notin Orders /\ "ok" \notin Orders
      /\ {"FIFO", "LIFO", "KEYED"} \subseteq Orders
  BY DEF Outcomes, Orders
<1>2. CASE Write(c) \/ KeyedWrite(c)
  BY <1>2 DEF Write, KeyedWrite, Puts, Types
<1>3. CASE Read(c)
  <2>1. PICK i \in Matches(c) :
          /\ got' = [got EXCEPT ![c] = entries[i]]
          /\ entries' = IF request[c].peek THEN entries ELSE RemoveAt(entries, i)
    BY <1>3 DEF Read
  <2>2. i \in DOMAIN entries
    <3>1. KeyedFound(c) \subseteq DOMAIN entries
      BY DEF KeyedFound
    <3>2. Found(c) \subseteq DOMAIN entries
      BY LenProperties DEF Found, Types
    <3> QED BY <3>1, <3>2 DEF Matches
  <2> QED BY <1>3, <2>1, <2>2 DEF Read, Hands, Types
<1>4. CASE ReadNothing(c)
  BY <1>1, <1>4 DEF ReadNothing, Spares, Types
<1>5. CASE Clear(c)
  BY <1>5, ThinsAll DEF Clear, Types
<1>6. CASE KeyedClear(c)
  <2>1. PICK at \in InOrder(Left(c)) : entries' = [i \in DOMAIN at |-> entries[at[i]]]
    BY <1>6 DEF KeyedClear
  <2>2. PICK n \in 0 .. Len(entries) : at \in [1 .. n -> Left(c)]
    BY <2>1 DEF InOrder
  <2>3. /\ \A i, j \in DOMAIN at : i < j => at[i] < at[j]
        /\ \A p \in Left(c) : \E i \in DOMAIN at : at[i] = p
    BY <2>1 DEF InOrder
  <2>4. n \in Nat /\ DOMAIN at = 1 .. n /\ Left(c) \subseteq DOMAIN entries
        /\ at \in [1 .. n -> DOMAIN entries]
    BY <2>2, LenProperties DEF Types, Left
  <2>5. {p \in DOMAIN entries : \A i \in 1 .. n : at[i] # p} = DOMAIN entries \ Left(c)
    BY <2>2, <2>3, <2>4
  <2>6. cleared' = cleared \cup {entries[p] : p \in DOMAIN entries \ Left(c)}
    BY <1>6 DEF KeyedClear
  <2>7. /\ ~Is(c, "write") /\ "ok" \in Outcomes \ {"none"}
        /\ reply' = [reply EXCEPT ![c] = "ok"] /\ got' = got /\ order' = order
    BY <1>1, <1>6 DEF KeyedClear
  <2>8. \E m \in Nat : \E a \in [1 .. m -> DOMAIN entries] :
          /\ \A i, j \in 1 .. m : i < j => a[i] < a[j]
          /\ entries' = Pick(entries, m, a)
          /\ cleared' = cleared \cup
               {entries[p] : p \in {p \in DOMAIN entries : \A i \in 1 .. m : a[i] # p}}
    <3> USE <2>4
    <3> WITNESS n \in Nat
    <3> WITNESS at \in [1 .. n -> DOMAIN entries]
    <3> QED BY <2>1, <2>3, <2>4, <2>5, <2>6 DEF Pick
  <2>9. Thins(c)
    BY <2>7, <2>8 DEF Thins
  <2> QED BY <2>7, <2>9 DEF Types
<1>7. CASE Create(c)
  BY <1>1, <1>7, OrderAsked DEF Create, Spares, Keyed
<1>8. CASE KeyedCreate(c)
  BY <1>1, <1>8 DEF KeyedCreate, Spares
<1>9. CASE Delete(c)
  BY <1>9, ThinsAll DEF Delete
<1>10. CASE GetAttributes(c)
  BY <1>1, <1>10 DEF GetAttributes, Spares, Types
<1>11. CASE Denied(c)
  <2>1. reply' = [reply EXCEPT ![c] = "error"] /\ UNCHANGED <<order, entries, got, cleared>>
    BY <1>11 DEF Denied
  <2>2. "error" \in Outcomes \ {"none"} /\ "error" # "ok"
    BY <1>1
  <2> QED BY <2>1, <2>2 DEF Spares, Types
<1> QED BY <1>2, <1>3, <1>4, <1>5, <1>6, <1>7, <1>8, <1>9, <1>10, <1>11 DEF Serve

(* An answer touches only the call that is answered.                        *)
LEMMA ServedTypes ==
  ASSUME Types, NEW c \in Calls, Puts(c) \/ Hands(c) \/ Thins(c) \/ Spares(c)
  PROVE  /\ entries' \in Seq(Calls) /\ cleared' \subseteq Calls
         /\ reply' \in [Calls -> Outcomes] /\ got' \in [Calls -> Calls \cup {None}]
         /\ reply'[c] # "none" /\ \A d \in Calls \ {c} : reply'[d] = reply[d]
<1>1. "ok" \in Outcomes \ {"none"} /\ "entry" \in Outcomes \ {"none"}
  BY DEF Outcomes
<1>2. entries \in Seq(Calls) /\ \A i \in DOMAIN entries : entries[i] \in Calls
  BY ElementOfSeq, LenProperties DEF Types
<1>3. CASE Puts(c)
  BY <1>1, <1>2, <1>3, AppendProperties DEF Puts, Types
<1>4. CASE Hands(c)
  <2>1. \A i \in DOMAIN entries : RemoveAt(entries, i) \in Seq(Calls)
    BY <1>2, SpliceAt, LenProperties
  <2> QED BY <1>1, <1>2, <1>4, <2>1 DEF Hands, Types
<1>5. CASE Thins(c)
  <2>1. PICK n \in Nat : \E at \in [1 .. n -> DOMAIN entries] :
       /\ \A i, j \in 1 .. n : i < j => at[i] < at[j]
       /\ entries' = Pick(entries, n, at)
    BY <1>5 DEF Thins
  <2>2. entries' \in Seq(Calls)
    BY <1>2, <2>1, Picked
  <2> QED BY <1>2, <1>5, <2>2 DEF Thins, Types
<1>6. CASE Spares(c)
  BY <1>6 DEF Spares, Types
<1> QED BY <1>3, <1>4, <1>5, <1>6

(* Every answer accounts for the entries: the call that is answered was not *)
(* before, so that no entry is of its write and none was given to it.       *)
LEMMA ServedEntries ==
  ASSUME Types, EntriesInv, NEW c \in Calls, reply[c] = "none", request' = request,
         Puts(c) \/ Hands(c) \/ Thins(c) \/ Spares(c)
  PROVE  EntriesInv'
<1>1. /\ entries \in Seq(Calls) /\ got[c] = None /\ ~Written(c)
      /\ \A r \in Calls : got[r] # c
      /\ c \notin ToSet(entries) \cup cleared
  <2>1. ~Written(c) /\ c # None
    BY DataQueueAssumption DEF Written
  <2> QED BY <2>1 DEF EntriesInv, HandedOut, Stored, Types
<1>2. \A d \in Calls : (Takes(d)' <=> Takes(d)) /\ (Is(d, "write")' <=> Is(d, "write"))
  BY DEF Takes, Is, IsRead
<1>3. /\ reply' \in [Calls -> Outcomes] /\ got' \in [Calls -> Calls \cup {None}]
      /\ \A d \in Calls \ {c} : reply'[d] = reply[d]
  BY ServedTypes
<1>4. /\ \A d \in Calls \ {c} : Written(d)' <=> Written(d)
      /\ ToSet(entries) \subseteq Calls /\ cleared \subseteq Calls /\ None \notin Calls
  BY <1>1, <1>2, <1>3, ToSetSubset, DataQueueAssumption DEF Written, Types
<1>5. CASE Puts(c)
  <2>1. IsInjective(entries') /\ ToSet(entries') = ToSet(entries) \cup {c}
    BY <1>1, <1>5, PushInjective DEF Puts, EntriesInv, Stored
  <2>2. Written(c)' /\ got' = got /\ cleared' = cleared
    BY <1>2, <1>5 DEF Puts, Written, Types
  <2>3. \A d \in Calls : got[d] # None => d # c
    BY <1>1
  <2> QED BY <1>1, <1>2, <1>3, <1>4, <2>1, <2>2, <2>3 DEF EntriesInv, HandedOut, Stored, TakenOnce, NoneLost
<1>6. CASE Hands(c)
  <2>1. PICK i \in DOMAIN entries :
          /\ got' = [got EXCEPT ![c] = entries[i]]
          /\ entries' = IF request[c].peek THEN entries ELSE RemoveAt(entries, i)
    BY <1>6 DEF Hands
  <2>2. PICK e \in Calls : e = entries[i]
    BY <1>1, ElementOfSeq, LenProperties
  <2>3. /\ i \in 1 .. Len(entries) /\ e \in ToSet(entries) /\ e \in Calls
        /\ IsInjective(entries)
    BY <1>1, <2>2, InToSet, LenProperties DEF EntriesInv, Stored
  <2>4. /\ got'[c] = e /\ \A d \in Calls \ {c} : got'[d] = got[d]
        /\ cleared' = cleared /\ IsRead(c) /\ reply'[c] = "entry" /\ ~Written(c)'
    BY <1>6, <2>2, <2>1 DEF Hands, Types, Written
  <2>5. /\ IsInjective(entries')
        /\ ToSet(entries') = IF Takes(c) THEN ToSet(entries) \ {e} ELSE ToSet(entries)
    <3>1. /\ IsInjective(RemoveAt(entries, i))
          /\ ToSet(RemoveAt(entries, i)) = ToSet(entries) \ {e}
      BY <1>1, <2>2, <2>3, SpliceInjective
    <3> QED BY <2>1, <2>3, <2>4, <3>1 DEF Takes
  <2>6. e # c /\ Written(e)
    BY <1>1, <2>3 DEF EntriesInv, Stored
  <2>7. \A d \in Calls : got'[d] # None => reply'[d] = "entry" /\ Written(got[d])'
    <3>1. Written(e)'
      BY <1>4, <2>3, <2>6
    <3>2. ASSUME NEW d \in Calls \ {c}, got[d] # None
          PROVE  reply'[d] = "entry" /\ Written(got[d])'
      <4>1. PICK w \in Calls \ {c} : w = got'[d] /\ w = got[d]
        BY <1>1, <2>4, <3>2 DEF Types
      <4>2. Written(w) /\ reply[d] = "entry"
        BY <3>2, <4>1 DEF EntriesInv, HandedOut
      <4>3. Written(w)' /\ reply'[d] = "entry"
        BY <1>3, <1>4, <4>2
      <4> QED BY <4>1, <4>3 DEF Written, Is
    <3> QED BY <2>4, <3>1, <3>2 DEF Written, Is
  <2>8. \A w \in ToSet(entries') \cup cleared' : Written(w)'
    BY <1>1, <1>4, <2>4, <2>5 DEF EntriesInv, Stored
  <2>9. ToSet(entries') \cap cleared' = {}
    BY <2>4, <2>5 DEF EntriesInv, Stored
  <2>10. \A r \in Calls : Takes(r)' /\ got'[r] # None => got'[r] \notin ToSet(entries') \cup cleared'
    BY <1>2, <2>3, <2>4, <2>5 DEF EntriesInv, Stored, TakenOnce
  <2>11. \A q, r \in Calls :
           Takes(q)' /\ Takes(r)' /\ got'[q] = got'[r] /\ got'[r] # None => q = r
    BY <1>2, <1>4, <2>3, <2>4 DEF EntriesInv, TakenOnce
  <2>12. \A w \in Calls : Written(w)' =>
           w \in ToSet(entries') \cup cleared' \/ \E r \in Calls : Takes(r)' /\ got'[r] = w
    <3> SUFFICES ASSUME NEW w \in Calls, Written(w)',
                        w \notin ToSet(entries') \cup cleared'
                 PROVE  \E r \in Calls : Takes(r)' /\ got'[r] = w
      OBVIOUS
    <3>1. Written(w)
      BY <1>4, <2>4
    <3>2. CASE w \in ToSet(entries)
      BY <1>2, <2>4, <2>5, <3>2
    <3>3. CASE w \notin ToSet(entries)
      <4>1. PICK r \in Calls : Takes(r) /\ got[r] = w
        BY <2>4, <3>1, <3>3 DEF EntriesInv, NoneLost
      <4>2. r # c
        BY <1>1, <1>4, <4>1
      <4> QED BY <1>2, <2>4, <4>1, <4>2
    <3> QED BY <3>2, <3>3
  <2>13. HandedOut' /\ Stored'
    BY <2>5, <2>7, <2>8, <2>9 DEF HandedOut, Stored
  <2>14. TakenOnce' /\ NoneLost'
    BY <2>10, <2>11, <2>12 DEF TakenOnce, NoneLost
  <2> QED BY <2>13, <2>14 DEF EntriesInv
<1>7. CASE Thins(c)
  <2>1. PICK n \in Nat : \E at \in [1 .. n -> DOMAIN entries] :
       /\ \A i, j \in 1 .. n : i < j => at[i] < at[j]
       /\ entries' = Pick(entries, n, at)
       /\ cleared' = cleared \cup
            {entries[p] : p \in {p \in DOMAIN entries : \A i \in 1 .. n : at[i] # p}}
    BY <1>7 DEF Thins
  <2>2. PICK at \in [1 .. n -> DOMAIN entries] :
       /\ \A i, j \in 1 .. n : i < j => at[i] < at[j]
       /\ entries' = Pick(entries, n, at)
       /\ cleared' = cleared \cup
            {entries[p] : p \in {p \in DOMAIN entries : \A i \in 1 .. n : at[i] # p}}
    BY <2>1
  <2>3. got' = got /\ ~Written(c)'
    BY <1>2, <1>7 DEF Thins, Written
  <2>4. /\ \A e : e \in ToSet(entries') <=> \E i \in 1 .. n : entries[at[i]] = e
        /\ ToSet(entries') \subseteq ToSet(entries)
        /\ IsInjective(entries')
    <3>1. IsInjective(entries)
      BY DEF EntriesInv, Stored
    <3>2. \A i, j \in 1 .. n : i < j => at[i] < at[j]
      BY <2>2
    <3>3. entries' = Pick(entries, n, at)
      BY <2>2
    <3>4. \A e : e \in ToSet(entries') <=> \E i \in 1 .. n : entries[at[i]] = e
      BY <1>1, <3>2, <3>3, Picked, SMTT(30)
    <3>5. ToSet(entries') \subseteq ToSet(entries)
      BY <1>1, <3>2, <3>3, Picked
    <3>6. IsInjective(entries')
      BY <1>1, <3>1, <3>2, <3>3, Picked
    <3> QED BY <3>4, <3>5, <3>6
  <2>5. cleared' = cleared \cup (ToSet(entries) \ ToSet(entries'))
    <3>1. \A p, q \in DOMAIN entries : entries[p] = entries[q] => p = q
      BY DEF EntriesInv, Stored, IsInjective
    <3>2. \A e : e \in ToSet(entries) <=> \E p \in DOMAIN entries : entries[p] = e
      BY DEF ToSet
    <3>3. ASSUME NEW p \in DOMAIN entries
          PROVE  (\A i \in 1 .. n : at[i] # p) <=> entries[p] \notin ToSet(entries')
      BY <2>2, <2>4, <3>1
    <3>4. \A e : e \in cleared' <=>
            e \in cleared \/ \E p \in DOMAIN entries :
                               entries[p] = e /\ \A i \in 1 .. n : at[i] # p
      BY <2>2
    <3> QED BY <3>2, <3>3, <3>4
  <2> QED BY <1>1, <1>2, <1>3, <1>4, <2>3, <2>4, <2>5 DEF EntriesInv, HandedOut, Stored, TakenOnce, NoneLost
<1>8. CASE Spares(c)
  <2>1. ~Written(c)' /\ UNCHANGED <<entries, got, cleared>>
    BY <1>2, <1>8 DEF Spares, Written, Types
  <2> QED BY <1>1, <1>2, <1>3, <1>4, <2>1 DEF EntriesInv, HandedOut, Stored, TakenOnce, NoneLost
<1> QED BY <1>5, <1>6, <1>7, <1>8

(* The order of the entries.                                                *)
LEMMA PickOrdered ==
  ASSUME Types, Ordered, NEW n \in Nat, NEW at \in [1 .. n -> DOMAIN entries],
         \A i, j \in 1 .. n : i < j => at[i] < at[j],
         entries' = Pick(entries, n, at),
         \A a, b \in ToSet(entries) : Before(a, b)' => Before(a, b)
  PROVE  Ordered'
<1>1. \A i \in 1 .. n : entries'[i] = entries[at[i]] /\ at[i] \in Nat
  BY LenProperties DEF Pick, Types
<1>2. DOMAIN entries' = 1 .. n
  BY DEF Pick
<1>3. ASSUME NEW i \in 1 .. n, NEW j \in 1 .. n, NEW a, NEW b,
             a = entries'[i], b = entries'[j], Before(a, b)'
      PROVE  i < j
  <2>1. a = entries[at[i]] /\ b = entries[at[j]]
    BY <1>1, <1>3
  <2>2. a \in ToSet(entries) /\ b \in ToSet(entries)
    BY <2>1 DEF ToSet
  <2>3. at[i] < at[j]
    BY <1>3, <2>1, <2>2 DEF Ordered
  <2>4. ~(j < i) /\ i # j
    BY <1>1, <2>3
  <2> QED BY <2>4
<1> QED BY <1>2, <1>3 DEF Ordered, Before

LEMMA ServedOrder ==
  ASSUME Types, Ordered, NEW c \in Calls,
         Puts(c) \/ Hands(c) \/ Thins(c) \/ Spares(c),
         \A a, b \in ToSet(entries) \cup {c} : Before(a, b)' => Before(a, b),
         \A b \in ToSet(entries) \cup {c} : ~Before(c, b)
  PROVE  Ordered'
<1>1. CASE Puts(c)
  <2> DEFINE n == Len(entries)
  <2>1. /\ n \in Nat /\ DOMAIN entries = 1 .. n /\ DOMAIN entries' = 1 .. n + 1
        /\ \A i \in 1 .. n : entries'[i] = entries[i]
        /\ entries'[n + 1] = c
    BY <1>1, AppendProperties, LenProperties DEF Puts, Types
  <2>2. \A i \in 1 .. n : entries[i] \in ToSet(entries)
    BY <2>1 DEF ToSet
  <2> HIDE DEF n
  <2>3. ASSUME NEW i \in 1 .. n + 1, NEW j \in 1 .. n + 1, NEW a, NEW b,
               a = entries'[i], b = entries'[j], Before(a, b)'
        PROVE  i < j
    <3>1. CASE i = n + 1
      <4>1. a = c /\ b \in ToSet(entries) \cup {c}
        BY <2>1, <2>2, <2>3, <3>1
      <4> QED BY <2>3, <4>1
    <3>2. CASE i # n + 1 /\ j = n + 1
      BY <2>1, <3>2
    <3>3. CASE i # n + 1 /\ j # n + 1
      <4>1. i \in 1 .. n /\ j \in 1 .. n
        BY <2>1, <3>3
      <4>2. a = entries[i] /\ b = entries[j] /\ a \in ToSet(entries) /\ b \in ToSet(entries)
        BY <2>1, <2>2, <2>3, <4>1
      <4>3. Before(a, b)
        BY <2>3, <4>2
      <4> QED BY <2>1, <4>1, <4>2, <4>3 DEF Ordered
    <3> QED BY <3>1, <3>2, <3>3
  <2> QED BY <2>1, <2>3 DEF Ordered, Before
<1>2. CASE entries' = entries
  <2>1. \A i \in DOMAIN entries : entries[i] \in ToSet(entries)
    BY DEF ToSet
  <2>2. ASSUME NEW i \in DOMAIN entries, NEW j \in DOMAIN entries, NEW a, NEW b,
               a = entries[i], b = entries[j], Before(a, b)'
        PROVE  i < j
    BY <2>1, <2>2 DEF Ordered
  <2> QED BY <1>2, <2>2 DEF Ordered, Before
<1>3. CASE Hands(c) /\ entries' # entries
  <2>1. entries \in Seq(Calls)
    BY DEF Types
  <2>2. PICK i \in DOMAIN entries : entries' = RemoveAt(entries, i)
    BY <1>3 DEF Hands
  <2> DEFINE n == Len(entries) - 1
             at == Others(entries, i)
  <2>3. /\ n \in Nat /\ at \in [1 .. n -> DOMAIN entries]
        /\ \A j, k \in 1 .. n : j < k => at[j] < at[k]
        /\ entries' = Pick(entries, n, at)
    BY <2>1, <2>2, RemovedAt
  <2> HIDE DEF n, at
  <2> QED BY <2>3, PickOrdered
<1>4. CASE Thins(c)
  <2>1. PICK n \in Nat : \E at \in [1 .. n -> DOMAIN entries] :
          /\ \A i, j \in 1 .. n : i < j => at[i] < at[j]
          /\ entries' = Pick(entries, n, at)
    BY <1>4 DEF Thins
  <2> QED BY <2>1, PickOrdered
<1> QED BY <1>1, <1>2, <1>3, <1>4 DEF Spares

-----------------------------------------------------------------------------
(* Steps that leave the queue alone.                                        *)

(* A call that is made has been answered nothing yet.                       *)
LEMMA EntriesStay ==
  ASSUME Types, EntriesInv, UNCHANGED <<entries, cleared, reply, got>>,
         \A d \in Calls : request'[d] = request[d] \/ reply[d] = "none"
  PROVE  EntriesInv'
<1>1. \A d \in Calls : reply[d] # "none" =>
        (Takes(d)' <=> Takes(d)) /\ (Is(d, "write")' <=> Is(d, "write"))
  BY DEF Takes, IsRead, Is
<1>2. \A d \in Calls : Written(d)' <=> Written(d)
  BY <1>1 DEF Written
<1>3. \A d \in Calls : got[d] # None => (Takes(d)' <=> Takes(d)) /\ got[d] \in Calls
  BY <1>1 DEF EntriesInv, HandedOut, Types
<1>4. ToSet(entries) \subseteq Calls /\ cleared \subseteq Calls /\ None \notin Calls
  BY ToSetSubset, DataQueueAssumption DEF Types
<1>5. HandedOut'
  <2>1. ASSUME NEW c \in Calls, got[c] # None
        PROVE  reply[c] = "entry" /\ Written(got[c])'
    <3>1. PICK w \in Calls : w = got[c]
      BY <1>3, <2>1
    <3>2. Written(w)'
      BY <1>2, <2>1, <3>1 DEF EntriesInv, HandedOut
    <3> QED BY <2>1, <3>1, <3>2 DEF EntriesInv, HandedOut, Written, Is
  <2> QED BY <2>1 DEF HandedOut, Written, Is
<1>6. Stored'
  BY <1>2, <1>4 DEF EntriesInv, Stored
<1>7. TakenOnce'
  BY <1>3 DEF EntriesInv, TakenOnce
<1>8. NoneLost'
  BY <1>2, <1>3, <1>4 DEF EntriesInv, NoneLost
<1> QED BY <1>5, <1>6, <1>7, <1>8 DEF EntriesInv

LEMMA OrderStays ==
  ASSUME Types, Ordered, entries' = entries,
         \A a, b \in ToSet(entries) : Before(a, b)' => Before(a, b)
  PROVE  Ordered'
<1>1. \A i \in DOMAIN entries : entries[i] \in ToSet(entries)
  BY DEF ToSet
<1>2. ASSUME NEW i \in DOMAIN entries, NEW j \in DOMAIN entries, NEW a, NEW b,
             a = entries[i], b = entries[j], Before(a, b)'
      PROVE  i < j
  BY <1>1, <1>2 DEF Ordered
<1> QED BY <1>2 DEF Ordered, Before

-----------------------------------------------------------------------------
(* The lines.                                                               *)

LEMMA FirstInLine ==
  ASSUME NEW s \in Seq(Calls), NEW c \in ToSet(s)
  PROVE  /\ s # <<>> /\ Head(s) = s[1] /\ 1 \in DOMAIN s
         /\ Head(s) \in ToSet(s) /\ c \in Calls
<1>1. \E i \in 1 .. Len(s) : s[i] = c
  BY InToSet
<1>2. Len(s) \in Nat /\ s # <<>>
  BY <1>1, LenProperties, EmptySeq
<1>3. 1 \in 1 .. Len(s) /\ DOMAIN s = 1 .. Len(s)
  BY <1>1, <1>2, LenProperties
<1>4. Head(s) = s[1]
  BY <1>2, HeadTailProperties
<1> QED BY <1>2, <1>3, <1>4, InToSet, ToSetSubset

(* A call joins the line of a connection.                                   *)
LEMMA Joins ==
  ASSUME Types, LinesInv, NEW c \in Calls, NEW k \in Conns,
         pc[c] \in {"new", "connecting"}, Enqueue(c, k),
         request' \in [Calls -> AllRequests \cup {NoRequest}], request'[c] \in AllRequests,
         \A d \in Calls \ {c} : request'[d] = request[d],
         k \in up', up' = up \/ (up' = up \cup {k} /\ \A d \in Calls : conn[d] # k),
         silent' = silent
  PROVE  LinesInv'
<1>1. /\ pc'[c] = "queued" /\ conn'[c] = k /\ line' \in [Conns -> Seq(Calls)]
      /\ \A d \in Calls \ {c} : pc'[d] = pc[d] /\ conn'[d] = conn[d]
      /\ line'[k] = Append(line[k], c)
      /\ \A l \in Conns \ {k} : line'[l] = line[l]
      /\ line[k] \in Seq(Calls)
  BY AppendProperties DEF Enqueue, Types
<1>2. \A l \in Conns : c \notin ToSet(line[l])
  BY DEF LinesInv, Inside
<1>3. /\ IsInjective(line'[k]) /\ ToSet(line'[k]) = ToSet(line[k]) \cup {c}
  BY <1>1, <1>2, PushInjective DEF LinesInv
<1>4. ASSUME NEW d \in Calls, NEW l \in Conns
      PROVE  d \in ToSet(line'[l]) <=> Inside(d)' /\ conn'[d] = l
  <2>1. d \in ToSet(line[l]) <=> Inside(d) /\ conn[d] = l
    BY DEF LinesInv
  <2>2. CASE d = c
    BY <1>1, <1>2, <1>3, <2>2 DEF Inside
  <2>3. CASE d # c
    <3>1. (Inside(d)' <=> Inside(d)) /\ conn'[d] = conn[d]
      BY <1>1, <2>3 DEF Inside
    <3>2. d \in ToSet(line'[l]) <=> d \in ToSet(line[l])
      BY <1>1, <1>3, <2>3
    <3> QED BY <2>1, <3>1, <3>2
  <2> QED BY <2>2, <2>3
<1>5. ASSUME NEW d \in Calls, pc'[d] = "answered" PROVE d = Head(line'[conn'[d]])
  <2>1. d # c /\ pc[d] = "answered" /\ conn'[d] = conn[d]
    BY <1>1, <1>5
  <2>2. conn[d] \in Conns /\ d \in ToSet(line[conn[d]]) /\ d = Head(line[conn[d]])
    BY <2>1 DEF LinesInv, Inside, Types
  <2>3. CASE conn[d] = k
    <3>1. line[k] # <<>>
      BY <1>1, <2>2, <2>3, FirstInLine
    <3>2. Head(line'[k]) = Head(line[k])
      <4>1. Head(Append(line[k], c)) = Head(line[k])
        BY <1>1, <3>1, HeadTailAppend
      <4> QED BY <1>1, <4>1
    <3> QED BY <2>1, <2>2, <2>3, <3>2
  <2>4. CASE conn[d] # k
    BY <1>1, <2>1, <2>2, <2>4
  <2> QED BY <2>3, <2>4
<1>6. \A l \in Conns : IsInjective(line'[l])
  BY <1>1, <1>3 DEF LinesInv
<1>7. \A d \in Calls : Inside(d)' => conn'[d] \in up' \cup silent'
  BY <1>1 DEF LinesInv, Inside
<1>8. \A d \in Calls : pc'[d] \in {"new", "connecting"} => conn'[d] = None
  BY <1>1 DEF LinesInv
<1>9. \A d \in Calls : pc'[d] # "new" => request'[d] \in AllRequests
  BY <1>1 DEF LinesInv
<1>10. ASSUME NEW d \in Calls, pc'[d] = "failed" PROVE conn'[d] \notin up' \cup silent'
  BY <1>1, <1>10 DEF LinesInv
<1> QED BY <1>4, <1>5, <1>6, <1>7, <1>8, <1>9, <1>10 DEF LinesInv

(* Nobody else moves, and no connection ends.                               *)
LEMMA JoinsOrdered ==
  ASSUME Types, LinesOrdered, NEW c \in Calls, NEW k \in Conns, Enqueue(c, k),
         late \subseteq late', \A d \in ToSet(line[k]) : c < d => c \in late'
  PROVE  LinesOrdered'
<1> DEFINE n == Len(line[k])
<1>1. /\ n \in Nat /\ DOMAIN line[k] = 1 .. n /\ DOMAIN line'[k] = 1 .. n + 1
      /\ \A i \in 1 .. n : line'[k][i] = line[k][i] /\ line[k][i] \in ToSet(line[k])
      /\ line'[k][n + 1] = c
      /\ \A l \in Conns \ {k} : line'[l] = line[l]
  <2>1. line'[k] = Append(line[k], c) /\ line[k] \in Seq(Calls)
        /\ \A l \in Conns \ {k} : line'[l] = line[l]
    BY DEF Enqueue, Types
  <2> QED BY <2>1, AppendProperties, LenProperties, InToSet
<1> HIDE DEF n
<1>2. ASSUME NEW i \in 1 .. n + 1, NEW j \in 1 .. n + 1, i < j, line'[k][j] < line'[k][i]
      PROVE  line'[k][j] \in late'
  <2>1. i \in 1 .. n
    BY <1>1, <1>2
  <2>2. CASE j = n + 1
    BY <1>1, <1>2, <2>1, <2>2
  <2>3. CASE j # n + 1
    <3>1. j \in 1 .. n
      BY <1>1, <2>3
    <3> QED BY <1>1, <1>2, <2>1, <3>1 DEF LinesOrdered
  <2> QED BY <2>2, <2>3
<1>3. \A l \in Conns \ {k} : \A i, j \in DOMAIN line'[l] :
        i < j /\ line'[l][j] < line'[l][i] => line'[l][j] \in late'
  BY <1>1 DEF LinesOrdered
<1> QED BY <1>1, <1>2, <1>3 DEF LinesOrdered

(* An earlier call of the line stands before the first one only if it had to*)
(* wait for its connection.                                                 *)
LEMMA FirstIsEarliest ==
  ASSUME Types, LinesOrdered, NEW k \in Conns, NEW c, c = Head(line[k]),
         NEW a \in ToSet(line[k]), a < c
  PROVE  a \in late
<1>1. line[k] \in Seq(Calls)
  BY DEF Types
<1>2. PICK i \in 1 .. Len(line[k]) : line[k][i] = a
  BY <1>1, InToSet
<1>3. c = line[k][1] /\ 1 \in DOMAIN line[k] /\ a \in Calls
  BY <1>1, FirstInLine
<1>4. i \in DOMAIN line[k] /\ i \in Nat
  BY <1>1, LenProperties
<1>5. i # 1
  BY <1>2, <1>3, DataQueueAssumption
<1>6. 1 < i
  BY <1>2, <1>4, <1>5
<1> QED BY <1>2, <1>3, <1>4, <1>6 DEF LinesOrdered

(* What is in the queue was answered.                                       *)
LEMMA StoredAnswered ==
  ASSUME Types, EntriesInv
  PROVE  \A w \in ToSet(entries) : w \in Calls /\ reply[w] = "ok"
BY ToSetSubset DEF Types, EntriesInv, Stored, Written

(* The connection of a call belongs to its AS400 object.                    *)
LEMMA ConnOf ==
  ASSUME Types, LinesInv, OwnersInv, NEW c \in Calls
  PROVE  /\ SystemOf[c] \in Systems /\ SystemOf[c] # None /\ None \notin Conns
         /\ pc[c] \in {"new", "connecting"} => conn[c] = None
         /\ Inside(c) => conn[c] \in Conns /\ c \in ToSet(line[conn[c]])
         /\ conn[c] # None => conn[c] \in Conns /\ owner[conn[c]] = SystemOf[c]
<1>1. SystemOf[c] \in Systems /\ None \notin Systems
  BY DataQueueAssumption DEF Systems
<1>2. None \notin Conns
  BY DataQueueAssumption DEF Conns, None
<1> QED BY <1>1, <1>2 DEF Types, LinesInv, OwnersInv, Inside

-----------------------------------------------------------------------------
(* Steps that put no call into a line and answer none.                      *)

(* Calls that return or fail upset no order.                                *)
LEMMA OrderHolds ==
  ASSUME Types, OrderInv, EntriesInv, UNCHANGED <<entries, reply, late, conn>>, LinesOrdered',
         \A d \in Calls :
           \/ pc'[d] = pc[d]
           \/ pc'[d] \in {"returned", "failed"} /\ pc[d] \notin {"new", "failed"}
  PROVE  OrderInv'
<1>1. CalledInOrder'
  BY DEF OrderInv, CalledInOrder
<1>2. \A a, b \in Calls : Before(a, b)' => Before(a, b)
  BY DEF Before
<1>3. ServedAfter'
  BY <1>2 DEF OrderInv, ServedAfter
<1>4. Ordered'
  BY <1>2, StoredAnswered, OrderStays DEF OrderInv
<1>5. \A c \in Calls : pc'[c] = "connecting" => c \in late'
  BY DEF OrderInv
<1> QED BY <1>1, <1>3, <1>4, <1>5 DEF OrderInv

LEMMA ConnectFailsInv ==
  ASSUME QueuesInv, NEW c \in Calls, ConnectFails(c)
  PROVE  QueuesInv'
<1> USE DEF QueuesInv
<1>1. /\ pc[c] = "connecting" /\ pc' = [pc EXCEPT ![c] = "failed"] /\ conn[c] = None
      /\ UNCHANGED <<hostVars, connVars, request, conn, reply, got, historyVars>>
  BY ConnOf DEF ConnectFails
<1> USE DEF hostVars, connVars, historyVars
<1>2. Types'
  BY <1>1 DEF Types
<1>3. /\ \A d \in Calls : Inside(d)' <=> Inside(d)
      /\ \A d \in Calls \ {c} : pc'[d] = pc[d]
      /\ pc'[c] = "failed"
  BY <1>1 DEF Inside, Types
<1>4. LinesInv'
  <2>1. None \notin up \cup silent
    BY ConnOf DEF Types
  <2> QED BY <1>1, <1>3, <2>1 DEF LinesInv
<1>5. OwnersInv'
  BY <1>1 DEF OwnersInv
<1>6. ServedInv'
  BY <1>1, <1>3 DEF ServedInv
<1>7. EntriesInv'
  BY <1>1, EntriesStay
<1>8. OrderInv'
  <2>1. LinesOrdered'
    BY <1>1 DEF OrderInv, LinesOrdered
  <2>2. \A d \in Calls :
           \/ pc'[d] = pc[d]
           \/ pc'[d] \in {"returned", "failed"} /\ pc[d] \notin {"new", "failed"}
    BY <1>1, <1>3
  <2> QED BY <1>1, <2>1, <2>2, OrderHolds
<1> QED BY <1>2, <1>4, <1>5, <1>6, <1>7, <1>8

LEMMA DropInv ==
  ASSUME QueuesInv, NEW k \in Conns, Drop(k)
  PROVE  QueuesInv'
<1> USE DEF QueuesInv
<1>1. /\ k \in up /\ up' = up \ {k} /\ line' = [line EXCEPT ![k] = <<>>]
      /\ pc' = [c \in Calls |-> IF c \in ToSet(line[k]) THEN "failed" ELSE pc[c]]
      /\ orphans' = orphans \cup Orphaned(k)
      /\ UNCHANGED <<order, entries, owner, silent, state, request, conn, reply, got, historyVars>>
  BY DEF Drop
<1> USE DEF historyVars
<1>2. \A c \in ToSet(line[k]) : c \in Calls /\ Inside(c) /\ conn[c] = k /\ k \notin silent
  <2>1. ToSet(line[k]) \subseteq Calls
    BY ToSetSubset DEF Types
  <2> QED BY <1>1, <2>1 DEF LinesInv, Types
<1>3. /\ \A c \in Calls \ ToSet(line[k]) : pc'[c] = pc[c] /\ (Inside(c) => conn[c] # k)
      /\ \A c \in ToSet(line[k]) : pc'[c] = "failed" /\ pc[c] \in {"queued", "answered"}
  BY <1>1, <1>2 DEF LinesInv, Inside
<1>4. line'[k] = <<>> /\ \A l \in Conns \ {k} : line'[l] = line[l]
  BY <1>1 DEF Types
<1>5. Types'
  <2>1. orphans' \subseteq Calls
    BY <1>1, <1>2 DEF Types, Orphaned
  <2>2. line' \in [Conns -> Seq(Calls)]
    BY <1>1 DEF Types
  <2> QED BY <1>1, <2>1, <2>2 DEF Types
<1>6. LinesInv'
  <2>1. \A c \in Calls : Inside(c)' <=> Inside(c) /\ conn[c] # k
    BY <1>2, <1>3 DEF Inside
  <2>2. ToSet(<<>>) = {} /\ IsInjective(<<>>)
    BY DEF ToSet, IsInjective
  <2>3. ASSUME NEW c \in Calls, NEW l \in Conns
        PROVE  c \in ToSet(line'[l]) <=> Inside(c)' /\ conn'[c] = l
    BY <1>1, <1>4, <2>1, <2>2, <2>3 DEF LinesInv
  <2>4. \A l \in Conns : IsInjective(line'[l])
    BY <1>4, <2>2 DEF LinesInv
  <2>5. \A c \in Calls : Inside(c)' => conn'[c] \in up' \cup silent'
    BY <1>1, <2>1 DEF LinesInv
  <2>6. ASSUME NEW c \in Calls, pc'[c] = "answered" PROVE c = Head(line'[conn'[c]])
    <3>1. pc[c] = "answered" /\ conn[c] # k /\ conn[c] \in Conns
      BY <1>3, <2>6, ConnOf DEF Inside
    <3> QED BY <1>1, <1>4, <3>1 DEF LinesInv
  <2>7. \A c \in Calls : pc'[c] = "failed" => conn'[c] \notin up' \cup silent'
    BY <1>1, <1>2, <1>3 DEF LinesInv
  <2>8. /\ \A c \in Calls : pc'[c] \in {"new", "connecting"} => conn'[c] = None
        /\ \A c \in Calls : pc'[c] # "new" => request'[c] \in AllRequests
    BY <1>1, <1>3 DEF LinesInv
  <2> QED BY <2>3, <2>4, <2>5, <2>6, <2>7, <2>8 DEF LinesInv
<1>7. OwnersInv'
  BY <1>1 DEF OwnersInv
<1>8. ServedInv'
  <2>1. ASSUME NEW c \in orphans
        PROVE  /\ c \in Calls /\ pc'[c] = pc[c] /\ conn[c] # k
               /\ conn[c] \in Conns => line'[conn[c]] = line[conn[c]]
    <3>1. c \in Calls /\ conn[c] # k
      BY <1>1 DEF ServedInv, Types
    <3> QED BY <1>2, <1>3, <1>4, <3>1
  <2>2. ASSUME NEW c \in Orphaned(k)
        PROVE  pc'[c] = "failed" /\ reply[c] = "none" /\ conn[c] = k /\ k \notin silent
    BY <1>1, <1>2, <1>3 DEF Orphaned, ServedInv
  <2>3. \A c \in orphans' :
           /\ pc'[c] \in {"queued", "failed"} /\ reply'[c] = "none"
           /\ conn'[c] \in Conns \ up'
           /\ conn'[c] \in silent' => c = Head(line'[conn'[c]])
    BY <1>1, <2>1, <2>2 DEF ServedInv
  <2> QED BY <1>1, <1>3, <2>3 DEF ServedInv
<1>9. EntriesInv'
  BY <1>1, EntriesStay
<1>10. OrderInv'
  <2>1. LinesOrdered'
    <3>1. DOMAIN <<>> = {}
      OBVIOUS
    <3> QED BY <1>1, <1>4, <3>1 DEF OrderInv, LinesOrdered
  <2>2. \A d \in Calls :
           \/ pc'[d] = pc[d]
           \/ pc'[d] \in {"returned", "failed"} /\ pc[d] \notin {"new", "failed"}
    BY <1>1, <1>3
  <2> QED BY <1>1, <2>1, <2>2, OrderHolds
<1> QED BY <1>5, <1>6, <1>7, <1>8, <1>9, <1>10

LEMMA DisconnectServiceInv ==
  ASSUME QueuesInv, NEW k \in Conns, DisconnectService(k)
  PROVE  QueuesInv'
<1> USE DEF QueuesInv
<1>1. /\ k \in up /\ up' = up \ {k} /\ silent' = silent \cup {k}
      /\ orphans' = orphans \cup Orphaned(k)
      /\ UNCHANGED <<order, entries, owner, state, line, pc, request, conn, reply, got, late, cleared>>
  BY DEF DisconnectService, callVars, historyVars
<1>2. \A c \in Orphaned(k) :
        /\ c \in Calls /\ c = Head(line[k]) /\ pc[c] = "queued" /\ conn[c] = k
        /\ reply[c] = "none"
  <2>1. ToSet(line[k]) \subseteq Calls
    BY ToSetSubset DEF Types
  <2> QED BY <1>1, <2>1 DEF Orphaned, LinesInv, ServedInv
<1>3. Types'
  <2>1. orphans' \subseteq Calls
    BY <1>1, <1>2 DEF Types
  <2>2. silent' \subseteq Conns \ up' /\ up' \subseteq Conns
    BY <1>1 DEF Types
  <2> QED BY <1>1, <2>1, <2>2 DEF Types
<1>4. LinesInv'
  <2>1. up' \cup silent' = up \cup silent
    BY <1>1
  <2> QED BY <1>1, <2>1 DEF LinesInv, Inside
<1>5. OwnersInv'
  BY <1>1 DEF OwnersInv
<1>6. ServedInv'
  <2>1. \A c \in orphans : c \in Calls /\ conn[c] # k
    BY <1>1 DEF ServedInv, Types
  <2>2. \A c \in orphans' :
           /\ pc'[c] \in {"queued", "failed"} /\ reply'[c] = "none"
           /\ conn'[c] \in Conns \ up'
           /\ conn'[c] \in silent' => c = Head(line'[conn'[c]])
    BY <1>1, <1>2, <2>1 DEF ServedInv
  <2> QED BY <1>1, <2>2 DEF ServedInv
<1>7. EntriesInv'
  BY <1>1, EntriesStay
<1>8. OrderInv'
  <2>1. LinesOrdered'
    BY <1>1 DEF OrderInv, LinesOrdered
  <2> QED BY <1>1, <2>1, OrderHolds
<1> QED BY <1>3, <1>4, <1>5, <1>6, <1>7, <1>8

(* The first of the line goes, and the places of the others move up.        *)
LEMMA ReturnsInv ==
  ASSUME QueuesInv, NEW c \in Calls, Returns(c)
  PROVE  QueuesInv'
<1> USE DEF QueuesInv
<1>1. PICK k \in Conns : k = conn[c] /\ c = Head(line[k]) /\ c \in ToSet(line[k])
  BY ConnOf DEF Returns, LinesInv, Inside
<1>2. /\ pc[c] = "answered" /\ k \in up
      /\ pc' = [pc EXCEPT ![c] = "returned"]
      /\ line' = [line EXCEPT ![k] = Tail(@)]
      /\ UNCHANGED <<order, entries, orphans, owner, up, silent, state, request, conn, reply, got, late, cleared>>
  BY <1>1 DEF Returns, hostVars, historyVars
<1>3. /\ pc'[c] = "returned" /\ \A d \in Calls \ {c} : pc'[d] = pc[d]
      /\ line'[k] = Tail(line[k]) /\ \A l \in Conns \ {k} : line'[l] = line[l]
      /\ line[k] \in Seq(Calls)
  BY <1>2 DEF Types
<1>4. line[k] # <<>>
  BY <1>1, <1>3, FirstInLine
<1>5. /\ line'[k] \in Seq(Calls) /\ IsInjective(line'[k])
      /\ ToSet(line'[k]) = ToSet(line[k]) \ {c}
  <2>1. IsInjective(line[k])
    BY DEF LinesInv
  <2> DEFINE s == line[k]
  <2>2. s \in Seq(Calls) /\ s # <<>> /\ IsInjective(s)
    BY <1>3, <1>4, <2>1
  <2>3. line'[k] = Tail(s) /\ c = Head(s)
    BY <1>1, <1>3
  <2> HIDE DEF s
  <2>4. Tail(s) \in Seq(Calls) /\ IsInjective(Tail(s)) /\ ToSet(Tail(s)) = ToSet(s) \ {Head(s)}
    BY <2>2, TailInjective
  <2> QED BY <2>3, <2>4 DEF s
<1>6. Types'
  <2>1. line' \in [Conns -> Seq(Calls)]
    BY <1>2, <1>3, <1>5 DEF Types
  <2> QED BY <1>2, <2>1 DEF Types
<1>7. LinesInv'
  <2>1. \A d \in Calls : Inside(d)' <=> Inside(d) /\ d # c
    BY <1>3 DEF Inside
  <2>2. ASSUME NEW d \in Calls, NEW l \in Conns
        PROVE  d \in ToSet(line'[l]) <=> Inside(d)' /\ conn'[d] = l
    <3>1. d \in ToSet(line[l]) <=> Inside(d) /\ conn[d] = l
      BY DEF LinesInv
    <3> QED BY <1>1, <1>2, <1>3, <1>5, <2>1, <3>1
  <2>3. \A l \in Conns : IsInjective(line'[l])
    BY <1>3, <1>5 DEF LinesInv
  <2>4. ASSUME NEW d \in Calls, pc'[d] = "answered" PROVE d = Head(line'[conn'[d]])
    <3>1. d # c /\ pc[d] = "answered" /\ d = Head(line[conn[d]]) /\ conn[d] \in Conns
      BY <1>3, <2>4, ConnOf DEF LinesInv, Inside
    <3>2. conn[d] # k
      BY <1>1, <3>1
    <3> QED BY <1>2, <1>3, <3>1, <3>2
  <2>5. \A d \in Calls : Inside(d)' => conn'[d] \in up' \cup silent'
    BY <1>2, <2>1 DEF LinesInv
  <2>6. /\ \A d \in Calls : pc'[d] = "failed" => conn'[d] \notin up' \cup silent'
        /\ \A d \in Calls : pc'[d] \in {"new", "connecting"} => conn'[d] = None
        /\ \A d \in Calls : pc'[d] # "new" => request'[d] \in AllRequests
    BY <1>2, <1>3 DEF LinesInv
  <2> QED BY <2>2, <2>3, <2>4, <2>5, <2>6 DEF LinesInv
<1>8. OwnersInv'
  BY <1>2 DEF OwnersInv
<1>9. ServedInv'
  <2>1. \A d \in orphans : /\ d \in Calls \ {c} /\ conn[d] \in Conns \ {k}
    BY <1>2 DEF ServedInv, Types
  <2>2. \A d \in orphans :
           /\ pc'[d] \in {"queued", "failed"} /\ reply[d] = "none"
           /\ conn[d] \in Conns \ up
           /\ conn[d] \in silent => d = Head(line'[conn[d]])
    BY <1>3, <2>1 DEF ServedInv
  <2> QED BY <1>2, <1>3, <2>2 DEF ServedInv
<1>10. EntriesInv'
  BY <1>2, EntriesStay
<1>11. OrderInv'
  <2>1. LinesOrdered'
    <3>1. /\ Len(line'[k]) = Len(line[k]) - 1 /\ Len(line[k]) \in Nat
          /\ \A i \in 1 .. Len(line[k]) - 1 : line'[k][i] = line[k][i + 1]
          /\ DOMAIN line'[k] = 1 .. Len(line[k]) - 1 /\ DOMAIN line[k] = 1 .. Len(line[k])
      BY <1>3, <1>4, <1>5, HeadTailProperties, LenProperties
    <3>2. ASSUME NEW i \in DOMAIN line'[k], NEW j \in DOMAIN line'[k],
                 i < j, line'[k][j] < line'[k][i]
          PROVE  line'[k][j] \in late'
      <4>1. i \in 1 .. Len(line[k]) - 1 /\ j \in 1 .. Len(line[k]) - 1
        BY <3>1
      <4>2. line'[k][i] = line[k][i + 1] /\ line'[k][j] = line[k][j + 1]
        BY <3>1, <4>1
      <4>3. i + 1 \in DOMAIN line[k] /\ j + 1 \in DOMAIN line[k] /\ i + 1 < j + 1
        BY <3>1, <3>2, <4>1
      <4> QED BY <1>2, <3>2, <4>2, <4>3 DEF OrderInv, LinesOrdered
    <3>3. ASSUME NEW l \in Conns \ {k}
          PROVE  \A i, j \in DOMAIN line'[l] :
                   i < j /\ line'[l][j] < line'[l][i] => line'[l][j] \in late'
      BY <1>2, <1>3 DEF OrderInv, LinesOrdered
    <3> QED BY <3>2, <3>3 DEF LinesOrdered
  <2>2. \A d \in Calls :
           \/ pc'[d] = pc[d]
           \/ pc'[d] \in {"returned", "failed"} /\ pc[d] \notin {"new", "failed"}
    BY <1>2, <1>3
  <2> QED BY <1>2, <2>1, <2>2, OrderHolds
<1> QED BY <1>6, <1>7, <1>8, <1>9, <1>10, <1>11

LEMMA HostAbandonsInv ==
  ASSUME QueuesInv, NEW c \in Calls, HostAbandons(c)
  PROVE  QueuesInv'
<1> USE DEF QueuesInv
<1>1. /\ orphans' = orphans \ {c}
      /\ UNCHANGED <<order, entries, owner, up, silent, state, line, pc, request, conn, reply, got, late, cleared>>
  BY DEF HostAbandons, connVars, callVars, historyVars
<1>2. Types'
  BY <1>1 DEF Types
<1>3. LinesInv' /\ OwnersInv'
  BY <1>1 DEF LinesInv, Inside, OwnersInv
<1>4. ServedInv'
  BY <1>1 DEF ServedInv
<1>5. EntriesInv'
  BY <1>1, EntriesStay
<1>6. OrderInv'
  <2>1. LinesOrdered'
    BY <1>1 DEF OrderInv, LinesOrdered
  <2> QED BY <1>1, <2>1, OrderHolds
<1> QED BY <1>2, <1>3, <1>4, <1>5, <1>6

LEMMA StutterInv ==
  ASSUME QueuesInv, UNCHANGED vars
  PROVE  QueuesInv'
BY DEF QueuesInv, vars, hostVars, connVars, callVars, historyVars, Types, LinesInv, Inside,
       OwnersInv, ServedInv, EntriesInv, HandedOut, Stored, TakenOnce, NoneLost, Written, Is,
       Takes, IsRead, OrderInv, CalledInOrder, LinesOrdered, ServedAfter, Ordered, Before

-----------------------------------------------------------------------------
(* Steps that put a call into a line.                                       *)

(* Those in the line of a connection are calls of the same AS400 object, and*)
(* were made before.                                                        *)
LEMMA MadeBefore ==
  ASSUME QueuesInv, NEW c \in Calls, pc[c] = "new", NEW d \in Calls,
         conn[d] # None, owner[conn[d]] = SystemOf[c]
  PROVE  ~(c < d)
<1> USE DEF QueuesInv
<1>1. SystemOf[d] = SystemOf[c] /\ pc[d] # "new"
  BY ConnOf
<1> QED BY <1>1 DEF OrderInv, CalledInOrder

LEMMA CallReadyInv ==
  ASSUME QueuesInv, NEW c \in Calls, Call(c), state[SystemOf[c]] \in up
  PROVE  QueuesInv'
<1> USE DEF QueuesInv
<1>1. PICK k \in Conns : k = state[SystemOf[c]] /\ k \in up
  BY DEF Types
<1>2. PICK r \in AllRequests : request' = [request EXCEPT ![c] = r]
  BY DataQueueAssumption DEF Call
<1>3. /\ pc[c] = "new" /\ Enqueue(c, k)
      /\ \A d \in Calls : SystemOf[d] = SystemOf[c] /\ d < c => pc[d] # "new"
      /\ UNCHANGED <<order, entries, orphans, owner, up, silent, state, reply, got, late, cleared>>
  BY <1>1 DEF Call, hostVars
<1>4. /\ pc'[c] = "queued" /\ conn'[c] = k
      /\ \A d \in Calls \ {c} : pc'[d] = pc[d] /\ conn'[d] = conn[d] /\ request'[d] = request[d]
      /\ \A l \in Conns \ {k} : line'[l] = line[l]
  BY <1>2, <1>3 DEF Enqueue, Types
<1>5. /\ conn[c] = None /\ reply[c] = "none" /\ k \notin silent /\ k # None
      /\ owner[k] = SystemOf[c]
  BY <1>1, <1>3, ConnOf DEF ServedInv, OwnersInv, Types
<1>6. Types'
  <2>1. line' \in [Conns -> Seq(Calls)]
    BY <1>3, AppendProperties DEF Enqueue, Types
  <2>2. /\ pc' \in [Calls -> {"new", "connecting", "queued", "answered", "returned", "failed"}]
        /\ conn' \in [Calls -> Conns \cup {None}]
    BY <1>3 DEF Enqueue, Types
  <2>3. request' \in [Calls -> AllRequests \cup {NoRequest}]
    BY <1>2 DEF Types
  <2> QED BY <1>3, <2>1, <2>2, <2>3 DEF Types
<1>7. LinesInv'
  <2>1. request' \in [Calls -> AllRequests \cup {NoRequest}] /\ request'[c] \in AllRequests
    BY <1>2 DEF Types
  <2> QED BY <1>1, <1>3, <1>4, <2>1, Joins
<1>8. OwnersInv'
  BY <1>3, <1>4, <1>5 DEF OwnersInv
<1>9. ServedInv'
  <2>1. \A d \in orphans : d \in Calls \ {c} /\ conn[d] \in Conns \ {k}
    BY <1>1, <1>3 DEF ServedInv, Types
  <2> QED BY <1>3, <1>4, <1>5, <2>1 DEF ServedInv
<1>10. EntriesInv'
  <2>1. \A d \in Calls : request'[d] = request[d] \/ reply[d] = "none"
    BY <1>4, <1>5
  <2> QED BY <1>3, <2>1, EntriesStay
<1>11. CalledInOrder'
  BY <1>3, <1>4 DEF OrderInv, CalledInOrder
<1>12. LinesOrdered'
  <2>1. ASSUME NEW d \in ToSet(line[k]), c < d PROVE FALSE
    <3>1. d \in Calls /\ conn[d] = k
      <4>1. ToSet(line[k]) \subseteq Calls
        BY ToSetSubset DEF Types
      <4> QED BY <4>1 DEF LinesInv
    <3> QED BY <1>3, <1>5, <2>1, <3>1, MadeBefore
  <2> QED BY <1>3, <2>1, JoinsOrdered DEF OrderInv
<1>13. ServedAfter'
  <2>1. ASSUME NEW a \in Calls, NEW b \in Calls, Before(a, b)', pc'[a] = "queued"
        PROVE  reply[b] = "none"
    <3>1. CASE b = c
      BY <1>5, <3>1
    <3>2. CASE b # c /\ a = c
      <4>1. conn[b] = k /\ c < b
        BY <1>4, <2>1, <3>2 DEF Before
      <4> QED BY <1>3, <1>5, <4>1, MadeBefore
    <3>3. CASE b # c /\ a # c
      <4>1. Before(a, b) /\ pc[a] = "queued"
        BY <1>3, <1>4, <2>1, <3>3 DEF Before
      <4> QED BY <4>1 DEF OrderInv, ServedAfter
    <3> QED BY <3>1, <3>2, <3>3
  <2> QED BY <1>3, <2>1 DEF ServedAfter
<1>14. Ordered'
  <2>1. \A a, b \in ToSet(entries) : Before(a, b)' => Before(a, b)
    BY <1>3, <1>4, <1>5, StoredAnswered DEF Before
  <2> QED BY <1>3, <2>1, OrderStays DEF OrderInv
<1>15. \A d \in Calls : pc'[d] = "connecting" => d \in late'
  BY <1>3, <1>4 DEF OrderInv
<1> QED BY <1>6, <1>7, <1>8, <1>9, <1>10, <1>11, <1>12, <1>13, <1>14, <1>15 DEF OrderInv

LEMMA CallUnreadyInv ==
  ASSUME QueuesInv, NEW c \in Calls, Call(c), state[SystemOf[c]] \notin up
  PROVE  QueuesInv'
<1> USE DEF QueuesInv
<1>1. PICK r \in AllRequests : request' = [request EXCEPT ![c] = r]
  BY DataQueueAssumption DEF Call
<1>2. /\ pc[c] = "new" /\ pc' = [pc EXCEPT ![c] = "connecting"] /\ late' = late \cup {c}
      /\ \A d \in Calls : SystemOf[d] = SystemOf[c] /\ d < c => pc[d] # "new"
      /\ UNCHANGED <<order, entries, orphans, owner, up, silent, state, line, conn, reply, got, cleared>>
  BY DEF Call, hostVars
<1>3. /\ pc'[c] = "connecting"
      /\ \A d \in Calls \ {c} : pc'[d] = pc[d] /\ request'[d] = request[d]
      /\ request'[c] \in AllRequests
  BY <1>1, <1>2 DEF Types
<1>4. conn[c] = None /\ reply[c] = "none"
  BY <1>2, ConnOf DEF ServedInv
<1>5. Types'
  BY <1>1, <1>2 DEF Types
<1>6. LinesInv'
  <2>1. \A d \in Calls : Inside(d)' <=> Inside(d)
    BY <1>2, <1>3 DEF Inside
  <2> QED BY <1>2, <1>3, <1>4, <2>1 DEF LinesInv
<1>7. OwnersInv'
  BY <1>2 DEF OwnersInv
<1>8. ServedInv'
  <2>1. \A d \in orphans : d \in Calls \ {c}
    BY <1>2 DEF ServedInv, Types
  <2> QED BY <1>2, <1>3, <1>4, <2>1 DEF ServedInv
<1>9. EntriesInv'
  <2>1. \A d \in Calls : request'[d] = request[d] \/ reply[d] = "none"
    BY <1>3, <1>4
  <2> QED BY <1>2, <2>1, EntriesStay
<1>10. CalledInOrder'
  BY <1>2, <1>3 DEF OrderInv, CalledInOrder
<1>11. LinesOrdered'
  BY <1>2 DEF OrderInv, LinesOrdered
<1>12. \A a, b \in Calls : Before(a, b)' => Before(a, b)
  BY <1>2, <1>3 DEF Before
<1>13. ServedAfter'
  BY <1>2, <1>3, <1>12 DEF OrderInv, ServedAfter
<1>14. Ordered'
  BY <1>2, <1>12, StoredAnswered, OrderStays DEF OrderInv
<1>15. \A d \in Calls : pc'[d] = "connecting" => d \in late'
  BY <1>2, <1>3 DEF OrderInv
<1> QED BY <1>5, <1>6, <1>7, <1>8, <1>9, <1>10, <1>11, <1>13, <1>14, <1>15 DEF OrderInv

(* A connection that is dialled had no call yet.                            *)
LEMMA EnsureDQConnectionInv ==
  ASSUME QueuesInv, NEW c \in Calls, EnsureDQConnection(c)
  PROVE  QueuesInv'
<1> USE DEF QueuesInv
<1>1. PICK k \in Conns :
        /\ \/ k \in up /\ owner[k] = SystemOf[c] /\ UNCHANGED <<owner, up>>
           \/ owner[k] = None /\ owner' = [owner EXCEPT ![k] = SystemOf[c]] /\ up' = up \cup {k}
        /\ state' = [state EXCEPT ![SystemOf[c]] = k]
        /\ Enqueue(c, k)
  BY DEF EnsureDQConnection
<1>2. /\ pc[c] = "connecting"
      /\ UNCHANGED <<order, entries, orphans, silent, request, reply, got, late, cleared>>
  BY DEF EnsureDQConnection, hostVars, historyVars
<1>3. /\ pc'[c] = "queued" /\ conn'[c] = k
      /\ \A d \in Calls \ {c} : pc'[d] = pc[d] /\ conn'[d] = conn[d]
      /\ \A l \in Conns \ {k} : line'[l] = line[l]
  BY <1>1 DEF Enqueue, Types
<1>4. /\ conn[c] = None /\ reply[c] = "none" /\ c \in late /\ request[c] \in AllRequests
      /\ SystemOf[c] \in Systems /\ SystemOf[c] # None /\ k # None
  BY <1>2, ConnOf DEF ServedInv, OrderInv, LinesInv
<1>5. /\ owner' \in [Conns -> Systems \cup {None}] /\ owner'[k] = SystemOf[c]
      /\ \A l \in Conns \ {k} : owner'[l] = owner[l]
  BY <1>1, <1>4 DEF Types
<1>6. k \in up' /\ k \notin silent /\ up' \ {k} = up \ {k} /\ up' \subseteq Conns
  BY <1>1 DEF Types, OwnersInv
<1>7. up' = up \/ (up' = up \cup {k} /\ \A d \in Calls : conn[d] # k)
  <2>1. CASE owner[k] = None /\ up' = up \cup {k}
    BY <1>4, <2>1, ConnOf
  <2> QED BY <1>1, <2>1
<1>8. \A d \in Calls : conn[d] \in up' => conn[d] \in up
  BY <1>7
<1>9. \A d \in Calls : conn[d] # None => owner[conn[d]] # None /\ owner'[conn[d]] = owner[conn[d]]
  <2>1. ASSUME NEW d \in Calls, conn[d] # None
        PROVE  owner[conn[d]] # None /\ owner'[conn[d]] = owner[conn[d]]
    <3>1. owner[conn[d]] # None /\ conn[d] \in Conns
      BY <2>1, ConnOf
    <3>2. CASE conn[d] = k
      BY <1>1, <3>1, <3>2
    <3> QED BY <1>5, <3>1, <3>2
  <2> QED BY <2>1
<1>10. Types'
  <2>1. line' \in [Conns -> Seq(Calls)]
    BY <1>1, AppendProperties DEF Enqueue, Types
  <2>2. /\ pc' \in [Calls -> {"new", "connecting", "queued", "answered", "returned", "failed"}]
        /\ conn' \in [Calls -> Conns \cup {None}]
        /\ state' \in [Systems -> Conns \cup {None}]
    BY <1>1 DEF Enqueue, Types
  <2>3. silent \subseteq Conns \ up'
    BY <1>6 DEF Types
  <2> QED BY <1>2, <1>5, <1>6, <2>1, <2>2, <2>3 DEF Types
<1>11. LinesInv'
  <2>1. /\ request' \in [Calls -> AllRequests \cup {NoRequest}] /\ request'[c] \in AllRequests
        /\ \A d \in Calls \ {c} : request'[d] = request[d]
    BY <1>2, <1>4 DEF Types
  <2> QED BY <1>1, <1>2, <1>6, <1>7, <2>1, Joins
<1>12. OwnersInv'
  <2>1. \A l \in up' \cup silent' : owner'[l] # None
    BY <1>2, <1>4, <1>5, <1>6 DEF OwnersInv, Types
  <2>2. \A d \in Calls : conn'[d] # None => owner'[conn'[d]] = SystemOf[d]
    BY <1>3, <1>5, <1>9 DEF OwnersInv
  <2>3. ASSUME NEW s \in Systems, state'[s] # None PROVE owner'[state'[s]] = s
    <3>1. CASE s = SystemOf[c]
      BY <1>1, <1>5, <3>1 DEF Types
    <3>2. CASE s # SystemOf[c]
      <4>1. state'[s] = state[s] /\ state[s] \in Conns /\ owner[state[s]] = s
        BY <1>1, <2>3, <3>2 DEF OwnersInv, Types
      <4>2. s # None
        BY DataQueueAssumption
      <4>3. state[s] # k
        BY <1>1, <3>2, <4>1, <4>2
      <4> QED BY <1>5, <4>1, <4>3
    <3> QED BY <3>1, <3>2
  <2> QED BY <2>1, <2>2, <2>3 DEF OwnersInv
<1>13. ServedInv'
  <2>1. \A d \in orphans : d \in Calls \ {c} /\ conn[d] \in Conns \ up'
    BY <1>2, <1>8 DEF ServedInv, Types
  <2>2. \A d \in orphans : conn[d] # k
    BY <1>6, <2>1
  <2>3. \A d \in orphans :
           /\ pc'[d] \in {"queued", "failed"} /\ reply[d] = "none"
           /\ conn'[d] \in Conns \ up'
           /\ conn'[d] \in silent => d = Head(line'[conn'[d]])
    BY <1>3, <2>1, <2>2 DEF ServedInv
  <2> QED BY <1>2, <1>3, <1>4, <1>8, <2>3 DEF ServedInv
<1>14. EntriesInv'
  BY <1>2, EntriesStay
<1>15. CalledInOrder'
  BY <1>2, <1>3 DEF OrderInv, CalledInOrder
<1>16. LinesOrdered'
  BY <1>1, <1>2, <1>4, JoinsOrdered DEF OrderInv
<1>17. ServedAfter'
  <2>1. ASSUME NEW a \in Calls, NEW b \in Calls, Before(a, b)', pc'[a] = "queued"
        PROVE  reply[b] = "none"
    <3>1. CASE b = c
      BY <1>4, <3>1
    <3>2. CASE b # c
      <4>1. Before(a, b) /\ pc[a] = "queued"
        BY <1>2, <1>3, <1>4, <2>1, <3>2 DEF Before
      <4> QED BY <4>1 DEF OrderInv, ServedAfter
    <3> QED BY <3>1, <3>2
  <2> QED BY <1>2, <2>1 DEF ServedAfter
<1>18. Ordered'
  <2>1. \A a, b \in ToSet(entries) : Before(a, b)' => Before(a, b)
    BY <1>2, <1>3, <1>4, StoredAnswered DEF Before
  <2> QED BY <1>2, <2>1, OrderStays DEF OrderInv
<1>19. \A d \in Calls : pc'[d] = "connecting" => d \in late'
  BY <1>2, <1>3 DEF OrderInv
<1> QED BY <1>10, <1>11, <1>12, <1>13, <1>14, <1>15, <1>16, <1>17, <1>18, <1>19 DEF OrderInv

-----------------------------------------------------------------------------
(* Steps that answer a call.                                                *)

(* What every answer leaves in order: c was not answered yet, nobody waits  *)
(* who must come before it, and nothing in the queue was to come after it.  *)
LEMMA ServeOrder ==
  ASSUME QueuesInv, NEW c \in Calls, reply[c] = "none", pc[c] \in {"queued", "failed"},
         Puts(c) \/ Hands(c) \/ Thins(c) \/ Spares(c),
         UNCHANGED <<line, conn, late>>,
         \A d \in Calls \ {c} : pc'[d] = pc[d],
         pc'[c] = pc[c] \/ (pc[c] = "queued" /\ pc'[c] = "answered"),
         \A a \in Calls : Before(a, c) => pc[a] # "queued"
  PROVE  OrderInv'
<1> USE DEF QueuesInv
<1>1. \A d \in Calls \ {c} : reply'[d] = reply[d]
  BY ServedTypes
<1>2. \A a, b \in Calls : Before(a, b)' <=> Before(a, b)
  BY DEF Before
<1>3. CalledInOrder' /\ LinesOrdered' /\ \A d \in Calls : pc'[d] = "connecting" => d \in late'
  BY DEF OrderInv, CalledInOrder, LinesOrdered
<1>4. ServedAfter'
  <2>1. ASSUME NEW a \in Calls, NEW b \in Calls, Before(a, b)', pc'[a] = "queued"
        PROVE  reply'[b] = "none"
    <3>1. Before(a, b) /\ pc[a] = "queued"
      BY <1>2, <2>1
    <3>2. b # c /\ reply[b] = "none"
      BY <3>1 DEF OrderInv, ServedAfter
    <3> QED BY <1>1, <3>2
  <2> QED BY <2>1 DEF ServedAfter
<1>5. Ordered'
  <2>1. ASSUME NEW b \in ToSet(entries) \cup {c} PROVE ~Before(c, b)
    <3>1. CASE pc[c] = "failed"
      BY <3>1 DEF Before
    <3>2. CASE b = c
      BY <3>2, DataQueueAssumption DEF Before
    <3>3. CASE pc[c] = "queued" /\ b # c
      BY <3>3, StoredAnswered DEF OrderInv, ServedAfter
    <3> QED BY <3>1, <3>2, <3>3
  <2>2. \A a, b \in ToSet(entries) \cup {c} : Before(a, b)' => Before(a, b)
    BY <1>2, StoredAnswered
  <2> QED BY <2>1, <2>2, ServedOrder DEF OrderInv
<1> QED BY <1>3, <1>4, <1>5 DEF OrderInv

LEMMA HostServesInv ==
  ASSUME QueuesInv, NEW c \in Calls, HostServes(c)
  PROVE  QueuesInv'
<1> USE DEF QueuesInv
<1>1. /\ pc[c] = "queued" /\ conn[c] \in up /\ c = Head(line[conn[c]]) /\ Serve(c)
      /\ pc' = [pc EXCEPT ![c] = "answered"]
      /\ UNCHANGED <<orphans, owner, up, silent, state, line, request, conn, late>>
  BY DEF HostServes, connVars
<1>2. /\ conn[c] \in Conns /\ reply[c] = "none" /\ request[c] \in AllRequests
  BY <1>1, ConnOf DEF LinesInv, ServedInv, Inside
<1>3. order' \in Orders \cup {"none"} /\ (Puts(c) \/ Hands(c) \/ Thins(c) \/ Spares(c))
  BY <1>1, <1>2, ServeDoes
<1>4. /\ entries' \in Seq(Calls) /\ cleared' \subseteq Calls
      /\ reply' \in [Calls -> Outcomes] /\ got' \in [Calls -> Calls \cup {None}]
      /\ \A d \in Calls \ {c} : reply'[d] = reply[d]
  BY <1>3, ServedTypes
<1>5. pc'[c] = "answered" /\ \A d \in Calls \ {c} : pc'[d] = pc[d]
  BY <1>1 DEF Types
<1>6. Types'
  BY <1>1, <1>3, <1>4 DEF Types
<1>7. LinesInv'
  <2>1. \A d \in Calls : Inside(d)' <=> Inside(d)
    BY <1>1, <1>5 DEF Inside
  <2> QED BY <1>1, <1>5, <2>1 DEF LinesInv
<1>8. OwnersInv'
  BY <1>1 DEF OwnersInv
<1>9. ServedInv'
  <2>1. \A d \in orphans : d \in Calls \ {c}
    BY <1>1 DEF ServedInv, Types
  <2> QED BY <1>1, <1>4, <1>5, <2>1 DEF ServedInv
<1>10. EntriesInv'
  BY <1>1, <1>2, <1>3, ServedEntries
<1>11. OrderInv'
  <2>1. ASSUME NEW a \in Calls, Before(a, c), pc[a] = "queued" PROVE FALSE
    <3>1. a \in ToSet(line[conn[c]]) /\ a < c /\ a \notin late
      BY <2>1, ConnOf DEF Before, Inside
    <3> QED BY <1>1, <1>2, <3>1, FirstIsEarliest DEF OrderInv
  <2> QED BY <1>1, <1>2, <1>3, <1>5, <2>1, ServeOrder
<1> QED BY <1>6, <1>7, <1>8, <1>9, <1>10, <1>11

(* The client of an orphan has failed, or waits for ever at the head of a   *)
(* line that nobody empties.                                                *)
LEMMA HostServesOrphanInv ==
  ASSUME QueuesInv, NEW c \in Calls, HostServesOrphan(c)
  PROVE  QueuesInv'
<1> USE DEF QueuesInv
<1>1. /\ c \in orphans /\ Serve(c) /\ orphans' = orphans \ {c}
      /\ UNCHANGED <<owner, up, silent, state, line, pc, request, conn, late>>
  BY DEF HostServesOrphan, connVars
<1>2. /\ pc[c] \in {"queued", "failed"} /\ reply[c] = "none" /\ request[c] \in AllRequests
      /\ conn[c] \in Conns \ up
      /\ conn[c] \in silent => c = Head(line[conn[c]])
  BY <1>1 DEF LinesInv, ServedInv
<1>3. order' \in Orders \cup {"none"} /\ (Puts(c) \/ Hands(c) \/ Thins(c) \/ Spares(c))
  BY <1>1, <1>2, ServeDoes
<1>4. /\ entries' \in Seq(Calls) /\ cleared' \subseteq Calls
      /\ reply' \in [Calls -> Outcomes] /\ got' \in [Calls -> Calls \cup {None}]
      /\ \A d \in Calls \ {c} : reply'[d] = reply[d]
  BY <1>3, ServedTypes
<1>5. Types'
  BY <1>1, <1>3, <1>4 DEF Types
<1>6. LinesInv' /\ OwnersInv'
  BY <1>1 DEF LinesInv, Inside, OwnersInv
<1>7. ServedInv'
  BY <1>1, <1>2, <1>4 DEF ServedInv, Types
<1>8. EntriesInv'
  BY <1>1, <1>2, <1>3, ServedEntries
<1>9. OrderInv'
  <2>1. ASSUME NEW a \in Calls, Before(a, c), pc[a] = "queued" PROVE FALSE
    <3>1. a \in ToSet(line[conn[c]]) /\ a < c /\ a \notin late /\ conn[c] \in silent
      BY <1>2, <2>1, ConnOf DEF Before, Inside, LinesInv
    <3> QED BY <1>2, <3>1, FirstIsEarliest DEF OrderInv
  <2> QED BY <1>1, <1>2, <1>3, <2>1, ServeOrder
<1> QED BY <1>5, <1>6, <1>7, <1>8, <1>9

-----------------------------------------------------------------------------
(* The theorems.                                                            *)

LEMMA NextQueuesInv == QueuesInv /\ [Next]_vars => QueuesInv'
<1> SUFFICES ASSUME QueuesInv, [Next]_vars PROVE QueuesInv'
  OBVIOUS
<1>1. ASSUME NEW c \in Calls, Call(c) PROVE QueuesInv'
  BY <1>1, CallReadyInv, CallUnreadyInv
<1>2. ASSUME NEW c \in Calls, EnsureDQConnection(c) PROVE QueuesInv'
  BY <1>2, EnsureDQConnectionInv
<1>3. ASSUME NEW c \in Calls, ConnectFails(c) PROVE QueuesInv'
  BY <1>3, ConnectFailsInv
<1>4. ASSUME NEW c \in Calls, Returns(c) PROVE QueuesInv'
  BY <1>4, ReturnsInv
<1>5. ASSUME NEW c \in Calls, HostServes(c) PROVE QueuesInv'
  BY <1>5, HostServesInv
<1>6. ASSUME NEW c \in Calls, HostServesOrphan(c) PROVE QueuesInv'
  BY <1>6, HostServesOrphanInv
<1>7. ASSUME NEW c \in Calls, HostAbandons(c) PROVE QueuesInv'
  BY <1>7, HostAbandonsInv
<1>8. ASSUME NEW k \in Conns, Drop(k) \/ DisconnectService(k) PROVE QueuesInv'
  BY <1>8, DropInv, DisconnectServiceInv
<1>9. CASE UNCHANGED vars
  BY <1>9, StutterInv
<1> QED BY <1>1, <1>2, <1>3, <1>4, <1>5, <1>6, <1>7, <1>8, <1>9 DEF Next, CallStep

LEMMA AlwaysQueuesInv == Spec => []QueuesInv
BY InitQueuesInv, NextQueuesInv, PTL DEF Spec

(* DataQueues: every variable has its type, and a call is inside            *)
(* sendAndReceive() exactly while it stands in the line of a connection of  *)
(* its AS400 object that has not told the reader of its end.                *)
THEOREM TypeCorrect == Spec => []TypeOK
<1>1. QueuesInv => TypeOK
  <2> SUFFICES ASSUME QueuesInv PROVE TypeOK
    OBVIOUS
  <2> USE DEF QueuesInv
  <2>1. ASSUME NEW c \in Calls
        PROVE  pc[c] \in {"queued", "answered"} <=>
                 \E k \in up \cup silent :
                   c \in ToSet(line[k]) /\ conn[c] = k /\ owner[k] = SystemOf[c]
    <3>1. CASE Inside(c)
      <4>1. conn[c] \in up \cup silent /\ c \in ToSet(line[conn[c]]) /\ owner[conn[c]] = SystemOf[c]
        BY <3>1, ConnOf DEF LinesInv
      <4> QED BY <3>1, <4>1 DEF Inside
    <3>2. CASE ~Inside(c)
      BY <3>2 DEF LinesInv, Types, Inside
    <3> QED BY <3>1, <3>2
  <2> QED BY <2>1 DEF TypeOK, Types
<1> QED BY <1>1, AlwaysQueuesInv, PTL

(* DataQueue.write(), read(), clear() and delete(), and those of a keyed    *)
(* queue: whatever connections end and whatever the host still does at the  *)
(* requests of calls that failed, an entry that was written is in the queue,*)
(* was cleared, or was taken by one destructive read, and only one of the   *)
(* three; a read that has taken an entry returns it unless its connection is*)
(* gone.                                                                    *)
THEOREM EntriesKept == Spec => []EntriesAccounted
<1>1. QueuesInv => EntriesAccounted
  <2> SUFFICES ASSUME QueuesInv PROVE EntriesAccounted
    OBVIOUS
  <2> USE DEF QueuesInv
  <2>1. ASSUME NEW r \in Calls, got[r] # None
        PROVE  pc[r] = "returned" \/ pc[r] = "answered" \/ conn[r] \notin up
    <3>1. reply[r] # "none"
      BY <2>1 DEF EntriesInv, HandedOut
    <3>2. pc[r] \notin {"new", "connecting"} /\ ~(pc[r] = "queued" /\ conn[r] \in up)
      BY <3>1 DEF ServedInv
    <3>3. pc[r] = "failed" => conn[r] \notin up
      BY DEF LinesInv
    <3> QED BY <3>2, <3>3 DEF Types
  <2>2. IsInjective(entries) /\ None \notin Calls
    BY DataQueueAssumption DEF EntriesInv, Stored
  <2>3. ASSUME NEW w \in Calls
        PROVE  /\ w \in ToSet(entries) =>
                    {r \in Calls : Takes(r) /\ got[r] = w} = {} /\ w \notin cleared
               /\ {r \in Calls : Takes(r) /\ got[r] = w} # {} => w \notin cleared
               /\ \A r, other \in {r \in Calls : Takes(r) /\ got[r] = w} :
                    r = other /\ (pc[r] = "returned" \/ pc[r] = "answered" \/ conn[r] \notin up)
               /\ reply[w] = "ok" /\ Is(w, "write") =>
                    w \in ToSet(entries) \/ w \in cleared
                      \/ {r \in Calls : Takes(r) /\ got[r] = w} # {}
    <3>1. \A r \in Calls : Takes(r) /\ got[r] = w => w \notin ToSet(entries) \cup cleared
      BY <2>2 DEF EntriesInv, TakenOnce
    <3>2. \A q, r \in Calls : Takes(q) /\ got[q] = w /\ Takes(r) /\ got[r] = w => q = r
      BY <2>2 DEF EntriesInv, TakenOnce
    <3>3. w \in ToSet(entries) => w \notin cleared
      BY DEF EntriesInv, Stored
    <3>4. reply[w] = "ok" /\ Is(w, "write") =>
            w \in ToSet(entries) \cup cleared \/ \E r \in Calls : Takes(r) /\ got[r] = w
      BY DEF EntriesInv, NoneLost, Written
    <3> QED BY <2>1, <2>2, <3>1, <3>2, <3>3, <3>4
  <2> QED BY <2>2, <2>3 DEF EntriesAccounted
<1> QED BY <1>1, AlwaysQueuesInv, PTL

(* sendAndReceive() of the data queue connection: writes of one AS400 object*)
(* that go through the same connection are in the queue in the order of the *)
(* calls, if the first had not to wait for the connection and has not       *)
(* failed.                                                                  *)
THEOREM WritesInOrder == Spec => []WritesKeepOrder
<1>1. QueuesInv => WritesKeepOrder
  BY DEF QueuesInv, OrderInv, Ordered, Before, WritesKeepOrder
<1> QED BY <1>1, AlwaysQueuesInv, PTL
=============================================================================
