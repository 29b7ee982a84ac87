------------------------ MODULE BatchExecution_proof ------------------------
(***************************************************************************)
(* Proofs about BatchExecution, for any calls and batches, any chunk size  *)
(* and any limit on the rows of a request.                                 *)
(***************************************************************************)
EXTENDS BatchExecution, Integers, SequencesExt, SequenceTheorems, FiniteSetTheorems,
        WellFoundedInduction, TLAPS

-----------------------------------------------------------------------------
(* Lists without duplicates, and the sets of their elements.                *)

(* The elements of a list, by their index.                                  *)
LEMMA InToSet ==
  ASSUME NEW S, NEW s \in Seq(S), NEW e
  PROVE  e \in ToSet(s) <=> \E i \in 1..Len(s) : s[i] = e
BY DEF ToSet

(* A list without duplicates, by its indices.                               *)
LEMMA InjectiveSeq ==
  ASSUME NEW S, NEW s \in Seq(S)
  PROVE  IsInjective(s) <=> \A i, j \in 1..Len(s) : s[i] = s[j] => i = j
BY DEF IsInjective

(* The elements of a list of S are in S.                                    *)
LEMMA ToSetSubset ==
  ASSUME NEW S, NEW s \in Seq(S)
  PROVE  ToSet(s) \subseteq S
BY DEF ToSet

(* A list with a new element at its end.                                    *)
LEMMA PushInjective ==
  ASSUME NEW S, NEW s \in Seq(S), NEW e \in S, IsInjective(s), e \notin ToSet(s)
  PROVE  /\ Append(s, e) \in Seq(S)
         /\ IsInjective(Append(s, e))
         /\ ToSet(Append(s, e)) = ToSet(s) \cup {e}
<1> DEFINE t == Append(s, e)
<1>1. /\ t \in Seq(S) /\ Len(s) \in Nat /\ Len(t) = Len(s) + 1 /\ t[Len(s) + 1] = e
      /\ \A i \in 1..Len(s) : t[i] = s[i]
  BY AppendProperties, LenProperties
<1>2. \A i \in 1..Len(s) : s[i] # e
  BY InToSet
<1> HIDE DEF t
<1>3. IsInjective(t)
  BY <1>1, <1>2 DEF IsInjective
<1>4. \A i \in 1..Len(t) : i \in 1..Len(s) \/ i = Len(s) + 1
  BY <1>1
<1>5. 1..Len(s) \subseteq 1..Len(t) /\ Len(s) + 1 \in 1..Len(t)
  BY <1>1
<1>6. \A d : d \in ToSet(t) <=> \E i \in 1..Len(t) : t[i] = d
  BY <1>1, InToSet
<1>7. \A d : d \in ToSet(s) <=> \E i \in 1..Len(s) : s[i] = d
  BY InToSet
<1>8. \A d : d \in ToSet(t) <=> d \in ToSet(s) \/ d = e
  BY <1>1, <1>4, <1>5, <1>6, <1>7
<1> QED BY <1>1, <1>3, <1>8 DEF t

(* What is left when the first element is taken.                            *)
LEMMA TailInjective ==
  ASSUME NEW S, NEW s \in Seq(S), s # <<>>, IsInjective(s)
  PROVE  /\ Tail(s) \in Seq(S)
         /\ Head(s) \in ToSet(s)
         /\ IsInjective(Tail(s))
         /\ ToSet(Tail(s)) = ToSet(s) \ {Head(s)}
<1> DEFINE t == Tail(s)
<1>1. /\ Len(s) \in Nat \ {0} /\ t \in Seq(S) /\ Head(s) = s[1] /\ Len(t) = Len(s) - 1
      /\ \A j \in 1..(Len(s) - 1) : t[j] = s[j + 1]
  BY HeadTailProperties, EmptySeq, LenProperties
<1>2. \A j, k \in 1..Len(s) : s[j] = s[k] => j = k
  BY DEF IsInjective
<1> HIDE DEF t
<1>3. IsInjective(t)
  BY <1>1, <1>2 DEF IsInjective
<1>4. \A k \in 1..Len(t) : k + 1 \in 1..Len(s) /\ t[k] = s[k + 1] /\ s[k + 1] # s[1]
  BY <1>1, <1>2
<1>5. \A j \in 1..Len(s) : s[j] # s[1] => j - 1 \in 1..Len(t) /\ t[j - 1] = s[j]
  BY <1>1
<1>6. /\ \A e : e \in ToSet(t) <=> \E k \in 1..Len(t) : t[k] = e
      /\ \A e : e \in ToSet(s) <=> \E k \in 1..Len(s) : s[k] = e
  BY <1>1, InToSet
<1>7. \A e \in ToSet(t) : e \in ToSet(s) /\ e # s[1]
  BY <1>4, <1>6
<1>8. \A e \in ToSet(s) : e # s[1] => e \in ToSet(t)
  BY <1>5, <1>6
<1>9. s[1] \in ToSet(s)
  BY <1>1, <1>6
<1> QED BY <1>1, <1>3, <1>7, <1>8, <1>9 DEF t

-----------------------------------------------------------------------------
(* The invariant.                                                           *)

States == {"idle", "ready", "change", "execute", "done", "rejected",
           "rejected with counts"}

Types ==
  /\ pc \in [Calls -> States]
  /\ mode \in [Calls -> Modes]
  /\ rows \in [Calls -> Seq(1..FullWidth)]
  /\ from \in [Calls -> Nat]
  /\ at \in [Calls -> Nat]
  /\ counts = [c \in Calls |-> counts[c]]
  /\ cancelled \in BOOLEAN
  /\ up \in BOOLEAN

Waits(c) == pc[c] \in {"change", "execute"}

(* Who waits for a reply is in the queue, once; when the connection is lost *)
(* nobody enters it any more and none of those in it will know.             *)
QueueInv ==
  /\ queue \in Seq(Calls)
  /\ IsInjective(queue)
  /\ \A c \in Calls : c \in ToSet(queue) <=> Waits(c)
  /\ ~up => ToSet(queue) \subseteq blind

(* Where a call is in its rows.                                             *)
Shape(c) ==
  pc[c] # "idle" =>
    /\ rows[c] \in Batches
    /\ from[c] \in 1..Len(rows[c])
    /\ at[c] \in from[c]..Len(rows[c])
    /\ at[c] <= End(c)
    /\ pc[c] \in {"ready", "change"} => at[c] = from[c]
    /\ counts[c] \in [1..Len(rows[c]) -> {"none", "done", "failed"}]

(* What a running call knows: the rows of the engine calls before are in    *)
(* its counts, those of the requests before are done, the rest is not, and  *)
(* a call that counts on its order has done all rows before.                *)
Accounts(c) ==
  /\ \A i \in 1..(from[c] - 1) :
       /\ counts[c][i] # "none"
       /\ counts[c][i] = "done" => <<c, i>> \in written
       /\ counts[c][i] = "failed" /\ c \notin blind => <<c, i>> \notin written
  /\ \A i \in from[c]..(at[c] - 1) : <<c, i>> \in written
  /\ c \notin blind => \A i \in at[c]..Len(rows[c]) : <<c, i>> \notin written
  /\ IsBatch(c) => \A i \in 1..(at[c] - 1) : <<c, i>> \in written

Counted(c) ==
  \A i \in DOMAIN rows[c] :
    /\ counts[c][i] # "none"
    /\ counts[c][i] = "done" => <<c, i>> \in written
    /\ counts[c][i] = "failed" /\ c \notin blind => <<c, i>> \notin written

Ordered(c) ==
  IsBatch(c) =>
    \A i \in DOMAIN rows[c] : <<c, i>> \in written => \A j \in 1..i : <<c, j>> \in written

Good(c) ==
  /\ pc[c] = "idle" => \A i \in Nat : <<c, i>> \notin written
  /\ Running(c) => Accounts(c)
  /\ pc[c] \in {"done", "rejected with counts"} => Counted(c)
  /\ pc[c] # "idle" => Ordered(c)

BatchInv == Types /\ QueueInv /\ \A c \in Calls : Shape(c) /\ Good(c)

-----------------------------------------------------------------------------
(* Arithmetic of chunks and requests.                                       *)

LEMMA MinOfTwo ==
  ASSUME NEW a \in Int, NEW b \in Int
  PROVE  Min({a, b}) = IF a <= b THEN a ELSE b
<1>1. \E x \in {a, b} : \A y \in {a, b} : x =< y
  OBVIOUS
<1>2. Min({a, b}) \in {a, b} /\ \A y \in {a, b} : Min({a, b}) =< y
  BY <1>1 DEF Min
<1> QED BY <1>2

(* An engine call ends within the rows of its call; one that is not a batch *)
(* has one row.                                                             *)
LEMMA EndBounds ==
  ASSUME NEW c \in Calls, rows[c] \in Seq(1..FullWidth), from[c] \in 1..Len(rows[c])
  PROVE  /\ End(c) \in from[c]..Len(rows[c])
         /\ ~IsBatch(c) => End(c) = from[c]
<1>1. Len(rows[c]) \in Nat /\ ChunkSize \in Nat /\ ChunkSize >= 1
  BY BatchAssumption, LenProperties
<1>2. Min({from[c] + ChunkSize - 1, Len(rows[c])}) \in from[c]..Len(rows[c])
  BY SMTT(30), <1>1, MinOfTwo
<1> QED BY <1>1, <1>2 DEF End, IsBatch

(* The rows of a request: up to MaxBlock, and none beyond the engine call.  *)
LEMMA BlockBounds ==
  ASSUME NEW c \in Calls, Types, Shape(c), Running(c)
  PROVE  /\ Cardinality(Block(c)) \in 1..MaxBlock
         /\ at[c] + Cardinality(Block(c)) <= End(c) + 1
         /\ IsLastBlock(c) => at[c] + Cardinality(Block(c)) = End(c) + 1
         /\ ~IsLastBlock(c) => /\ Cardinality(Block(c)) = MaxBlock
                               /\ at[c] + MaxBlock <= End(c)
<1> DEFINE m == Min({at[c] + MaxBlock - 1, End(c)})
<1>1. MaxBlock \in Nat /\ MaxBlock >= 1
  BY BatchAssumption
<1>2. at[c] \in Nat /\ End(c) \in Nat /\ at[c] <= End(c)
  <2>1. from[c] \in 1..Len(rows[c]) /\ rows[c] \in Seq(1..FullWidth) /\ at[c] <= End(c)
    BY DEF Shape, Running, Types
  <2>2. End(c) \in from[c]..Len(rows[c])
    BY <2>1, EndBounds
  <2> QED BY <2>1, <2>2, LenProperties DEF Types
<1>3. m = IF at[c] + MaxBlock - 1 <= End(c) THEN at[c] + MaxBlock - 1 ELSE End(c)
  BY <1>1, <1>2, MinOfTwo
<1>4. Block(c) = at[c]..m
  BY DEF Block
<1> HIDE DEF m
<1>5. m \in Nat /\ m >= at[c] /\ m <= End(c) /\ m - at[c] + 1 <= MaxBlock
  BY <1>1, <1>2, <1>3
<1>6. Cardinality(Block(c)) = m - at[c] + 1
  <2>1. Cardinality(at[c]..m) = IF at[c] > m THEN 0 ELSE m - at[c] + 1
    <3>1. at[c] \in Int /\ m \in Int
      BY <1>2, <1>5
    <3> QED BY <3>1, FS_Interval, Zenon
  <2> QED BY <1>2, <1>4, <1>5, <2>1
<1>7. IsLastBlock(c) <=> m = End(c)
  BY <1>2, <1>4, <1>5 DEF IsLastBlock
<1> QED BY <1>1, <1>2, <1>3, <1>5, <1>6, <1>7

-----------------------------------------------------------------------------
(* What a call knows when its engine call ends: the rows before n are done, *)
(* the others not.                                                          *)

Known(c, n) ==
  /\ n \in from[c]..(End(c) + 1)
  /\ \A i \in 1..(from[c] - 1) :
       /\ counts[c][i] # "none"
       /\ counts[c][i] = "done" => <<c, i>> \in written'
       /\ counts[c][i] = "failed" /\ c \notin blind' => <<c, i>> \notin written'
  /\ \A i \in from[c]..(n - 1) : <<c, i>> \in written'
  /\ c \notin blind' => \A i \in n..Len(rows[c]) : <<c, i>> \notin written'
  /\ IsBatch(c) => \A i \in 1..(from[c] - 1) : <<c, i>> \in written'
  /\ IsBatch(c) => \A i \in DOMAIN rows[c] : <<c, i>> \in written' =>
                     \A j \in 1..i : <<c, j>> \in written'

(* The numbers a running call works with.                                   *)
LEMMA Numbers ==
  ASSUME NEW c \in Calls, Types, Shape(c), Running(c)
  PROVE  /\ rows[c] \in Seq(1..FullWidth) /\ Len(rows[c]) \in Nat
         /\ DOMAIN rows[c] = 1..Len(rows[c])
         /\ from[c] \in Nat /\ 1 <= from[c] /\ from[c] <= at[c] /\ at[c] \in Nat
         /\ at[c] <= End(c) /\ End(c) \in Nat /\ End(c) <= Len(rows[c])
         /\ ~IsBatch(c) => End(c) = from[c]
<1>1. rows[c] \in Seq(1..FullWidth)
  BY DEF Types
<1>2. Len(rows[c]) \in Nat /\ DOMAIN rows[c] = 1..Len(rows[c])
  BY <1>1, LenProperties
<1>3. from[c] \in 1..Len(rows[c]) /\ at[c] \in from[c]..Len(rows[c]) /\ at[c] <= End(c)
  BY DEF Shape, Running
<1>4. End(c) \in from[c]..Len(rows[c]) /\ (~IsBatch(c) => End(c) = from[c])
  BY <1>1, <1>3, EndBounds
<1> QED BY <1>1, <1>2, <1>3, <1>4

(* Nothing was executed since, and the request is the first of its engine   *)
(* call, or the client does not hear what was.                              *)
LEMMA KnownBefore ==
  ASSUME NEW c \in Calls, Types, Shape(c), Good(c), Running(c),
         written' = written, blind \subseteq blind',
         at[c] = from[c] \/ c \in blind'
  PROVE  Known(c, from[c])
<1>1. Accounts(c) /\ Ordered(c)
  BY DEF Good, Running
<1>2. IsBatch(c) => \A i \in 1..(from[c] - 1) : i \in 1..(at[c] - 1)
  BY Numbers
<1>3. from[c] \in from[c]..(End(c) + 1)
  BY Numbers
<1>4. c \notin blind' => \A i \in from[c]..Len(rows[c]) : <<c, i>> \notin written'
  BY <1>1 DEF Accounts
<1>5. \A i \in from[c]..(from[c] - 1) : <<c, i>> \in written'
  BY Numbers
<1> QED BY <1>1, <1>2, <1>3, <1>4, <1>5 DEF Known, Accounts, Ordered

(* The host has executed k rows of the request.                             *)
LEMMA KnownRuns ==
  ASSUME NEW c \in Calls, Types, Shape(c), Good(c), Running(c),
         NEW k \in Nat, Runs(c, k), at[c] + k <= End(c) + 1, blind \subseteq blind',
         NEW n, n = at[c] + k
  PROVE  /\ Known(c, n)
         /\ IsBatch(c) => \A i \in 1..(n - 1) : <<c, i>> \in written'
<1>1. Accounts(c) /\ Ordered(c)
  BY DEF Good, Running
<1>2. \A i \in Nat : <<c, i>> \in written' <=> <<c, i>> \in written \/ i \in at[c]..(n - 1)
  <2>1. ASSUME NEW i \in Nat, NEW j \in 0..k - 1, <<c, i>> = <<c, at[c] + j>>
        PROVE  i \in at[c]..(n - 1)
    BY <2>1, Numbers
  <2>2. ASSUME NEW i \in at[c]..(n - 1)
        PROVE  \E j \in 0..k - 1 : <<c, i>> = <<c, at[c] + j>>
    <3>1. i - at[c] \in 0..k - 1 /\ i = at[c] + (i - at[c])
      BY Numbers
    <3> QED BY <3>1
  <2> QED BY <2>1, <2>2 DEF Runs
<1>3. n \in Nat /\ n >= from[c] /\ n <= End(c) + 1
  BY Numbers
<1>4. ASSUME NEW i \in 1..(from[c] - 1)
      PROVE  i \in Nat /\ i \notin at[c]..(n - 1) /\ i \in 1..(at[c] - 1)
  BY Numbers
<1>5. \A i \in 1..(from[c] - 1) :
       /\ counts[c][i] # "none"
       /\ counts[c][i] = "done" => <<c, i>> \in written'
       /\ counts[c][i] = "failed" /\ c \notin blind' => <<c, i>> \notin written'
  BY <1>1, <1>2, <1>4 DEF Accounts
<1>6. \A i \in from[c]..(n - 1) : <<c, i>> \in written'
  <2> SUFFICES ASSUME NEW i \in from[c]..(n - 1) PROVE <<c, i>> \in written'
    OBVIOUS
  <2>1. i \in Nat /\ (i \in from[c]..(at[c] - 1) \/ i \in at[c]..(n - 1))
    BY Numbers
  <2> QED BY <1>1, <1>2, <2>1 DEF Accounts
<1>7. c \notin blind' => \A i \in n..Len(rows[c]) : <<c, i>> \notin written'
  <2> SUFFICES ASSUME c \notin blind', NEW i \in n..Len(rows[c])
               PROVE  <<c, i>> \notin written'
    OBVIOUS
  <2>1. i \in Nat /\ i \notin at[c]..(n - 1) /\ i \in at[c]..Len(rows[c])
    BY Numbers
  <2> QED BY <1>1, <1>2, <2>1 DEF Accounts
<1>8. IsBatch(c) => \A i \in 1..(n - 1) : <<c, i>> \in written'
  <2> SUFFICES ASSUME IsBatch(c), NEW i \in 1..(n - 1) PROVE <<c, i>> \in written'
    OBVIOUS
  <2>1. i \in Nat /\ (i \in 1..(at[c] - 1) \/ i \in at[c]..(n - 1))
    BY Numbers
  <2> QED BY <1>1, <1>2, <2>1 DEF Accounts
<1>9. ASSUME IsBatch(c), NEW i \in DOMAIN rows[c], <<c, i>> \in written', NEW j \in 1..i
      PROVE  <<c, j>> \in written'
  <2>1. i \in Nat /\ j \in Nat
    BY Numbers
  <2>2. CASE <<c, i>> \in written
    BY <1>1, <1>2, <1>9, <2>1, <2>2 DEF Ordered
  <2>3. CASE i \in at[c]..(n - 1)
    <3>1. j \in 1..(n - 1)
      BY <2>1, <2>3, Numbers
    <3> QED BY <1>8, <1>9, <3>1
  <2> QED BY <1>2, <1>9, <2>1, <2>2, <2>3
<1>10. IsBatch(c) => \A i \in 1..(from[c] - 1) : <<c, i>> \in written'
  BY <1>1, <1>2, <1>4 DEF Accounts
<1>11. n \in from[c]..(End(c) + 1)
  BY <1>3, Numbers
<1> QED BY <1>5, <1>6, <1>7, <1>8, <1>9, <1>10, <1>11 DEF Known

(* A client that does not hear of the reply knows as much as before.        *)
LEMMA KnownBlind ==
  ASSUME NEW c \in Calls, Types, Shape(c), Running(c), NEW n, Known(c, n), c \in blind'
  PROVE  Known(c, from[c])
<1>1. from[c] \in from[c]..(End(c) + 1) /\ \A i \in from[c]..(from[c] - 1) : FALSE
  BY Numbers
<1> QED BY <1>1 DEF Known

-----------------------------------------------------------------------------
(* What a step of one call leaves to the others.                            *)

Only(c) ==
  /\ pc' \in [Calls -> States]
  /\ mode' \in [Calls -> Modes]
  /\ rows' \in [Calls -> Seq(1..FullWidth)]
  /\ from' \in [Calls -> Nat]
  /\ at' \in [Calls -> Nat]
  /\ counts' = [d \in Calls |-> counts'[d]]
  /\ \A d \in Calls \ {c} :
       /\ pc'[d] = pc[d] /\ mode'[d] = mode[d] /\ rows'[d] = rows[d]
       /\ from'[d] = from[d] /\ at'[d] = at[d] /\ counts'[d] = counts[d]

OtherRows(c) ==
  \A d \in Calls \ {c}, i \in Nat : <<d, i>> \in written' <=> <<d, i>> \in written

LEMMA OthersKeep ==
  ASSUME NEW c \in Calls, NEW d \in Calls \ {c}, Types, Shape(d), Good(d),
         Only(c), OtherRows(c), blind \subseteq blind'
  PROVE  Shape(d)' /\ Good(d)'
<1>1. /\ pc'[d] = pc[d] /\ mode'[d] = mode[d] /\ rows'[d] = rows[d]
      /\ from'[d] = from[d] /\ at'[d] = at[d] /\ counts'[d] = counts[d]
  BY DEF Only
<1>2. End(d)' = End(d) /\ (IsBatch(d)' <=> IsBatch(d)) /\ (Running(d)' <=> Running(d))
  BY <1>1 DEF End, IsBatch, Running
<1>3. Shape(d)'
  BY <1>1, <1>2 DEF Shape
<1>4. \A i \in Nat : <<d, i>> \in written' <=> <<d, i>> \in written
  BY DEF OtherRows
<1>5. ASSUME pc[d] # "idle"
      PROVE  /\ \A i \in DOMAIN rows[d] : i \in Nat /\ \A j \in 1..i : j \in Nat
             /\ Len(rows[d]) \in Nat /\ from[d] \in Nat /\ at[d] \in Nat
  <2>1. rows[d] \in Seq(1..FullWidth) /\ from[d] \in Nat /\ at[d] \in Nat
    BY DEF Types
  <2> QED BY <2>1, LenProperties
<1>6. Running(d) => Accounts(d)'
  <2> SUFFICES ASSUME Running(d), Accounts(d) PROVE Accounts(d)'
    BY DEF Good
  <2>1. /\ \A i \in 1..(from[d] - 1) : i \in Nat
        /\ \A i \in from[d]..(at[d] - 1) : i \in Nat
        /\ \A i \in at[d]..Len(rows[d]) : i \in Nat
        /\ \A i \in 1..(at[d] - 1) : i \in Nat
    BY <1>5 DEF Running
  <2> QED BY <1>1, <1>2, <1>4, <2>1 DEF Accounts
<1>7. pc[d] \in {"done", "rejected with counts"} => Counted(d)'
  BY <1>1, <1>4, <1>5 DEF Good, Counted
<1>8. pc[d] # "idle" => Ordered(d)'
  <2> SUFFICES ASSUME pc[d] # "idle", Ordered(d) PROVE Ordered(d)'
    BY DEF Good
  <2> QED BY <1>1, <1>2, <1>4, <1>5 DEF Ordered
<1> QED BY <1>1, <1>2, <1>3, <1>4, <1>6, <1>7, <1>8 DEF Good

LEMMA RunsOnly ==
  ASSUME NEW c \in Calls, NEW k, Runs(c, k)
  PROVE  OtherRows(c)
BY DEF Runs, OtherRows

(* A step of one call, and what is left to show of it.                      *)
LEMMA CallStepInv ==
  ASSUME NEW c \in Calls, BatchInv, Only(c), Shape(c)', Good(c)', QueueInv',
         OtherRows(c), blind \subseteq blind', cancelled' \in BOOLEAN, up' \in BOOLEAN
  PROVE  BatchInv'
<1>1. Types'
  BY DEF Only, Types
<1>2. ASSUME NEW d \in Calls PROVE Shape(d)' /\ Good(d)'
  <2>1. CASE d = c
    BY <2>1
  <2>2. CASE d # c
    BY <2>2, OthersKeep DEF BatchInv
  <2> QED BY <2>1, <2>2
<1> QED BY <1>1, <1>2 DEF BatchInv

-----------------------------------------------------------------------------
(* The queue.                                                               *)

LEMMA OthersWait ==
  ASSUME NEW c \in Calls, Only(c), NEW d \in Calls, d # c
  PROVE  Waits(d)' <=> Waits(d)
BY DEF Only, Waits

LEMMA QueueSame ==
  ASSUME NEW c \in Calls, QueueInv, Only(c), Waits(c)' <=> Waits(c),
         queue' = queue, up' = up, blind \subseteq blind'
  PROVE  QueueInv'
<1>1. \A d \in Calls : Waits(d)' <=> Waits(d)
  BY OthersWait
<1> QED BY <1>1 DEF QueueInv

LEMMA QueueHead ==
  ASSUME QueueInv, queue # <<>>
  PROVE  Head(queue) \in Calls /\ Waits(Head(queue)) /\ Head(queue) \in ToSet(queue)
<1>1. Head(queue) \in ToSet(queue) /\ ToSet(queue) \subseteq Calls
  BY TailInjective, ToSetSubset DEF QueueInv
<1> QED BY <1>1 DEF QueueInv

LEMMA QueueTail ==
  ASSUME NEW c \in Calls, QueueInv, Only(c), ~Waits(c)', queue # <<>>,
         c = Head(queue), queue' = Tail(queue), up' = up, blind \subseteq blind'
  PROVE  QueueInv'
<1>1. /\ Tail(queue) \in Seq(Calls)
      /\ IsInjective(Tail(queue))
      /\ ToSet(Tail(queue)) = ToSet(queue) \ {c}
  BY TailInjective DEF QueueInv
<1>2. \A d \in Calls : d \in ToSet(queue') <=> Waits(d)'
  BY <1>1, OthersWait DEF QueueInv
<1> QED BY <1>1, <1>2 DEF QueueInv

LEMMA QueueRotated ==
  ASSUME NEW c \in Calls, QueueInv, Only(c), Waits(c)', queue # <<>>,
         c = Head(queue), queue' = Append(Tail(queue), c), up'
  PROVE  QueueInv'
<1>1. /\ Tail(queue) \in Seq(Calls)
      /\ IsInjective(Tail(queue))
      /\ ToSet(Tail(queue)) = ToSet(queue) \ {c}
  BY TailInjective DEF QueueInv
<1>2. /\ queue' \in Seq(Calls)
      /\ IsInjective(queue')
      /\ ToSet(queue') = (ToSet(queue) \ {c}) \cup {c}
  <2> DEFINE t == Tail(queue)
  <2>1. t \in Seq(Calls) /\ IsInjective(t) /\ c \notin ToSet(t)
    BY <1>1
  <2> HIDE DEF t
  <2>2. /\ Append(t, c) \in Seq(Calls)
        /\ IsInjective(Append(t, c))
        /\ ToSet(Append(t, c)) = ToSet(t) \cup {c}
    BY <2>1, PushInjective
  <2> QED BY <1>1, <2>2 DEF t
<1>3. \A d \in Calls : d \in ToSet(queue') <=> Waits(d)'
  BY <1>2, OthersWait DEF QueueInv
<1> QED BY <1>2, <1>3 DEF QueueInv

LEMMA QueueAppended ==
  ASSUME NEW c \in Calls, QueueInv, Only(c), ~Waits(c), Waits(c)',
         queue' = Append(queue, c), up'
  PROVE  QueueInv'
<1>1. c \notin ToSet(queue)
  BY DEF QueueInv
<1>2. /\ queue' \in Seq(Calls)
      /\ IsInjective(queue')
      /\ ToSet(queue') = ToSet(queue) \cup {c}
  BY <1>1, PushInjective DEF QueueInv
<1>3. \A d \in Calls : d \in ToSet(queue') <=> Waits(d)'
  BY <1>2, OthersWait DEF QueueInv
<1> QED BY <1>2, <1>3 DEF QueueInv

(* Who is next is at the head of the queue.                                 *)
LEMMA NextWaits ==
  ASSUME NEW c \in Calls, QueueInv, NEW what \in {"change", "execute"}, IsNext(c, what)
  PROVE  /\ queue # <<>> /\ c = Head(queue) /\ up
         /\ pc[c] = what /\ Running(c) /\ Waits(c)
<1>1. Waits(c) /\ Running(c)
  BY DEF IsNext, Waits, Running
<1>2. queue # <<>>
  <2>1. c \in ToSet(queue)
    BY <1>1 DEF QueueInv
  <2>2. \E i \in 1..Len(queue) : queue[i] = c
    BY <2>1, InToSet DEF QueueInv
  <2> QED BY <2>2, LenProperties, EmptySeq DEF QueueInv
<1> QED BY <1>1, <1>2 DEF IsNext

-----------------------------------------------------------------------------
(* The ways an engine call ends.                                            *)

Ends(c) == Only(c) /\ Shape(c)' /\ Good(c)' /\ ~Waits(c)'

(* What a call keeps when only its state, its counts and its place change.  *)
LEMMA SameRows ==
  ASSUME NEW c \in Calls, UNCHANGED <<mode, rows>>, from'[c] = from[c]
  PROVE  End(c)' = End(c) /\ (IsBatch(c)' <=> IsBatch(c))
BY DEF End, IsBatch

LEMMA ProceedsStep ==
  ASSUME NEW c \in Calls, Types, Shape(c), Running(c),
         NEW what, NEW n, Known(c, n), Proceeds(c, what),
         \/ /\ what = "done" /\ n = End(c) + 1
            /\ IsBatch(c) => \A i \in 1..End(c) : <<c, i>> \in written'
         \/ what = "failed" /\ n = from[c] /\ ~IsBatch(c)
  PROVE  Ends(c)
<1> DEFINE e == End(c)
           L == Len(rows[c])
           new == [i \in DOMAIN counts[c] |-> IF i \in from[c]..e THEN what
                                              ELSE counts[c][i]]
<1>1. /\ L \in Nat /\ from[c] \in Nat /\ e \in Nat /\ 1 <= from[c]
      /\ from[c] <= e /\ e <= L /\ DOMAIN rows[c] = 1..L
      /\ ~IsBatch(c) => e = from[c]
  BY Numbers
<1>2. /\ rows[c] \in Batches
      /\ counts[c] \in [1..L -> {"none", "done", "failed"}]
      /\ from[c] \in 1..L
  BY DEF Shape, Running
<1>3. counts' = [counts EXCEPT ![c] = new] /\ mode' = mode /\ rows' = rows
  BY DEF Proceeds
<1>4. counts'[c] = new /\ new \in [1..L -> {"none", "done", "failed"}]
  BY <1>2, <1>3 DEF Types
<1>5. IsBatch(c)' <=> IsBatch(c)
  BY <1>3 DEF IsBatch
<1>6. Ordered(c)'
  BY <1>3, <1>5 DEF Ordered, Known
<1>7. /\ \A i \in 1..e : i \in 1..(from[c] - 1) \/ i \in from[c]..e
      /\ \A i \in 1..(from[c] - 1) : i \in 1..L /\ i \notin from[c]..e
      /\ \A i \in from[c]..e : i \in 1..L
      /\ what = "done" => \A i \in from[c]..e : i \in from[c]..(n - 1)
      /\ what = "failed" => \A i \in from[c]..e : i \in n..L
  BY <1>1
<1>8. \A i \in 1..e :
        /\ new[i] # "none"
        /\ new[i] = "done" => <<c, i>> \in written'
        /\ new[i] = "failed" /\ c \notin blind' => <<c, i>> \notin written'
  <2> SUFFICES ASSUME NEW i \in 1..e
               PROVE  /\ new[i] # "none"
                      /\ new[i] = "done" => <<c, i>> \in written'
                      /\ new[i] = "failed" /\ c \notin blind' => <<c, i>> \notin written'
    OBVIOUS
  <2>1. CASE i \in 1..(from[c] - 1)
    <3>1. new[i] = counts[c][i]
      BY <1>2, <1>7, <2>1
    <3> QED BY <2>1, <3>1 DEF Known
  <2>2. CASE i \in from[c]..e
    <3>1. new[i] = what
      BY <1>2, <1>7, <2>2
    <3> QED BY <1>7, <2>2, <3>1 DEF Known
  <2> QED BY <1>7, <2>1, <2>2
<1>9. c \notin blind' => \A i \in (e + 1)..L : <<c, i>> \notin written'
  <2>1. \A i \in (e + 1)..L : i \in n..L
    BY <1>1
  <2> QED BY <2>1 DEF Known
<1> HIDE DEF new
<1>10. CASE e = L
  <2>1. /\ pc' = [pc EXCEPT ![c] = IF "failed" \in Range(counts'[c])
                                  THEN "rejected with counts" ELSE "done"]
        /\ from' = from /\ at' = at
    BY <1>10 DEF Proceeds
  <2>2. pc'[c] \in {"done", "rejected with counts"}
    BY <2>1 DEF Types
  <2>3. Only(c)
    BY <1>3, <2>1 DEF Only, Types, States
  <2>4. Shape(c)'
    BY <1>3, <1>4, <2>1, <2>2, SameRows DEF Shape, Running
  <2>5. Counted(c)'
    BY <1>1, <1>3, <1>4, <1>8, <1>10 DEF Counted
  <2> QED BY <1>6, <2>2, <2>3, <2>4, <2>5 DEF Ends, Good, Running, Waits
<1>11. CASE e # L
  <2>1. /\ pc' = [pc EXCEPT ![c] = "ready"]
        /\ from' = [from EXCEPT ![c] = e + 1]
        /\ at' = [at EXCEPT ![c] = e + 1]
    BY <1>11 DEF Proceeds
  <2>2. pc'[c] = "ready" /\ from'[c] = e + 1 /\ at'[c] = e + 1
    BY <2>1 DEF Types
  <2>3. Only(c)
    <3> DEFINE f == e + 1
    <3>1. f \in Nat
      BY <1>1
    <3>2. from' = [from EXCEPT ![c] = f] /\ at' = [at EXCEPT ![c] = f]
      BY <2>1
    <3> HIDE DEF f
    <3> QED BY ZenonT(60), <1>3, <2>1, <3>1, <3>2 DEF Only, Types, States
  <2>4. e + 1 \in 1..L /\ e + 1 \in (e + 1)..L
    BY <1>1, <1>11
  <2>5. End(c)' \in (e + 1)..L
    <3> DEFINE m == Min({(e + 1) + ChunkSize - 1, L})
    <3>1. ChunkSize \in Nat /\ ChunkSize >= 1
      BY BatchAssumption
    <3>2. m \in (e + 1)..L
      BY SMTT(30), <1>1, <2>4, <3>1, MinOfTwo
    <3>3. End(c)' \in {L, m, e + 1}
      BY <1>3, <2>2 DEF End
    <3> HIDE DEF m
    <3> QED BY <1>1, <2>4, <3>2, <3>3
  <2>6. Shape(c)'
    BY <1>1, <1>2, <1>3, <1>4, <2>2, <2>4, <2>5 DEF Shape
  <2>7. Accounts(c)'
    <3>1. (e + 1) - 1 = e /\ \A i \in (e + 1)..((e + 1) - 1) : FALSE
      BY <1>1
    <3>2. IsBatch(c) => \A i \in 1..e : <<c, i>> \in written'
      OBVIOUS
    <3> QED BY <1>3, <1>4, <1>5, <1>8, <1>9, <2>2, <3>1, <3>2 DEF Accounts
  <2> QED BY <1>6, <2>2, <2>3, <2>6, <2>7 DEF Ends, Good, Running, Waits
<1> QED BY <1>10, <1>11

(* The error lists the counts up to row n.                                  *)
ThrowsList(c, n) ==
  /\ counts' = [counts EXCEPT ![c] = CountsUpTo(c, n)]
  /\ Rejects(c, "rejected with counts")

LEMMA CountsStep ==
  ASSUME NEW c \in Calls, Types, Shape(c), Running(c), NEW n, Known(c, n),
         ThrowsList(c, n)
  PROVE  Ends(c)
<1> DEFINE L == Len(rows[c])
<1>1. /\ L \in Nat /\ from[c] \in Nat /\ 1 <= from[c] /\ DOMAIN rows[c] = 1..L
      /\ End(c) \in Nat /\ End(c) <= L
  BY Numbers
<1>2. /\ pc' = [pc EXCEPT ![c] = "rejected with counts"]
      /\ UNCHANGED <<mode, rows, from, at>>
  BY DEF ThrowsList, Rejects
<1>3. pc'[c] = "rejected with counts" /\ Only(c)
  BY <1>2 DEF ThrowsList, Only, Types, States
<1>4. n \in Nat /\ n >= from[c]
  <2>1. n \in from[c]..(End(c) + 1)
    BY DEF Known
  <2> QED BY <1>1, <2>1
<1>5. /\ counts'[c] = CountsUpTo(c, n)
      /\ \A i \in 1..L : counts'[c][i] = IF i < from[c] THEN counts[c][i]
                                         ELSE IF i < n THEN "done" ELSE "failed"
  BY DEF ThrowsList, Types, CountsUpTo
<1>6. counts'[c] \in [1..L -> {"none", "done", "failed"}]
  BY <1>5 DEF CountsUpTo, Shape, Running
<1>7. Shape(c)'
  BY <1>2, <1>3, <1>6, SameRows DEF Shape, Running
<1>8. Counted(c)'
  <2> SUFFICES ASSUME NEW i \in 1..L
               PROVE  /\ counts'[c][i] # "none"
                      /\ counts'[c][i] = "done" => <<c, i>> \in written'
                      /\ counts'[c][i] = "failed" /\ c \notin blind'
                           => <<c, i>> \notin written'
    BY <1>1, <1>2 DEF Counted
  <2>1. CASE i < from[c]
    <3>1. i \in 1..(from[c] - 1)
      BY <1>1, <2>1
    <3>2. counts'[c][i] = counts[c][i]
      BY <1>5, <2>1
    <3> QED BY <3>1, <3>2 DEF Known
  <2>2. CASE i >= from[c] /\ i < n
    <3>1. i \in from[c]..(n - 1) /\ ~(i < from[c])
      BY <1>1, <1>4, <2>2
    <3>2. counts'[c][i] = "done"
      BY <1>5, <2>2, <3>1
    <3> QED BY <3>1, <3>2 DEF Known
  <2>3. CASE i >= n
    <3>1. i \in n..L /\ ~(i < from[c]) /\ ~(i < n)
      BY <1>1, <1>4, <2>3
    <3>2. counts'[c][i] = "failed"
      BY <1>5, <3>1
    <3> QED BY <3>1, <3>2 DEF Known
  <2>4. i < from[c] \/ (i >= from[c] /\ i < n) \/ i >= n
    BY <1>1, <1>4
  <2> QED BY <2>1, <2>2, <2>3, <2>4
<1>9. Ordered(c)'
  BY <1>2 DEF Ordered, IsBatch, Known
<1> QED BY <1>3, <1>7, <1>8, <1>9 DEF Ends, Good, Running, Waits

LEMMA ThrowsStep ==
  ASSUME NEW c \in Calls, Types, Shape(c), Running(c), Known(c, from[c]),
         NEW b, Throws(c, b)
  PROVE  Ends(c)
<1>1. CASE mode[c] = "chunked"
  BY <1>1, CountsStep DEF Throws, ThrowsList
<1>2. CASE mode[c] = "each" /\ b
  <2>1. Proceeds(c, "failed") /\ ~IsBatch(c)
    BY <1>2 DEF Throws, IsBatch
  <2> QED BY <2>1, ProceedsStep
<1>3. CASE mode[c] # "chunked" /\ ~(mode[c] = "each" /\ b)
  <2>1. /\ pc' = [pc EXCEPT ![c] = "rejected"]
        /\ UNCHANGED <<mode, rows, from, at, counts>>
    BY <1>3 DEF Throws, Rejects
  <2>2. pc'[c] = "rejected" /\ Only(c)
    BY <2>1 DEF Only, Types, States
  <2>3. Shape(c)'
    BY <2>1, <2>2, SameRows DEF Shape, Running
  <2>4. Ordered(c)'
    BY <2>1 DEF Ordered, IsBatch, Known
  <2> QED BY <2>2, <2>3, <2>4 DEF Ends, Good, Running, Waits
<1> QED BY <1>1, <1>2, <1>3

LEMMA ThrowsCountsStep ==
  ASSUME NEW c \in Calls, Types, Shape(c), Running(c), NEW k \in Nat,
         k < Cardinality(Block(c)), Known(c, at[c] + k), ThrowsCounts(c, k)
  PROVE  Ends(c)
<1>1. CASE IsBatch(c)
  BY <1>1, CountsStep DEF ThrowsCounts, ThrowsList
<1>2. CASE ~IsBatch(c)
  <2>1. /\ from[c] <= at[c] /\ at[c] <= End(c) /\ End(c) = from[c]
        /\ from[c] \in Nat /\ at[c] \in Nat
    BY <1>2, Numbers
  <2>2. Cardinality(Block(c)) \in Nat /\ at[c] + Cardinality(Block(c)) <= End(c) + 1
    BY BlockBounds, BatchAssumption
  <2>3. at[c] + k = from[c]
    BY <2>1, <2>2
  <2> QED BY <1>2, <2>3, ThrowsStep DEF ThrowsCounts
<1> QED BY <1>1, <1>2

-----------------------------------------------------------------------------
(* One lemma per action.                                                    *)

LEMMA InitInv == Init => BatchInv
<1> SUFFICES ASSUME Init PROVE BatchInv
  OBVIOUS
<1>1. Types
  BY EmptySeq DEF Init, Types, States, Modes
<1>2. QueueInv
  <2>1. queue = <<>> /\ queue \in Seq(Calls) /\ Len(queue) = 0 /\ up = TRUE
    BY EmptySeq DEF Init
  <2>2. \A i \in 1..Len(queue) : FALSE
    BY <2>1
  <2>3. IsInjective(queue)
    BY <2>1, <2>2, InjectiveSeq
  <2>4. \A d \in Calls : d \notin ToSet(queue)
    BY <2>1, <2>2, InToSet
  <2> QED BY <2>1, <2>3, <2>4 DEF QueueInv, Waits, Init
<1>3. ASSUME NEW c \in Calls PROVE Shape(c) /\ Good(c)
  BY DEF Init, Shape, Good, Running
<1> QED BY <1>1, <1>2, <1>3 DEF BatchInv

LEMMA BeginInv ==
  ASSUME BatchInv, NEW c \in Calls, NEW m \in Modes, NEW rs \in Batches, Begin(c, m, rs)
  PROVE  BatchInv'
<1>1. /\ pc[c] = "idle"
      /\ pc' = [pc EXCEPT ![c] = "ready"] /\ mode' = [mode EXCEPT ![c] = m]
      /\ rows' = [rows EXCEPT ![c] = rs] /\ from' = [from EXCEPT ![c] = 1]
      /\ at' = [at EXCEPT ![c] = 1]
      /\ counts' = [counts EXCEPT ![c] = [i \in 1..Len(rs) |-> "none"]]
      /\ UNCHANGED <<cancelled, queue, up, written, blind>>
  BY DEF Begin, clientVars, hostVars
<1>2. rs \in Seq(1..FullWidth) /\ Len(rs) \in Nat /\ Len(rs) >= 1 /\ DOMAIN rs = 1..Len(rs)
  <2>1. rs \in Seq(1..FullWidth) /\ rs # <<>>
    BY BatchAssumption
  <2> QED BY <2>1, LenProperties, EmptySeq
<1>3. Only(c)
  BY <1>1, <1>2 DEF BatchInv, Types, Only, States
<1>4. /\ pc'[c] = "ready" /\ rows'[c] = rs /\ from'[c] = 1 /\ at'[c] = 1
      /\ counts'[c] = [i \in 1..Len(rs) |-> "none"]
  BY <1>1 DEF BatchInv, Types
<1>5. Shape(c)'
  <2> DEFINE e == Min({1 + ChunkSize - 1, Len(rs)})
  <2>1. ChunkSize \in Nat /\ ChunkSize >= 1
    BY BatchAssumption
  <2>2. e \in 1..Len(rs)
    BY <1>2, <2>1, MinOfTwo
  <2>3. End(c)' \in {Len(rs), e, 1}
    BY <1>4 DEF End
  <2> HIDE DEF e
  <2>4. 1 \in 1..Len(rs) /\ 1 <= End(c)'
    BY <1>2, <2>2, <2>3
  <2> QED BY <1>4, <2>4 DEF Shape
<1>6. Good(c)'
  <2>1. \A i \in Nat : <<c, i>> \notin written'
    BY <1>1 DEF BatchInv, Good
  <2>2. /\ \A i \in 1..(1 - 1) : FALSE
        /\ \A i \in DOMAIN rs : i \in Nat /\ \A j \in 1..i : j \in Nat
        /\ \A i \in 1..Len(rs) : i \in Nat
    BY <1>2
  <2>3. Accounts(c)' /\ Ordered(c)'
    BY <1>4, <2>1, <2>2 DEF Accounts, Ordered
  <2> QED BY <1>4, <2>3 DEF Good, Running
<1>7. QueueInv'
  <2>1. Waits(c)' <=> Waits(c)
    BY <1>1, <1>4 DEF Waits
  <2> QED BY <1>1, <1>3, <2>1, QueueSame DEF BatchInv
<1>8. OtherRows(c) /\ cancelled' \in BOOLEAN /\ up' \in BOOLEAN
  BY <1>1 DEF OtherRows, BatchInv, Types
<1> QED BY <1>1, <1>3, <1>5, <1>6, <1>7, <1>8, CallStepInv

LEMMA StartCancelledInv ==
  ASSUME BatchInv, NEW c \in Calls, StartCancelled(c)
  PROVE  BatchInv'
<1>1. /\ pc[c] = "ready" /\ cancelled' = FALSE /\ Throws(c, TRUE)
      /\ UNCHANGED <<queue, up, written, blind>>
  BY DEF StartCancelled, hostVars, historyVars
<1>2. Running(c) /\ at[c] = from[c] /\ ~Waits(c)
  BY <1>1 DEF Running, Waits, BatchInv, Shape
<1>3. Ends(c)
  BY <1>1, <1>2, KnownBefore, ThrowsStep DEF BatchInv
<1>4. QueueInv'
  BY <1>1, <1>2, <1>3, QueueSame DEF BatchInv, Ends
<1>5. OtherRows(c) /\ cancelled' \in BOOLEAN /\ up' \in BOOLEAN
  BY <1>1 DEF OtherRows, BatchInv, Types
<1> QED BY <1>1, <1>3, <1>4, <1>5, CallStepInv DEF Ends

(* Only the state of the call changes, and it goes on running.              *)
LEMMA GoesOn ==
  ASSUME BatchInv, NEW c \in Calls, Running(c), NEW s \in {"change", "execute"},
         pc' = [pc EXCEPT ![c] = s], UNCHANGED <<mode, rows, from, at, counts>>,
         s = "change" => at[c] = from[c], written' = written, blind' = blind
  PROVE  Only(c) /\ Shape(c)' /\ Good(c)' /\ Waits(c)' /\ OtherRows(c)
<1>1. pc'[c] = s
  BY DEF BatchInv, Types
<1>2. Only(c)
  BY DEF BatchInv, Types, Only, States
<1>3. End(c)' = End(c) /\ (IsBatch(c)' <=> IsBatch(c))
  BY SameRows
<1>4. Shape(c)'
  BY <1>1, <1>3 DEF BatchInv, Shape, Running
<1>5. Accounts(c)' /\ Ordered(c)'
  <2>1. Accounts(c) /\ Ordered(c)
    BY DEF BatchInv, Good, Running
  <2> QED BY <1>3, <2>1 DEF Accounts, Ordered
<1> QED BY <1>1, <1>2, <1>4, <1>5 DEF Good, Running, Waits, OtherRows

LEMMA StartInv ==
  ASSUME BatchInv, NEW c \in Calls, Start(c)
  PROVE  BatchInv'
<1> DEFINE s == IF NeedsFormat(c) THEN "change" ELSE "execute"
<1>1. /\ pc[c] = "ready" /\ up /\ pc' = [pc EXCEPT ![c] = s]
      /\ queue' = Append(queue, c)
      /\ UNCHANGED <<mode, rows, from, at, counts>>
      /\ UNCHANGED <<cancelled, up, written, blind>>
  BY DEF Start, clientVars, hostVars, historyVars
<1>2. Running(c) /\ at[c] = from[c] /\ ~Waits(c) /\ s \in {"change", "execute"}
  BY <1>1 DEF Running, Waits, BatchInv, Shape
<1> HIDE DEF s
<1>3. Only(c) /\ Shape(c)' /\ Good(c)' /\ Waits(c)' /\ OtherRows(c)
  BY <1>1, <1>2, GoesOn
<1>4. QueueInv'
  BY <1>1, <1>2, <1>3, QueueAppended DEF BatchInv
<1>5. cancelled' \in BOOLEAN /\ up' \in BOOLEAN
  BY <1>1 DEF BatchInv, Types
<1> QED BY <1>1, <1>3, <1>4, <1>5, CallStepInv

LEMMA ChangedInv ==
  ASSUME BatchInv, NEW c \in Calls, Changed(c)
  PROVE  BatchInv'
<1>1. /\ IsNext(c, "change") /\ pc' = [pc EXCEPT ![c] = "execute"]
      /\ queue' = Append(Tail(queue), c)
      /\ UNCHANGED <<mode, rows, from, at, counts>>
      /\ UNCHANGED <<cancelled, up, written, blind>>
  BY DEF Changed, historyVars
<1>2. queue # <<>> /\ c = Head(queue) /\ up /\ Running(c)
  BY <1>1, NextWaits DEF BatchInv
<1>3. Only(c) /\ Shape(c)' /\ Good(c)' /\ Waits(c)' /\ OtherRows(c)
  BY <1>1, <1>2, GoesOn
<1>4. QueueInv'
  BY <1>1, <1>2, <1>3, QueueRotated DEF BatchInv
<1>5. cancelled' \in BOOLEAN /\ up' \in BOOLEAN
  BY <1>1 DEF BatchInv, Types
<1> QED BY <1>1, <1>3, <1>4, <1>5, CallStepInv

LEMMA BlockDoneInv ==
  ASSUME BatchInv, NEW c \in Calls, BlockDone(c)
  PROVE  BatchInv'
<1> DEFINE k == Cardinality(Block(c))
           n == at[c] + MaxBlock
<1>1. /\ IsNext(c, "execute") /\ ~IsLastBlock(c) /\ Runs(c, k)
      /\ at' = [at EXCEPT ![c] = n] /\ queue' = Append(Tail(queue), c)
      /\ UNCHANGED <<pc, mode, rows, from, counts>>
      /\ UNCHANGED <<cancelled, up, blind>>
  BY DEF BlockDone, clientVars, historyVars
<1>2. /\ queue # <<>> /\ c = Head(queue) /\ up
      /\ pc[c] = "execute" /\ Running(c) /\ Waits(c)
  BY <1>1, NextWaits DEF BatchInv
<1>3. Types /\ Shape(c) /\ Good(c)
  BY DEF BatchInv
<1>4. k = MaxBlock /\ n <= End(c) /\ MaxBlock \in Nat /\ MaxBlock >= 1
  BY <1>1, <1>2, <1>3, BlockBounds, BatchAssumption
<1>5. /\ from[c] \in Nat /\ from[c] <= at[c] /\ at[c] \in Nat
      /\ End(c) \in Nat /\ End(c) <= Len(rows[c]) /\ Len(rows[c]) \in Nat
  BY <1>2, <1>3, Numbers
<1>6. /\ Known(c, n)
      /\ IsBatch(c) => \A i \in 1..(n - 1) : <<c, i>> \in written'
  <2>1. at[c] + MaxBlock <= End(c) + 1 /\ Runs(c, MaxBlock)
    BY <1>1, <1>4, <1>5
  <2> QED BY <1>1, <1>2, <1>3, <1>4, <2>1, KnownRuns
<1>7. n \in Nat /\ n \in from[c]..Len(rows[c])
  BY <1>4, <1>5
<1> HIDE DEF n, k
<1>8. at'[c] = n /\ Only(c)
  BY <1>1, <1>3, <1>7 DEF Types, Only
<1>9. End(c)' = End(c) /\ (IsBatch(c)' <=> IsBatch(c))
  BY <1>1, SameRows
<1>10. Shape(c)'
  BY <1>1, <1>2, <1>3, <1>4, <1>7, <1>8, <1>9 DEF Shape
<1>11. Accounts(c)' /\ Ordered(c)'
  BY <1>1, <1>6, <1>8, <1>9 DEF Accounts, Ordered, Known
<1>12. Good(c)'
  BY <1>1, <1>2, <1>11 DEF Good
<1>13. QueueInv'
  <2>1. Waits(c)'
    BY <1>1, <1>2 DEF Waits
  <2> QED BY <1>1, <1>2, <1>8, <2>1, QueueRotated DEF BatchInv
<1>14. OtherRows(c) /\ cancelled' \in BOOLEAN /\ up' \in BOOLEAN
  BY <1>1, <1>3, RunsOnly DEF Types
<1> QED BY <1>1, <1>8, <1>10, <1>12, <1>13, <1>14, CallStepInv

(* A reply that ends the engine call of the head of the queue.              *)
LEMMA EndsInv ==
  ASSUME BatchInv, NEW c \in Calls, queue # <<>>, c = Head(queue), Ends(c),
         OtherRows(c), queue' = Tail(queue), up' = up, blind \subseteq blind',
         cancelled' \in BOOLEAN
  PROVE  BatchInv'
<1>1. QueueInv'
  BY QueueTail DEF BatchInv, Ends
<1>2. up' \in BOOLEAN
  BY DEF BatchInv, Types
<1> QED BY <1>1, <1>2, CallStepInv DEF Ends

LEMMA FinishedInv ==
  ASSUME BatchInv, NEW c \in Calls, Finished(c)
  PROVE  BatchInv'
<1> DEFINE k == Cardinality(Block(c))
           n == End(c) + 1
<1>1. /\ IsNext(c, "execute") /\ IsLastBlock(c) /\ Runs(c, k)
      /\ Proceeds(c, "done") /\ queue' = Tail(queue)
      /\ UNCHANGED <<cancelled, up, blind>>
  BY DEF Finished, clientVars, historyVars
<1>2. queue # <<>> /\ c = Head(queue) /\ Running(c)
  BY <1>1, NextWaits DEF BatchInv
<1>3. Types /\ Shape(c) /\ Good(c)
  BY DEF BatchInv
<1>4. k \in Nat /\ at[c] + k = n
  BY <1>1, <1>2, <1>3, BlockBounds, BatchAssumption
<1>5. End(c) \in Nat /\ n \in Nat /\ n - 1 = End(c) /\ at[c] + k <= End(c) + 1
  BY <1>2, <1>3, <1>4, Numbers
<1>6. /\ Known(c, n)
      /\ IsBatch(c) => \A i \in 1..(n - 1) : <<c, i>> \in written'
  BY <1>1, <1>2, <1>3, <1>4, <1>5, KnownRuns
<1>7. Ends(c)
  BY <1>1, <1>2, <1>3, <1>5, <1>6, ProceedsStep
<1>8. OtherRows(c) /\ cancelled' \in BOOLEAN
  BY <1>1, <1>3, RunsOnly DEF Types
<1> QED BY <1>1, <1>2, <1>7, <1>8, EndsInv

LEMMA FailedInv ==
  ASSUME BatchInv, NEW c \in Calls, NEW k \in Nat, Failed(c, k)
  PROVE  BatchInv'
<1>1. /\ IsNext(c, "execute") /\ k < Cardinality(Block(c)) /\ Runs(c, k)
      /\ ThrowsCounts(c, k) /\ queue' = Tail(queue)
      /\ UNCHANGED <<cancelled, up, blind>>
  BY DEF Failed, clientVars, historyVars
<1>2. queue # <<>> /\ c = Head(queue) /\ Running(c)
  BY <1>1, NextWaits DEF BatchInv
<1>3. Types /\ Shape(c) /\ Good(c)
  BY DEF BatchInv
<1>4. at[c] + k <= End(c) + 1
  <2>1. /\ Cardinality(Block(c)) \in Nat
        /\ at[c] + Cardinality(Block(c)) <= End(c) + 1
    BY <1>2, <1>3, BlockBounds, BatchAssumption
  <2>2. at[c] \in Nat /\ End(c) \in Nat
    BY <1>2, <1>3, Numbers
  <2> QED BY <1>1, <2>1, <2>2
<1>5. Known(c, at[c] + k)
  BY <1>1, <1>2, <1>3, <1>4, KnownRuns
<1>6. Ends(c)
  BY <1>1, <1>2, <1>3, <1>5, ThrowsCountsStep
<1>7. OtherRows(c) /\ cancelled' \in BOOLEAN
  BY <1>1, <1>3, RunsOnly DEF Types
<1> QED BY <1>1, <1>2, <1>6, <1>7, EndsInv

LEMMA FormatRefusedInv ==
  ASSUME BatchInv, NEW c \in Calls, FormatRefused(c)
  PROVE  BatchInv'
<1>1. /\ IsNext(c, "change") /\ Throws(c, TRUE) /\ queue' = Tail(queue)
      /\ UNCHANGED <<cancelled, up, written, blind>>
  BY DEF FormatRefused, clientVars, hostVars, historyVars
<1>2. queue # <<>> /\ c = Head(queue) /\ Running(c) /\ pc[c] = "change"
  BY <1>1, NextWaits DEF BatchInv
<1>3. at[c] = from[c]
  BY <1>2 DEF BatchInv, Shape
<1>4. Ends(c)
  BY <1>1, <1>2, <1>3, KnownBefore, ThrowsStep DEF BatchInv
<1>5. OtherRows(c) /\ cancelled' \in BOOLEAN
  BY <1>1 DEF OtherRows, BatchInv, Types
<1> QED BY <1>1, <1>2, <1>4, <1>5, EndsInv

LEMMA EndsInterruptedInv ==
  ASSUME BatchInv, NEW c \in Calls, EndsInterrupted(c)
  PROVE  BatchInv'
<1>1. /\ cancelled' = FALSE /\ Throws(c, TRUE) /\ queue' = Tail(queue)
      /\ blind' = blind \cup {c} /\ up' = up
      /\ \/ IsNext(c, "change") /\ written' = written
         \/ /\ IsNext(c, "execute")
            /\ \E n \in 0..Cardinality(Block(c)) : Runs(c, n)
  BY DEF EndsInterrupted, hostVars
<1>2. queue # <<>> /\ c = Head(queue) /\ Running(c)
  BY <1>1, NextWaits DEF BatchInv
<1>3. Types /\ Shape(c) /\ Good(c)
  BY DEF BatchInv
<1>4. Known(c, from[c]) /\ OtherRows(c)
  <2>1. CASE written' = written
    BY <1>1, <1>2, <1>3, <2>1, KnownBefore DEF OtherRows
  <2>2. CASE \E n \in 0..Cardinality(Block(c)) : Runs(c, n)
    <3>1. PICK k \in 0..Cardinality(Block(c)) : Runs(c, k)
      BY <2>2
    <3>2. /\ Cardinality(Block(c)) \in Nat
          /\ at[c] + Cardinality(Block(c)) <= End(c) + 1
      BY <1>2, <1>3, BlockBounds, BatchAssumption
    <3>3. at[c] \in Nat /\ End(c) \in Nat
      BY <1>2, <1>3, Numbers
    <3>4. k \in Nat /\ at[c] + k <= End(c) + 1
      BY <3>2, <3>3
    <3>5. Known(c, at[c] + k)
      BY <1>1, <1>2, <1>3, <3>1, <3>4, KnownRuns
    <3> QED BY <1>1, <1>2, <1>3, <3>1, <3>5, KnownBlind, RunsOnly
  <2> QED BY <1>1, <2>1, <2>2
<1>5. Ends(c)
  BY <1>1, <1>2, <1>3, <1>4, ThrowsStep
<1> QED BY <1>1, <1>2, <1>4, <1>5, EndsInv

LEMMA LostInv ==
  ASSUME BatchInv, NEW c \in Calls, Lost(c)
  PROVE  BatchInv'
<1>1. /\ ~up /\ up' = up /\ written' = written /\ blind' = blind
      /\ \/ pc[c] = "ready" /\ queue' = queue
         \/ queue # <<>> /\ c = Head(queue) /\ queue' = Tail(queue)
      /\ Throws(c, TRUE) \/ Throws(c, FALSE)
      /\ cancelled' = (cancelled /\ ~Interrupted)
  BY DEF Lost, hostVars, historyVars
<1>2. OtherRows(c) /\ cancelled' \in BOOLEAN /\ up' \in BOOLEAN
  BY <1>1 DEF OtherRows, BatchInv, Types
<1>3. Types /\ Shape(c) /\ Good(c)
  BY DEF BatchInv
<1>4. CASE pc[c] = "ready" /\ queue' = queue
  <2>1. Running(c) /\ at[c] = from[c] /\ ~Waits(c)
    BY <1>3, <1>4 DEF Running, Waits, Shape
  <2>2. Ends(c)
    BY <1>1, <1>3, <2>1, KnownBefore, ThrowsStep
  <2>3. QueueInv'
    BY <1>1, <1>4, <2>1, <2>2, QueueSame DEF BatchInv, Ends
  <2> QED BY <1>1, <1>2, <2>2, <2>3, CallStepInv DEF Ends
<1>5. CASE queue # <<>> /\ c = Head(queue) /\ queue' = Tail(queue)
  <2>1. Waits(c) /\ c \in blind
    BY <1>1, <1>5, QueueHead DEF BatchInv, QueueInv
  <2>2. Running(c)
    BY <2>1 DEF Running, Waits
  <2>3. Ends(c)
    BY <1>1, <1>3, <2>1, <2>2, KnownBefore, ThrowsStep
  <2> QED BY <1>1, <1>2, <1>5, <2>3, EndsInv
<1> QED BY <1>1, <1>4, <1>5

LEMMA CancelInv ==
  ASSUME BatchInv, Cancel
  PROVE  BatchInv'
<1>1. /\ UNCHANGED <<pc, mode, rows, from, at, counts>>
      /\ UNCHANGED <<queue, up, written, blind>> /\ cancelled' = TRUE
  BY DEF Cancel, callVars, hostVars, historyVars
<1>2. Types'
  BY <1>1 DEF BatchInv, Types
<1>3. QueueInv'
  BY <1>1 DEF BatchInv, QueueInv, Waits
<1>4. ASSUME NEW d \in Calls PROVE Shape(d)' /\ Good(d)'
  <2>1. End(d)' = End(d) /\ (IsBatch(d)' <=> IsBatch(d))
    BY <1>1 DEF End, IsBatch
  <2>2. Shape(d) /\ Good(d)
    BY DEF BatchInv
  <2> QED BY <1>1, <2>1, <2>2 DEF Shape, Good, Running, Accounts, Counted, Ordered
<1> QED BY <1>2, <1>3, <1>4 DEF BatchInv

(* Whatever the host executed of the first request, its call will not know. *)
LEMMA DropInv ==
  ASSUME BatchInv, Drop
  PROVE  BatchInv'
<1>1. /\ UNCHANGED <<pc, mode, rows, from, at, counts>>
      /\ UNCHANGED <<cancelled, queue>>
      /\ up' = FALSE /\ blind' = blind \cup ToSet(queue)
      /\ \/ written' = written
         \/ \E c \in Calls : /\ IsNext(c, "execute")
                             /\ \E n \in 1..Cardinality(Block(c)) : Runs(c, n)
  BY DEF Drop, callVars, clientVars, hostVars
<1>2. Types'
  BY <1>1 DEF BatchInv, Types
<1>3. QueueInv'
  BY <1>1 DEF BatchInv, QueueInv, Waits
<1>4. \A c \in Calls : Only(c)
  BY <1>1 DEF BatchInv, Types, Only
<1>5. CASE written' = written
  <2> SUFFICES ASSUME NEW d \in Calls PROVE Shape(d)' /\ Good(d)'
    BY <1>2, <1>3 DEF BatchInv
  <2>1. End(d)' = End(d) /\ (IsBatch(d)' <=> IsBatch(d))
    BY <1>1 DEF End, IsBatch
  <2>2. Shape(d) /\ Good(d)
    BY DEF BatchInv
  <2> QED BY <1>1, <1>5, <2>1, <2>2
          DEF Shape, Good, Running, Accounts, Counted, Ordered
<1>6. ASSUME NEW c \in Calls, IsNext(c, "execute"),
             NEW k \in 1..Cardinality(Block(c)), Runs(c, k)
      PROVE  BatchInv'
  <2>1. Types /\ Shape(c) /\ Good(c)
    BY DEF BatchInv
  <2>2. Running(c) /\ pc[c] = "execute" /\ c \in blind'
    <3>1. Waits(c) /\ Running(c) /\ pc[c] = "execute"
      BY <1>6, NextWaits DEF BatchInv
    <3> QED BY <1>1, <3>1 DEF BatchInv, QueueInv
  <2> DEFINE n == at[c] + k
  <2>3. /\ Cardinality(Block(c)) \in Nat
        /\ at[c] + Cardinality(Block(c)) <= End(c) + 1
    BY <2>1, <2>2, BlockBounds, BatchAssumption
  <2>4. at[c] \in Nat /\ End(c) \in Nat /\ from[c] \in Nat
    BY <2>1, <2>2, Numbers
  <2>5. k \in Nat /\ n <= End(c) + 1
    BY <2>3, <2>4
  <2>6. Known(c, n) /\ (IsBatch(c) => \A i \in 1..(n - 1) : <<c, i>> \in written')
    BY <1>1, <1>6, <2>1, <2>2, <2>5, KnownRuns
  <2>7. /\ \A i \in from[c]..(at[c] - 1) : i \in from[c]..(n - 1)
        /\ \A i \in 1..(at[c] - 1) : i \in 1..(n - 1)
    BY <2>4, <2>5
  <2> HIDE DEF n
  <2>8. End(c)' = End(c) /\ (IsBatch(c)' <=> IsBatch(c))
    BY <1>1 DEF End, IsBatch
  <2>9. Accounts(c)' /\ Ordered(c)'
    BY <1>1, <2>2, <2>6, <2>7, <2>8 DEF Accounts, Ordered, Known
  <2>10. Shape(c)' /\ Good(c)'
    BY <1>1, <2>1, <2>2, <2>8, <2>9 DEF Shape, Good
  <2>11. OtherRows(c) /\ cancelled' \in BOOLEAN /\ up' \in BOOLEAN
    BY <1>1, <1>6, <2>1, RunsOnly DEF Types
  <2> QED BY <1>1, <1>3, <1>4, <2>10, <2>11, CallStepInv
<1> QED BY <1>1, <1>5, <1>6

LEMMA NextInv == BatchInv /\ [Next]_vars => BatchInv'
<1> SUFFICES ASSUME BatchInv, [Next]_vars PROVE BatchInv'
  OBVIOUS
<1>1. ASSUME NEW c \in Calls, CallStep(c) PROVE BatchInv'
  <2>1. ASSUME NEW n \in 0..MaxBlock - 1, Failed(c, n) PROVE BatchInv'
    <3>1. n \in Nat
      BY BatchAssumption
    <3> QED BY <2>1, <3>1, FailedInv
  <2> QED BY <1>1, <2>1, StartCancelledInv, StartInv, ChangedInv, FormatRefusedInv,
             BlockDoneInv, FinishedInv, EndsInterruptedInv, LostInv DEF CallStep
<1>2. ASSUME NEW c \in Calls, NEW m \in Modes, NEW rs \in Batches, Begin(c, m, rs)
      PROVE  BatchInv'
  BY <1>2, BeginInv
<1>3. CASE UNCHANGED vars
  <2>1. /\ UNCHANGED <<pc, mode, rows, from, at, counts>>
        /\ UNCHANGED <<cancelled, queue, up, written, blind>>
    BY <1>3 DEF vars, callVars, clientVars, hostVars, historyVars
  <2>2. Types' /\ QueueInv'
    BY <2>1 DEF BatchInv, Types, QueueInv, Waits
  <2>3. ASSUME NEW d \in Calls PROVE Shape(d)' /\ Good(d)'
    <3>1. End(d)' = End(d) /\ (IsBatch(d)' <=> IsBatch(d))
      BY <2>1 DEF End, IsBatch
    <3>2. Shape(d) /\ Good(d)
      BY DEF BatchInv
    <3> QED BY <2>1, <3>1, <3>2 DEF Shape, Good, Running, Accounts, Counted, Ordered
  <2> QED BY <2>2, <2>3 DEF BatchInv
<1> QED BY <1>1, <1>2, <1>3, CancelInv, DropInv DEF Next

-----------------------------------------------------------------------------
(* The theorems.                                                            *)

LEMMA BatchInvariant == Spec => []BatchInv
BY InitInv, NextInv, PTL DEF Spec

(* execute() and executeBatch() of PreparedStatement.js: the update counts  *)
(* a call ends with are what the host did, for any number of calls on one   *)
(* statement, any rows, any chunk size and any size of a request.           *)
THEOREM CountsHold == Spec => []CountsAreTrue
<1>1. BatchInv => CountsAreTrue
  BY DEF BatchInv, Good, Counted, CountsAreTrue
<1> QED BY <1>1, BatchInvariant, PTL

(* opts.chunkSize: no row of a batch is executed after one that was not,    *)
(* whichever of its requests and chunks fails, is cancelled or is lost.     *)
THEOREM OrderHolds == Spec => []RowsInOrder
<1>1. ASSUME BatchInv PROVE RowsInOrder
  <2> SUFFICES ASSUME NEW c \in Calls, IsBatch(c), NEW i \in DOMAIN rows[c],
                      <<c, i>> \in written, NEW j \in 1..i
               PROVE  <<c, j>> \in written
    BY DEF RowsInOrder
  <2>1. rows[c] \in Seq(1..FullWidth) /\ Good(c)
    BY <1>1 DEF BatchInv, Types
  <2>2. i \in Nat
    BY <2>1, LenProperties
  <2>3. CASE pc[c] = "idle"
    BY <2>1, <2>2, <2>3 DEF Good
  <2>4. CASE pc[c] # "idle"
    BY <2>1, <2>4 DEF Good, Ordered
  <2> QED BY <2>3, <2>4
<1> QED BY <1>1, BatchInvariant, PTL

-----------------------------------------------------------------------------
(* The format of the parameter data.                                        *)

(* The client remembers what is registered; at most one call runs, it is a  *)
(* batch, and a request with data goes out in the registered format.        *)
Agree ==
  /\ misread = {}
  /\ lastSentWidths = format
  /\ \A c \in Calls : Running(c) =>
       /\ IsBatch(c)
       /\ \A d \in Calls : Running(d) => d = c
       /\ pc[c] = "execute" => Width(c) = format

FormatInv == ~overlapped /\ ~singles => Agree

(* A call leaves its engine call and nothing else happens.                  *)
Stops(c) ==
  /\ mode' = mode
  /\ pc'[c] \notin {"change", "execute"}
  /\ \A d \in Calls \ {c} : pc'[d] = pc[d]

LEMMA ProceedsStops ==
  ASSUME NEW c \in Calls, Types, NEW what, Proceeds(c, what)
  PROVE  Stops(c)
BY DEF Proceeds, Types, Stops

LEMMA ThrowsStops ==
  ASSUME NEW c \in Calls, Types, NEW b, Throws(c, b)
  PROVE  Stops(c)
<1>1. Proceeds(c, "failed") \/ Rejects(c, "rejected") \/ Rejects(c, "rejected with counts")
  BY DEF Throws
<1> QED BY <1>1, ProceedsStops DEF Rejects, Types, Stops

LEMMA AgreeStops ==
  ASSUME NEW c \in Calls, Agree, Running(c), Stops(c),
         UNCHANGED <<misread, lastSentWidths, format>>
  PROVE  Agree'
<1>1. \A d \in Calls : IsBatch(d)' <=> IsBatch(d)
  BY DEF Stops, IsBatch
<1>2. \A d \in Calls : d # c => ~Running(d)'
  BY DEF Agree, Stops, Running
<1>3. IsBatch(c) /\ misread' = {} /\ lastSentWidths' = format' /\ pc'[c] # "execute"
  BY DEF Agree, Stops
<1> QED BY <1>1, <1>2, <1>3 DEF Agree

LEMMA RunsAgree ==
  ASSUME NEW c \in Calls, Agree, pc[c] = "execute", NEW n, Runs(c, n)
  PROVE  UNCHANGED <<misread, format>>
BY DEF Agree, Runs, Running

LEMMA WidthSame ==
  ASSUME NEW c \in Calls, UNCHANGED <<mode, rows, from>>
  PROVE  Width(c)' = Width(c) /\ (IsBatch(c)' <=> IsBatch(c))
BY DEF Width, End, IsBatch

LEMMA FormatStep ==
  ASSUME BatchInv, FormatInv, NEW c \in Calls, CallStep(c)
  PROVE  FormatInv'
<1> SUFFICES ASSUME Agree, UNCHANGED <<overlapped, singles>> PROVE Agree'
  <2>1. UNCHANGED <<overlapped, singles>>
    BY DEF CallStep, StartCancelled, Start, Changed, FormatRefused, BlockDone,
           Finished, EndsInterrupted, Lost, Failed, historyVars
  <2> QED BY <2>1 DEF FormatInv
<1>1. Types /\ QueueInv
  BY DEF BatchInv
<1>2. Running(c)
  <2>1. CASE Lost(c)
    <3>1. pc[c] = "ready" \/ (queue # <<>> /\ c = Head(queue))
      BY <2>1 DEF Lost
    <3>2. ASSUME queue # <<>>, c = Head(queue) PROVE Running(c)
      BY <1>1, <3>2, QueueHead DEF Waits, Running
    <3> QED BY <3>1, <3>2 DEF Running
  <2>2. CASE ~Lost(c)
    BY <2>2 DEF CallStep, StartCancelled, Start, Changed, FormatRefused, BlockDone,
                Finished, EndsInterrupted, Failed, IsNext, Running
  <2> QED BY <2>1, <2>2
<1>3. IsBatch(c) /\ \A d \in Calls : d # c => ~Running(d)
  BY <1>2 DEF Agree
<1>4. ASSUME UNCHANGED <<mode, rows, from>>, misread' = misread,
             lastSentWidths' = format', \A d \in Calls \ {c} : pc'[d] = pc[d],
             pc'[c] = "execute" => Width(c) = format'
      PROVE  Agree'
  <2>1. \A d \in Calls : d # c => ~Running(d)'
    BY <1>3, <1>4 DEF Running
  <2>2. Width(c)' = Width(c) /\ IsBatch(c)'
    BY <1>3, <1>4, WidthSame
  <2>3. misread' = {}
    BY <1>4 DEF Agree
  <2> QED BY <1>4, <2>1, <2>2, <2>3 DEF Agree
<1>5. CASE StartCancelled(c) \/ FormatRefused(c)
  <2>1. Throws(c, TRUE) /\ UNCHANGED <<misread, lastSentWidths, format>>
    BY <1>5 DEF StartCancelled, FormatRefused, clientVars, hostVars
  <2> QED BY <1>1, <1>2, <2>1, ThrowsStops, AgreeStops
<1>6. CASE Lost(c)
  <2>1. /\ Throws(c, TRUE) \/ Throws(c, FALSE)
        /\ UNCHANGED <<misread, lastSentWidths, format>>
    BY <1>6 DEF Lost, hostVars
  <2> QED BY <1>1, <1>2, <2>1, ThrowsStops, AgreeStops
<1>7. CASE Start(c)
  <2>1. /\ pc' = [pc EXCEPT ![c] = IF NeedsFormat(c) THEN "change" ELSE "execute"]
        /\ UNCHANGED <<mode, rows, from>> /\ UNCHANGED <<misread, lastSentWidths, format>>
    BY <1>7 DEF Start, clientVars, hostVars
  <2>2. /\ \A d \in Calls \ {c} : pc'[d] = pc[d]
        /\ pc'[c] = "execute" => ~NeedsFormat(c)
    BY <1>1, <2>1 DEF Types
  <2>3. lastSentWidths = format /\ (pc'[c] = "execute" => Width(c) = format)
    BY <2>2 DEF Agree, NeedsFormat
  <2> QED BY <1>4, <2>1, <2>2, <2>3
<1>8. CASE Changed(c)
  <2>1. /\ pc' = [pc EXCEPT ![c] = "execute"] /\ UNCHANGED <<mode, rows, from>>
        /\ misread' = misread /\ format' = Width(c) /\ lastSentWidths' = Width(c)
    BY <1>3, <1>8 DEF Changed
  <2>2. \A d \in Calls \ {c} : pc'[d] = pc[d]
    BY <1>1, <2>1 DEF Types
  <2> QED BY <1>4, <2>1, <2>2
<1>9. CASE BlockDone(c)
  <2>1. /\ pc[c] = "execute" /\ UNCHANGED <<pc, mode, rows, from>>
        /\ lastSentWidths' = lastSentWidths
        /\ Runs(c, Cardinality(Block(c)))
    BY <1>9 DEF BlockDone, IsNext, clientVars
  <2>2. UNCHANGED <<misread, format>>
    BY <2>1, RunsAgree
  <2>3. lastSentWidths = format /\ Width(c) = format
    BY <1>2, <2>1 DEF Agree
  <2> QED BY <1>4, <2>1, <2>2, <2>3
<1>10. CASE Finished(c)
  <2>1. /\ pc[c] = "execute" /\ lastSentWidths' = lastSentWidths
        /\ Runs(c, Cardinality(Block(c))) /\ Proceeds(c, "done")
    BY <1>10 DEF Finished, IsNext, clientVars
  <2>2. UNCHANGED <<misread, format>>
    BY <2>1, RunsAgree
  <2> QED BY <1>1, <1>2, <2>1, <2>2, ProceedsStops, AgreeStops
<1>11. CASE EndsInterrupted(c)
  <2>1. /\ Throws(c, TRUE) /\ lastSentWidths' = lastSentWidths
        /\ \/ UNCHANGED <<misread, format>>
           \/ pc[c] = "execute" /\ \E n \in 0..Cardinality(Block(c)) : Runs(c, n)
    BY <1>11 DEF EndsInterrupted, IsNext, hostVars
  <2>2. UNCHANGED <<misread, format>>
    BY <2>1, RunsAgree
  <2> QED BY <1>1, <1>2, <2>1, <2>2, ThrowsStops, AgreeStops
<1>12. ASSUME NEW n \in 0..MaxBlock - 1, Failed(c, n) PROVE Agree'
  <2>1. /\ pc[c] = "execute" /\ lastSentWidths' = lastSentWidths
        /\ Runs(c, n) /\ ThrowsCounts(c, n)
    BY <1>12 DEF Failed, IsNext, clientVars
  <2>2. UNCHANGED <<misread, format>>
    BY <2>1, RunsAgree
  <2>3. Rejects(c, "rejected with counts")
    BY <1>3, <2>1 DEF ThrowsCounts
  <2>4. Stops(c)
    BY <1>1, <2>3 DEF Rejects, Types, Stops
  <2> QED BY <1>2, <2>1, <2>2, <2>4, AgreeStops
<1> QED BY <1>5, <1>6, <1>7, <1>8, <1>9, <1>10, <1>11, <1>12 DEF CallStep

LEMMA FormatNext == BatchInv /\ FormatInv /\ [Next]_vars => FormatInv'
<1> SUFFICES ASSUME BatchInv, FormatInv, [Next]_vars PROVE FormatInv'
  OBVIOUS
<1>1. ASSUME NEW c \in Calls, NEW m \in Modes, NEW rs \in Batches, Begin(c, m, rs)
      PROVE  FormatInv'
  <2> SUFFICES ASSUME ~overlapped', ~singles' PROVE Agree'
    BY DEF FormatInv
  <2>1. /\ ~overlapped /\ ~singles /\ (\A d \in Calls : ~Running(d))
        /\ m \notin {"single", "each"}
        /\ pc' = [pc EXCEPT ![c] = "ready"] /\ mode' = [mode EXCEPT ![c] = m]
        /\ UNCHANGED <<misread, lastSentWidths, format>>
    BY <1>1 DEF Begin, clientVars, hostVars
  <2>2. /\ pc'[c] = "ready" /\ IsBatch(c)'
        /\ \A d \in Calls : d # c => ~Running(d)'
    BY <2>1 DEF BatchInv, Types, IsBatch, Running, Modes
  <2>3. misread' = {} /\ lastSentWidths' = format'
    BY <2>1 DEF FormatInv, Agree
  <2> QED BY <2>2, <2>3 DEF Agree
<1>2. CASE Cancel \/ UNCHANGED vars
  <2>1. /\ UNCHANGED <<pc, mode, rows, from>>
        /\ UNCHANGED <<misread, lastSentWidths, format, overlapped, singles>>
    BY <1>2 DEF Cancel, vars, callVars, clientVars, hostVars, historyVars
  <2>2. \A d \in Calls : Width(d)' = Width(d) /\ (IsBatch(d)' <=> IsBatch(d))
    BY <2>1, WidthSame
  <2> QED BY <2>1, <2>2 DEF FormatInv, Agree, Running
<1>3. CASE Drop
  <2> SUFFICES ASSUME Agree, UNCHANGED <<overlapped, singles>> PROVE Agree'
    BY <1>3 DEF Drop, FormatInv
  <2>1. /\ UNCHANGED <<pc, mode, rows, from>> /\ lastSentWidths' = lastSentWidths
        /\ \/ UNCHANGED <<misread, format>>
           \/ \E c \in Calls : /\ pc[c] = "execute"
                               /\ \E n \in 1..Cardinality(Block(c)) : Runs(c, n)
    BY <1>3 DEF Drop, IsNext, callVars, clientVars, hostVars
  <2>2. UNCHANGED <<misread, format>>
    BY <2>1, RunsAgree
  <2>3. \A d \in Calls : Width(d)' = Width(d) /\ (IsBatch(d)' <=> IsBatch(d))
    BY <2>1, WidthSame
  <2> QED BY <2>1, <2>2, <2>3 DEF Agree, Running
<1> QED BY <1>1, <1>2, <1>3, FormatStep DEF Next

(* lastSentWidths of StatementManager.js: as long as the calls on a         *)
(* statement do not overlap and are all batches, the host reads every batch *)
(* in the format it was encoded in, whatever is cancelled, refused or lost. *)
THEOREM FormatsAgree == Spec => []FormatsAgreeUnlessMixed
<1>1. Init => FormatInv
  BY DEF Init, FormatInv, Agree, Running
<1>2. FormatInv => FormatsAgreeUnlessMixed
  BY DEF FormatInv, Agree, FormatsAgreeUnlessMixed
<1> QED BY <1>1, <1>2, FormatNext, BatchInvariant, PTL DEF Spec

-----------------------------------------------------------------------------
(* Type correctness.                                                        *)

(* A set of numbers up to n that is not empty has a largest one.            *)
LEMMA MaxOfBounded ==
  ASSUME NEW n \in Nat, NEW S \in SUBSET (0..n), S # {}
  PROVE  Max(S) \in S
<1> DEFINE T == {x \in Nat : n - x \in S}
<1>1. T \subseteq Nat /\ T # {}
  <2>1. PICK w \in S : TRUE
    OBVIOUS
  <2>2. n - w \in Nat /\ n - (n - w) = w
    BY <2>1
  <2> QED BY <2>1, <2>2
<1>2. PICK x \in T : \A y \in T : ~(<<y, x>> \in OpToRel(<, Nat))
  BY <1>1, WFMin, NatLessThanWellFounded
<1>3. \A y \in T : x <= y
  <2> SUFFICES ASSUME NEW y \in T, y < x PROVE FALSE
    BY <1>1
  <2>1. <<y, x>> \in OpToRel(<, Nat)
    BY <1>1 DEF OpToRel
  <2> QED BY <1>2, <2>1
<1>4. n - x \in S /\ \A w \in S : n - x >= w
  <2>1. ASSUME NEW w \in S PROVE n - x >= w
    <3>1. w \in Nat /\ n - w \in T
      <4>1. w \in 0..n /\ n - w \in Nat /\ n - (n - w) = w
        OBVIOUS
      <4> QED BY <4>1
    <3>2. x <= n - w /\ x \in Nat
      BY <1>1, <1>3, <3>1
    <3> QED BY <3>1, <3>2
  <2> QED BY <2>1
<1> HIDE DEF T
<1> QED BY <1>4 DEF Max

LEMMA WidthBounds ==
  ASSUME NEW c \in Calls, Types, Shape(c), Running(c)
  PROVE  Width(c) \in 0..FullWidth
<1> DEFINE S == {rows[c][i] : i \in from[c]..End(c)}
<1>1. FullWidth \in Nat
  BY BatchAssumption
<1>2. /\ rows[c] \in Seq(1..FullWidth) /\ Len(rows[c]) \in Nat
      /\ from[c] \in Nat /\ 1 <= from[c] /\ from[c] <= End(c)
      /\ End(c) \in Nat /\ End(c) <= Len(rows[c])
  BY Numbers
<1>3. \A i \in from[c]..End(c) : i \in 1..Len(rows[c])
  BY <1>2
<1>4. S \subseteq 0..FullWidth
  <2>1. ASSUME NEW i \in from[c]..End(c) PROVE rows[c][i] \in 0..FullWidth
    <3>1. rows[c][i] \in 1..FullWidth
      BY <1>2, <1>3, ElementOfSeq
    <3> QED BY <1>1, <3>1
  <2> QED BY <2>1
<1>5. S # {}
  <2>1. from[c] \in from[c]..End(c)
    BY <1>2
  <2> QED BY <2>1
<1>6. Max(S) \in 0..FullWidth
  <2> HIDE DEF S
  <2> QED BY <1>1, <1>4, <1>5, MaxOfBounded
<1> QED BY <1>1, <1>6 DEF Width

Widths == lastSentWidths \in 0..FullWidth /\ format \in 0..FullWidth

LEMMA WidthsNext == BatchInv /\ Widths /\ [Next]_vars => Widths'
<1> SUFFICES ASSUME BatchInv, Widths, [Next]_vars PROVE Widths'
  OBVIOUS
<1>1. ASSUME NEW c \in Calls, Changed(c) PROVE Widths'
  <2>1. Running(c) /\ Types /\ Shape(c)
    BY <1>1 DEF Changed, IsNext, Running, BatchInv
  <2>2. Width(c) \in 0..FullWidth
    BY <2>1, WidthBounds
  <2> QED BY <1>1, <2>2 DEF Changed, Widths
<1>2. CASE \A c \in Calls : ~Changed(c)
  <2>1. UNCHANGED <<lastSentWidths, format>>
    BY <1>2 DEF Next, CallStep, vars, StartCancelled, Start, FormatRefused, BlockDone,
                Finished, EndsInterrupted, Lost, Failed, Begin, Cancel, Drop, Runs,
                clientVars, hostVars
  <2> QED BY <2>1 DEF Widths
<1> QED BY <1>1, <1>2

(* The state of the calls, of the statement and of the queue of requests    *)
(* is well-formed: a call is in the queue exactly while it waits, once.     *)
THEOREM TypeCorrect == Spec => []TypeOK
<1>1. Init => Widths
  BY BatchAssumption DEF Init, Widths
<1>2. BatchInv /\ Widths => TypeOK
  BY DEF BatchInv, Types, States, QueueInv, Waits, Shape, Widths, TypeOK
<1> QED BY <1>1, <1>2, WidthsNext, BatchInvariant, PTL DEF Spec

=============================================================================
