------------------------ MODULE HostConnection_proof ------------------------
(***************************************************************************)
(* Proofs about HostConnection, for any number of calls, and with the      *)
(* history overlap for calls that do not take the lock.                    *)
(***************************************************************************)
EXTENDS MCHostConnection, SequenceTheorems, TLAPS

-----------------------------------------------------------------------------
(* Sequences.                                                               *)

LEMMA AppendKeepsHead ==
  ASSUME NEW S, NEW s \in Seq(S), NEW e \in S
  PROVE  /\ Append(s, e) \in Seq(S)
         /\ Append(s, e) # <<>>
         /\ s # <<>> => Head(Append(s, e)) = Head(s)
         /\ s = <<>> => Head(Append(s, e)) = e
  OBVIOUS

LEMMA TailSeq ==
  ASSUME NEW S, NEW s \in Seq(S), s # <<>>
  PROVE  Tail(s) \in Seq(S) /\ Head(s) \in S
  OBVIOUS

-----------------------------------------------------------------------------
(* The lock.                                                                *)

(* A locked call between its write and the end of its read is the head of   *)
(* the lock queue.  With the types, this is inductive: the head leaves the  *)
(* queue only in the step in which it stops talking.                        *)
HeadTalks ==
  \A c \in LockedCalls : Talking(c) => lock # <<>> /\ Head(lock) = c

LockInv == ConnTypeOK /\ CallTypeOK /\ HeadTalks

LEMMA InitLockInv == Init => LockInv
<1> SUFFICES ASSUME Init PROVE LockInv
  OBVIOUS
<1>1. ConnTypeOK
  BY DEF Init, ConnTypeOK
<1>2. CallTypeOK
  BY DEF Init, CallTypeOK
<1>3. HeadTalks
  BY DEF Init, HeadTalks, Talking, Calls
<1> QED BY <1>1, <1>2, <1>3 DEF LockInv

(* The socket's own state: only the events of the socket change it.         *)
LEMMA ConnTypeStep == ConnTypeOK /\ [Next]_vars => ConnTypeOK'
<1> SUFFICES ASSUME ConnTypeOK, [Next]_vars PROVE ConnTypeOK'
  OBVIOUS
<1> USE DEF ConnTypeOK
<1>1. CASE UNCHANGED connVars
  BY <1>1, Zenon DEF connVars
<1>2. CASE Connect
  BY <1>2 DEF Connect
<1>3. CASE Established
  BY <1>3 DEF Established
<1>4. CASE Unreachable \/ DialError \/ GiveUp
  BY <1>4 DEF Unreachable, DialError, GiveUp
<1>5. CASE PeerFin
  BY <1>5 DEF PeerFin
<1>6. CASE EndEvent
  BY <1>6 DEF EndEvent
<1>7. CASE CloseEvent
  BY <1>7 DEF CloseEvent
<1>8. CASE ErrorEvent
  BY <1>8 DEF ErrorEvent
<1>9. CASE LocalClose
  BY <1>9 DEF LocalClose
<1>10. ASSUME NEW c \in Calls, SendAfterEnd(c) PROVE ConnTypeOK'
  BY <1>10 DEF SendAfterEnd
<1>11. ASSUME NEW c \in Calls, CallStep(c) PROVE SendAfterEnd(c) \/ UNCHANGED connVars
  BY <1>11, Zenon DEF CallStep, Begin, Send, SendRefused, WriteDone, WriteFails,
                      TakeHeader, TakeBody
<1>12. Answer \/ Deliver \/ UNCHANGED vars => UNCHANGED connVars
  BY DEF Answer, Deliver, vars, connVars
<1> QED
  BY <1>1, <1>2, <1>3, <1>4, <1>5, <1>6, <1>7, <1>8, <1>9, <1>10, <1>11, <1>12
  DEF Next

(* The types of the calls' state, and the head of the lock: a step either   *)
(* leaves the lock alone, appends to it, or takes away the head that stops  *)
(* talking in the same step.                                                *)
LEMMA RejectStep ==
  ASSUME CallTypeOK, HeadTalks, NEW S, Reject(S),
         UNCHANGED <<header, frames>>,
         wire' \in Seq(Calls), net' \in Seq(Chunk), inbox' \in Seq(Chunk)
  PROVE  CallTypeOK' /\ HeadTalks'
<1>1. lock' \in Seq(LockedCalls)
  BY TailSeq DEF Reject, CallTypeOK
<1>2. CallTypeOK'
  BY <1>1 DEF Reject, CallTypeOK
<1>3. ASSUME NEW c \in LockedCalls, Talking(c)' PROVE lock' # <<>> /\ Head(lock') = c
  <2>1. c \notin S /\ Talking(c)
    BY <1>3 DEF Reject, Talking, Calls
  <2>2. lock # <<>> /\ Head(lock) = c
    BY <2>1 DEF HeadTalks
  <2> QED BY <2>1, <2>2 DEF Reject
<1> QED BY <1>2, <1>3 DEF HeadTalks

LEMMA CallTypeStep ==
  CallTypeOK /\ HeadTalks /\ [Next]_vars => CallTypeOK' /\ HeadTalks'
<1> SUFFICES ASSUME CallTypeOK, HeadTalks, [Next]_vars
             PROVE  CallTypeOK' /\ HeadTalks'
  OBVIOUS
<1>1. CASE UNCHANGED callVars /\ wire' \in Seq(Calls) /\ net' \in Seq(Chunk)
                              /\ inbox' \in Seq(Chunk)
  BY <1>1 DEF callVars, CallTypeOK, HeadTalks, Talking
<1>2. CASE UNCHANGED <<callVars, streamVars>>
  BY <1>1, <1>2 DEF streamVars, CallTypeOK
<1>3. ASSUME NEW c \in Calls, Begin(c) PROVE CallTypeOK' /\ HeadTalks'
  <2>1. lock' \in Seq(LockedCalls)
    BY <1>3, AppendKeepsHead DEF Begin, CallTypeOK
  <2>2. CallTypeOK'
    BY <1>3, <2>1 DEF Begin, CallTypeOK, streamVars
  <2>3. ASSUME NEW d \in LockedCalls, Talking(d)' PROVE lock' # <<>> /\ Head(lock') = d
    <3>1. Talking(d)
      BY <1>3, <2>3 DEF Begin, Talking, CallTypeOK, Calls
    <3>2. lock # <<>> /\ Head(lock) = d
      BY <3>1 DEF HeadTalks
    <3> QED BY SMTT(30), <1>3, <3>2, AppendKeepsHead DEF Begin, CallTypeOK
  <2> QED BY <2>2, <2>3 DEF HeadTalks
<1>4. ASSUME NEW c \in Calls, Send(c) PROVE CallTypeOK' /\ HeadTalks'
  <2>1. CallTypeOK'
    BY <1>4 DEF Send, CallTypeOK
  <2>2. HeadTalks'
    BY <1>4 DEF Send, CallTypeOK, HeadTalks, Talking, HasTurn, Calls
  <2> QED BY <2>1, <2>2
<1>5. ASSUME NEW c \in Calls, SendAfterEnd(c) PROVE CallTypeOK' /\ HeadTalks'
  BY <1>5, RejectStep DEF SendAfterEnd, CallTypeOK, streamVars
<1>6. ASSUME NEW c \in Calls, lock' = Release(c), pc' = [pc EXCEPT ![c] = "failed"],
             HasTurn(c) \/ Talking(c), readers' = readers \/ readers' = Tail(readers),
             readers' \in Seq(Calls), wire' \in Seq(Calls), net' \in Seq(Chunk),
             inbox' \in Seq(Chunk), UNCHANGED <<header, frames>>
      PROVE  CallTypeOK' /\ HeadTalks'
  <2>1. c \in LockedCalls => lock # <<>> /\ Head(lock) = c
    BY <1>6 DEF HasTurn, HeadTalks
  <2>2. lock' \in Seq(LockedCalls)
    BY <1>6, <2>1, TailSeq DEF Release, CallTypeOK
  <2>3. CallTypeOK'
    BY <1>6, <2>2 DEF CallTypeOK
  <2>4. HeadTalks'
    BY <1>6, <2>1 DEF HeadTalks, Talking, Release, CallTypeOK, Calls
  <2> QED BY <2>3, <2>4
<1>7. ASSUME NEW c \in Calls, SendRefused(c) PROVE CallTypeOK' /\ HeadTalks'
  BY <1>6, <1>7 DEF SendRefused, CallTypeOK, streamVars
<1>8. ASSUME NEW c \in Calls, WriteDone(c) PROVE CallTypeOK' /\ HeadTalks'
  <2>1. CallTypeOK'
    BY <1>8 DEF WriteDone, CallTypeOK, streamVars
  <2>2. HeadTalks'
    BY <1>8 DEF WriteDone, CallTypeOK, HeadTalks, Talking, Calls
  <2> QED BY <2>1, <2>2
<1>9. ASSUME NEW c \in Calls, WriteFails(c) PROVE CallTypeOK' /\ HeadTalks'
  BY <1>6, <1>9 DEF WriteFails, CallTypeOK, streamVars, Talking
<1>10. ASSUME NEW c \in Calls, TakeHeader(c) PROVE CallTypeOK' /\ HeadTalks'
  <2>1. /\ inbox' \in Seq(Chunk) /\ Head(inbox) \in Chunk
        /\ Tail(readers) \in Seq(Calls)
        /\ Append(Tail(readers), c) \in Seq(Calls)
    BY <1>10, TailSeq, AppendKeepsHead DEF TakeHeader, CallTypeOK
  <2>2. CASE pc' = [pc EXCEPT ![c] = "body"] /\ lock' = lock
             /\ header' = [header EXCEPT ![c] = Head(inbox)]
             /\ readers' = Append(Tail(readers), c)
    <3>1. CallTypeOK'
      BY <1>10, <2>1, <2>2 DEF TakeHeader, CallTypeOK
    <3>2. HeadTalks'
      BY <1>10, <2>2 DEF TakeHeader, CallTypeOK, HeadTalks, Talking, Calls
    <3> QED BY <3>1, <3>2
  <2>3. CASE pc' = [pc EXCEPT ![c] = "failed"] /\ lock' = Release(c)
             /\ header' = header /\ readers' = Tail(readers)
    BY <1>6, <1>10, <2>1, <2>3 DEF TakeHeader, Talking, CallTypeOK
  <2> QED BY <1>10, <2>2, <2>3 DEF TakeHeader
<1>11. ASSUME NEW c \in Calls, TakeBody(c) PROVE CallTypeOK' /\ HeadTalks'
  <2> DEFINE f == [header |-> header[c], body |-> Head(inbox)]
  <2>1. /\ inbox' \in Seq(Chunk) /\ Head(inbox) \in Chunk
        /\ Tail(readers) \in Seq(Calls)
        /\ Append(Tail(readers), c) \in Seq(Calls)
    BY <1>11, TailSeq, AppendKeepsHead DEF TakeBody, CallTypeOK
  <2>2. f \in Frame
    BY <2>1 DEF Frame, CallTypeOK
  <2>3. frames' \in [Calls -> Seq(Frame)]
    BY <1>11, <2>2, AppendKeepsHead DEF TakeBody, CallTypeOK
  <2>4. header' \in [Calls -> Chunk \cup {NoHeader}]
    BY <1>11 DEF TakeBody, CallTypeOK
  <2>5. readers' \in Seq(Calls)
    BY <1>11, <2>1 DEF TakeBody
  <2>6. c \in LockedCalls => lock # <<>> /\ Head(lock) = c
    BY <1>11 DEF TakeBody, HeadTalks, Talking
  <2>7. lock' \in Seq(LockedCalls)
    <3>1. lock' = lock \/ lock' = Release(c)
      BY <1>11, Zenon DEF TakeBody
    <3> QED BY <2>6, <3>1, TailSeq DEF Release, CallTypeOK
  <2>8. CallTypeOK'
    BY <1>11, <2>1, <2>3, <2>4, <2>5, <2>7 DEF TakeBody, CallTypeOK
  <2>9. ASSUME NEW d \in LockedCalls, Talking(d)'
        PROVE  lock' # <<>> /\ Head(lock') = d
    <3>1. Talking(d)
      BY <1>11, <2>9 DEF TakeBody, Talking, CallTypeOK, Calls
    <3>2. lock # <<>> /\ Head(lock) = d
      BY <3>1 DEF HeadTalks
    <3>3. lock' = lock
      BY <1>11, <2>6, <2>9, <3>2 DEF TakeBody, Release, Talking, CallTypeOK, Calls
    <3> QED BY <3>2, <3>3
  <2> QED BY <2>8, <2>9 DEF HeadTalks
<1>12. CASE Answer
  <2>1. wire # <<>> /\ Head(wire) \in Calls /\ wire' \in Seq(Calls)
    BY <1>12, TailSeq DEF Answer, CallTypeOK
  <2>2. /\ HeaderOf(Head(wire)) \in Chunk
        /\ BodyOf(Head(wire)) \in Chunk
    BY <2>1 DEF HeaderOf, BodyOf, Chunk
  <2>3. net' \in Seq(Chunk)
    BY <1>12, <2>2 DEF Answer, CallTypeOK
  <2> QED BY <1>1, <1>12, <2>1, <2>3 DEF Answer, CallTypeOK
<1>13. CASE Deliver
  <2>1. /\ net' \in Seq(Chunk) /\ inbox' \in Seq(Chunk)
    BY <1>13, TailSeq, AppendKeepsHead DEF Deliver, CallTypeOK
  <2> QED BY <1>1, <1>13, <2>1 DEF Deliver, CallTypeOK
<1>14. CASE PeerFin \/ LocalClose
  <2>1. /\ UNCHANGED callVars
        /\ wire' \in Seq(Calls) /\ net' \in Seq(Chunk) /\ inbox' \in Seq(Chunk)
    BY <1>14, EmptySeq DEF PeerFin, LocalClose, CallTypeOK
  <2> QED BY <1>1, <2>1
<1>15. CASE EndEvent \/ ErrorEvent
  <2>1. /\ Reject(ToSet(readers)) /\ UNCHANGED <<header, frames>>
        /\ wire' \in Seq(Calls) /\ net' \in Seq(Chunk) /\ inbox' \in Seq(Chunk)
    BY <1>15, EmptySeq DEF EndEvent, ErrorEvent, CallTypeOK, streamVars
  <2> QED BY <2>1, RejectStep
<1>16. CASE Connect \/ Established \/ Unreachable \/ DialError \/ GiveUp
           \/ CloseEvent \/ UNCHANGED vars
  BY <1>2, <1>16 DEF Connect, Established, Unreachable, DialError, GiveUp,
                     CloseEvent, vars,
                     streamVars, callVars
<1> QED
  BY <1>3, <1>4, <1>5, <1>7, <1>8, <1>9, <1>10, <1>11, <1>12, <1>13, <1>14,
     <1>15, <1>16 DEF Next, CallStep

LEMMA NextLockInv == LockInv /\ [Next]_vars => LockInv'
  BY ConnTypeStep, CallTypeStep DEF LockInv

(* Every reachable state is well typed, whatever the calls and whether or   *)
(* not raw ones are among them.                                             *)
THEOREM TypeCorrect == Spec => []TypeOK
<1>1. LockInv => TypeOK
  BY DEF LockInv, TypeOK
<1> QED BY <1>1, InitLockInv, NextLockInv, PTL DEF Spec

(* The mutex of Connection.js: at most one locked call talks, also when raw *)
(* calls share the socket.                                                  *)
THEOREM MutualExclusion == Spec => []OneLockedCallTalks
<1>1. LockInv => OneLockedCallTalks
  BY DEF LockInv, HeadTalks, OneLockedCallTalks
<1> QED BY <1>1, InitLockInv, NextLockInv, PTL DEF Spec

-----------------------------------------------------------------------------
(* The stream, as long as no two calls talk at the same time.               *)

Alone == \A c, d \in Calls : Talking(c) /\ Talking(d) => c = d

FrameOf(c) == <<HeaderOf(c), BodyOf(c)>>

(* The pieces a talking call has still to read: what is left of the frame   *)
(* it is reading, and the frame after it.                                   *)
Later(c) == IF c \in RawCalls /\ frames[c] = <<>> THEN FrameOf(c) ELSE <<>>
Rest(c) == (IF pc[c] = "body" THEN <<BodyOf(c)>> ELSE FrameOf(c)) \o Later(c)

(* The request of a talking call is still on its way to the server, or it   *)
(* was answered and the pieces the call has still to read are between the   *)
(* server and the read buffer, or it was lost with the socket.              *)
Unanswered(c) ==
  /\ wire = <<c>> /\ net = <<>> /\ inbox = <<>>
  /\ frames[c] = <<>> /\ pc[c] # "body"

Answered(c) == wire = <<>> /\ inbox \o net \in {Rest(c), <<>>}

Quiet == wire = <<>> /\ net = <<>> /\ inbox = <<>>

(* The stream holds what the one talking call awaits and nothing else.      *)
StreamMatches ==
  /\ (\A c \in Calls : ~Talking(c)) => Quiet
  /\ \A c \in Calls : Talking(c) => Unanswered(c) \/ Answered(c)
  /\ \A c \in Calls : pc[c] = "body" => header[c] = HeaderOf(c)

(* A call has read frames of its own only, and not more than it expects.    *)
FramesMatch ==
  \A c \in Calls :
    /\ \A i \in 1..Len(frames[c]) : OwnFrame(c, frames[c][i])
    /\ pc[c] \in {"idle", "queued", "writing"} => frames[c] = <<>>
    /\ pc[c] \in {"header", "body"} => Len(frames[c]) < Expected(c)
    /\ pc[c] = "done" => Len(frames[c]) = Expected(c)

(* At most one call waits for data, and it is talking.                      *)
ReadersTalk ==
  \/ readers = <<>>
  \/ \E c \in Calls : readers = <<c>> /\ pc[c] \in {"header", "body"}

(* A socket that is not up carries nothing, and no one believes it is up.   *)
DeadSocketQuiet ==
  /\ connected => os \in {"open", "fin", "ended"}
  /\ os \in {"open", "fin"} => Usable
  /\ os \notin {"open", "fin"} => Quiet
  /\ os = "fin" => wire = <<>>

(* Before connect() settles there is no socket to use or to close.          *)
DialInv ==
  /\ dial = "idle" => os = "none"
  /\ dial = "pending" => os \in {"opening", "down"}
  /\ dial \in {"idle", "pending"} => ~socket
  /\ os = "opening" => dial = "pending"

StreamInv ==
  StreamMatches /\ FramesMatch /\ ReadersTalk /\ DeadSocketQuiet /\ DialInv

(* Short sequences, computed.                                               *)
LEMMA SingletonSeq ==
  ASSUME NEW a
  PROVE  /\ Append(<<>>, a) = <<a>>
         /\ <<a>> # <<>> /\ Head(<<a>>) = a /\ Tail(<<a>>) = <<>>
         /\ Len(<<a>>) = 1
  OBVIOUS

LEMMA PairTail ==
  ASSUME NEW a, NEW b
  PROVE  Tail(<<a, b>>) = <<b>>
<1>1. <<a, b>> \in Seq({a, b}) /\ <<a, b>> # <<>> /\ Len(<<a, b>>) = 2
  OBVIOUS
<1>2. /\ Tail(<<a, b>>) \in Seq({a, b})
      /\ Len(Tail(<<a, b>>)) = 1
      /\ Tail(<<a, b>>)[1] = b
  BY <1>1, HeadTailProperties
<1>3. <<b>> \in Seq({a, b}) /\ Len(<<b>>) = 1 /\ <<b>>[1] = b
  OBVIOUS
<1> QED BY <1>2, <1>3, SeqEqual

(* A sequence cut in two, when its first element or the cut moves.          *)
LEMMA FirstOfConcat ==
  ASSUME NEW S, NEW s \in Seq(S), NEW t \in Seq(S), s # <<>>
  PROVE  /\ s \o t # <<>>
         /\ Head(s \o t) = Head(s)
         /\ Tail(s \o t) = Tail(s) \o t
<1>1. /\ Len(s) \in Nat \ {0} /\ Len(t) \in Nat /\ Head(s) = s[1]
      /\ Tail(s) \in Seq(S) /\ Len(Tail(s)) = Len(s) - 1
      /\ \A i \in 1 .. Len(s) - 1 : Tail(s)[i] = s[i + 1]
  BY EmptySeq, LenProperties, HeadTailProperties
<1>2. /\ s \o t \in Seq(S) /\ Len(s \o t) = Len(s) + Len(t)
      /\ \A i \in 1 .. Len(s) + Len(t) :
           (s \o t)[i] = IF i <= Len(s) THEN s[i] ELSE t[i - Len(s)]
  BY ConcatProperties
<1>3. s \o t # <<>> /\ Head(s \o t) = Head(s)
  BY <1>1, <1>2, EmptySeq
<1>4. /\ Tail(s \o t) \in Seq(S) /\ Len(Tail(s \o t)) = Len(s) + Len(t) - 1
      /\ \A i \in 1 .. Len(s) + Len(t) - 1 : Tail(s \o t)[i] = (s \o t)[i + 1]
  BY <1>1, <1>2, <1>3, HeadTailProperties
<1>5. /\ Tail(s) \o t \in Seq(S) /\ Len(Tail(s) \o t) = Len(s) - 1 + Len(t)
      /\ \A i \in 1 .. Len(s) - 1 + Len(t) : (Tail(s) \o t)[i] =
           IF i <= Len(s) - 1 THEN Tail(s)[i] ELSE t[i - (Len(s) - 1)]
  BY <1>1, ConcatProperties
<1>6. ASSUME NEW i \in 1 .. Len(s) + Len(t) - 1
      PROVE  Tail(s \o t)[i] = (Tail(s) \o t)[i]
  <2>1. i + 1 \in 1 .. Len(s) + Len(t) /\ i \in 1 .. Len(s) - 1 + Len(t)
    BY <1>1
  <2>2. Tail(s \o t)[i] = IF i + 1 <= Len(s) THEN s[i + 1] ELSE t[i + 1 - Len(s)]
    BY <1>2, <1>4, <2>1
  <2>3. CASE i <= Len(s) - 1
    BY <1>1, <1>5, <2>1, <2>2, <2>3
  <2>4. CASE ~(i <= Len(s) - 1)
    <3>1. i + 1 - Len(s) = i - (Len(s) - 1) /\ ~(i + 1 <= Len(s))
      BY <1>1, <2>4
    <3> QED BY <1>5, <2>1, <2>2, <2>4, <3>1
  <2> QED BY <2>3, <2>4
<1>7. Tail(s \o t) = Tail(s) \o t
  <2>1. Len(Tail(s \o t)) = Len(Tail(s) \o t)
    BY <1>1, <1>4, <1>5
  <2> QED BY <1>4, <1>5, <1>6, <2>1, SeqEqual
<1> QED BY <1>3, <1>7

LEMMA MoveTheCut ==
  ASSUME NEW S, NEW s \in Seq(S), NEW t \in Seq(S), t # <<>>
  PROVE  Append(s, Head(t)) \o Tail(t) = s \o t
<1>1. Head(t) \in S /\ Tail(t) \in Seq(S) /\ <<Head(t)>> \in Seq(S)
  BY HeadTailProperties
<1>2. Append(s, Head(t)) = s \o <<Head(t)>>
  BY <1>1, AppendIsConcat
<1>3. <<Head(t)>> \o Tail(t) = t
  <2>1. /\ Len(t) \in Nat \ {0} /\ Head(t) = t[1] /\ Len(Tail(t)) = Len(t) - 1
        /\ \A i \in 1 .. Len(t) - 1 : Tail(t)[i] = t[i + 1]
    BY EmptySeq, HeadTailProperties
  <2>2. /\ <<Head(t)>> \o Tail(t) \in Seq(S)
        /\ Len(<<Head(t)>> \o Tail(t)) = 1 + (Len(t) - 1)
        /\ \A i \in 1 .. 1 + (Len(t) - 1) : (<<Head(t)>> \o Tail(t))[i] =
             IF i <= 1 THEN <<Head(t)>>[i] ELSE Tail(t)[i - 1]
    BY <1>1, <2>1, ConcatProperties, SingletonSeq
  <2>3. \A i \in 1 .. Len(t) : (<<Head(t)>> \o Tail(t))[i] = t[i]
    <3> SUFFICES ASSUME NEW i \in 1 .. Len(t)
                 PROVE  (<<Head(t)>> \o Tail(t))[i] = t[i]
      OBVIOUS
    <3>1. CASE i = 1
      BY <2>1, <2>2, <3>1
    <3>2. CASE i # 1
      <4>1. i - 1 \in 1 .. Len(t) - 1 /\ i - 1 + 1 = i /\ ~(i <= 1)
            /\ i \in 1 .. 1 + (Len(t) - 1)
        BY <2>1, <3>2
      <4>2. Tail(t)[i - 1] = t[i]
        BY <2>1, <4>1
      <4> QED BY <2>2, <4>1, <4>2
    <3> QED BY <3>1, <3>2
  <2> QED BY <2>1, <2>2, <2>3, SeqEqual
<1> QED BY <1>1, <1>2, <1>3, ConcatAssociative

LEMMA PieceTypes ==
  ASSUME NEW c \in Calls
  PROVE  /\ HeaderOf(c) \in Chunk /\ BodyOf(c) \in Chunk
         /\ FrameOf(c) \in Seq(Chunk) /\ <<BodyOf(c)>> \in Seq(Chunk)
         /\ Later(c) \in Seq(Chunk)
<1>1. HeaderOf(c) \in Chunk /\ BodyOf(c) \in Chunk
  BY DEF HeaderOf, BodyOf, Chunk
<1>2. FrameOf(c) \in Seq(Chunk) /\ <<BodyOf(c)>> \in Seq(Chunk)
  BY <1>1 DEF FrameOf
<1> QED BY <1>1, <1>2, EmptySeq DEF Later

LEMMA FramePieces ==
  ASSUME NEW c \in Calls
  PROVE  /\ FrameOf(c) # <<>> /\ Head(FrameOf(c)) = HeaderOf(c)
         /\ Tail(FrameOf(c)) = <<BodyOf(c)>>
<1>1. <<HeaderOf(c), BodyOf(c)>> # <<>> /\ Head(<<HeaderOf(c), BodyOf(c)>>) = HeaderOf(c)
  OBVIOUS
<1> QED BY <1>1, PairTail DEF FrameOf

(* A call that waits for a header finds its own, and its body is next.      *)
LEMMA HeaderIsNext ==
  ASSUME CallTypeOK, StreamMatches, NEW c \in Calls, pc[c] = "header", inbox # <<>>
  PROVE  /\ wire = <<>>
         /\ Head(inbox) = HeaderOf(c)
         /\ Tail(inbox) \o net = <<BodyOf(c)>> \o Later(c)
<1>1. Answered(c)
  BY DEF StreamMatches, Talking, Unanswered
<1>2. net \in Seq(Chunk) /\ inbox \in Seq(Chunk)
  BY DEF CallTypeOK
<1>3. /\ inbox \o net # <<>>
      /\ Head(inbox \o net) = Head(inbox)
      /\ Tail(inbox \o net) = Tail(inbox) \o net
  BY <1>2, FirstOfConcat
<1>4. inbox \o net = FrameOf(c) \o Later(c)
  BY <1>1, <1>3 DEF Answered, Rest
<1>5. /\ Head(FrameOf(c) \o Later(c)) = HeaderOf(c)
      /\ Tail(FrameOf(c) \o Later(c)) = <<BodyOf(c)>> \o Later(c)
  <2>1. /\ FrameOf(c) \in Seq(Chunk) /\ Later(c) \in Seq(Chunk) /\ FrameOf(c) # <<>>
        /\ Head(FrameOf(c)) = HeaderOf(c) /\ Tail(FrameOf(c)) = <<BodyOf(c)>>
    BY PieceTypes, FramePieces
  <2>2. /\ Head(FrameOf(c) \o Later(c)) = Head(FrameOf(c))
        /\ Tail(FrameOf(c) \o Later(c)) = Tail(FrameOf(c)) \o Later(c)
    BY <2>1, FirstOfConcat
  <2> QED BY <2>1, <2>2
<1> QED BY <1>1, <1>3, <1>4, <1>5 DEF Answered

(* A call that waits for a body finds its own, and its next frame follows.  *)
LEMMA BodyIsNext ==
  ASSUME CallTypeOK, StreamMatches, NEW c \in Calls, pc[c] = "body", inbox # <<>>
  PROVE  /\ wire = <<>>
         /\ Head(inbox) = BodyOf(c)
         /\ header[c] = HeaderOf(c)
         /\ Tail(inbox) \o net = Later(c)
<1>1. Answered(c) /\ header[c] = HeaderOf(c)
  BY DEF StreamMatches, Talking, Unanswered
<1>2. net \in Seq(Chunk) /\ inbox \in Seq(Chunk)
  BY DEF CallTypeOK
<1>3. /\ inbox \o net # <<>>
      /\ Head(inbox \o net) = Head(inbox)
      /\ Tail(inbox \o net) = Tail(inbox) \o net
  BY <1>2, FirstOfConcat
<1>4. inbox \o net = <<BodyOf(c)>> \o Later(c)
  BY <1>1, <1>3 DEF Answered, Rest
<1>5. /\ Head(<<BodyOf(c)>> \o Later(c)) = BodyOf(c)
      /\ Tail(<<BodyOf(c)>> \o Later(c)) = <<>> \o Later(c)
  BY PieceTypes, SingletonSeq, FirstOfConcat
<1>6. <<>> \o Later(c) = Later(c)
  BY PieceTypes, ConcatEmptySeq
<1> QED BY <1>1, <1>3, <1>4, <1>5, <1>6 DEF Answered

(* A body completes a frame of the call's own; another one follows only for *)
(* a raw call that has read none.                                           *)
LEMMA FrameComplete ==
  ASSUME CallTypeOK, StreamInv, NEW c \in Calls, TakeBody(c)
  PROVE  /\ OwnFrame(c, [header |-> header[c], body |-> Head(inbox)])
         /\ frames' = [frames EXCEPT ![c] =
               Append(@, [header |-> HeaderOf(c), body |-> BodyOf(c)])]
         /\ frames'[c] # <<>> /\ Len(frames'[c]) = Len(frames[c]) + 1
         /\ wire' = <<>> /\ inbox' = Tail(inbox) /\ net' = net
         /\ Len(frames[c]) \in Nat /\ (frames[c] = <<>> <=> Len(frames[c]) = 0)
         /\ \/ /\ pc' = [pc EXCEPT ![c] = "done"]
               /\ Len(frames[c]) + 1 = Expected(c)
               /\ Quiet'
            \/ /\ pc' = [pc EXCEPT ![c] = "header"]
               /\ Len(frames[c]) + 1 < Expected(c)
               /\ readers' = Append(Tail(readers), c)
               /\ inbox' \o net' = FrameOf(c)
<1> USE DEF StreamInv
<1>1. /\ wire = <<>> /\ Head(inbox) = BodyOf(c) /\ header[c] = HeaderOf(c)
      /\ Tail(inbox) \o net = Later(c)
  BY BodyIsNext DEF TakeBody
<1>2. /\ wire' = <<>> /\ inbox' = Tail(inbox) /\ net' = net
      /\ frames' = [frames EXCEPT ![c] =
            Append(@, [header |-> HeaderOf(c), body |-> BodyOf(c)])]
  BY <1>1 DEF TakeBody
<1>3. [header |-> HeaderOf(c), body |-> BodyOf(c)] \in Frame
  BY PieceTypes DEF Frame
<1>4. /\ frames[c] \in Seq(Frame) /\ frames \in [Calls -> Seq(Frame)]
  BY DEF CallTypeOK
<1>5. /\ frames'[c] = Append(frames[c], [header |-> HeaderOf(c), body |-> BodyOf(c)])
  BY <1>2, <1>4
<1>6. frames'[c] # <<>> /\ Len(frames'[c]) = Len(frames[c]) + 1
  BY <1>3, <1>4, <1>5, AppendProperties
<1>7. Len(frames[c]) \in Nat /\ (frames[c] = <<>> <=> Len(frames[c]) = 0)
  BY <1>4, EmptySeq, LenProperties
<1>8. Usable
  BY DEF TakeBody, DeadSocketQuiet, Quiet
<1>9. CASE Len(frames[c]) + 1 = Expected(c)
  <2>1. pc' = [pc EXCEPT ![c] = "done"]
    BY <1>7, <1>9 DEF TakeBody, Expected
  <2>2. Later(c) = <<>>
    BY <1>7, <1>9 DEF Later, Expected
  <2>3. Tail(inbox) \in Seq(Chunk) /\ net \in Seq(Chunk)
    BY TailSeq DEF TakeBody, CallTypeOK
  <2>4. Tail(inbox) = <<>> /\ net = <<>>
    BY <1>1, <2>2, <2>3, ConcatSimplifications
  <2> QED BY <1>1, <1>2, <1>6, <1>7, <1>9, <2>1, <2>4 DEF Quiet, OwnFrame
<1>10. CASE Len(frames[c]) + 1 < Expected(c)
  <2>1. pc' = [pc EXCEPT ![c] = "header"] /\ readers' = Append(Tail(readers), c)
    BY <1>7, <1>8, <1>10 DEF TakeBody, Expected
  <2>2. Later(c) = FrameOf(c)
    BY <1>7, <1>10 DEF Later, Expected
  <2> QED BY <1>1, <1>2, <1>6, <1>7, <1>10, <2>1, <2>2 DEF OwnFrame
<1> QED BY <1>9, <1>10 DEF TakeBody

(* A step in which the only call that can talk is rejected or done, and     *)
(* nothing is left on the stream.                                           *)
LEMMA AllQuiet ==
  ASSUME \A d \in Calls : ~Talking(d)', Quiet'
  PROVE  StreamMatches'
  BY DEF StreamMatches, Talking

(* A step after which c alone talks.                                        *)
LEMMA OnlyTalker ==
  ASSUME Alone', NEW c \in Calls, Talking(c)',
         Unanswered(c)' \/ Answered(c)',
         pc'[c] = "body" => header'[c] = HeaderOf(c)
  PROVE  StreamMatches'
<1>1. \A d \in Calls : Talking(d)' => d = c
  BY DEF Alone
<1>2. \A d \in Calls : Talking(d)' => Unanswered(d)' \/ Answered(d)'
  BY <1>1
<1>3. \A d \in Calls : pc'[d] = "body" => header'[d] = HeaderOf(d)
  BY <1>1 DEF Talking
<1> QED BY <1>2, <1>3 DEF StreamMatches

(* The stream, who talks and what they have read are as before.             *)
LEMMA StreamUnchanged ==
  ASSUME StreamMatches, UNCHANGED streamVars,
         \A d \in Calls : Talking(d)' \/ Talking(d) =>
             pc'[d] = pc[d] /\ header'[d] = header[d] /\ frames'[d] = frames[d]
  PROVE  StreamMatches'
<1>1. \A d \in Calls : Talking(d)' <=> Talking(d)
  BY DEF Talking
<1>2. Quiet' <=> Quiet
  BY DEF Quiet, streamVars
<1>3. \A d \in Calls : Talking(d)' => (Unanswered(d)' <=> Unanswered(d))
  BY DEF Unanswered, streamVars
<1>4. \A d \in Calls : Talking(d)' => (Answered(d)' <=> Answered(d))
  BY DEF Answered, Rest, Later, streamVars
<1>5. \A d \in Calls : pc'[d] = "body" => pc[d] = "body" /\ header'[d] = header[d]
  BY DEF Talking
<1> QED BY <1>1, <1>2, <1>3, <1>4, <1>5 DEF StreamMatches

LEMMA QuietIsAnswered ==
  ASSUME Quiet', NEW c
  PROVE  Answered(c)'
<1>1. <<>> \o <<>> = <<>>
  OBVIOUS
<1> QED BY <1>1 DEF Quiet, Answered

(* An event of the socket that empties the stream and rejects some calls.   *)
LEMMA StreamEmptied ==
  ASSUME StreamMatches, Quiet', UNCHANGED header,
         \A d \in Calls : Talking(d)' => pc'[d] = pc[d]
  PROVE  StreamMatches'
<1>1. \A d \in Calls : Answered(d)'
  BY QuietIsAnswered
<1>2. \A d \in Calls : pc'[d] = "body" => header'[d] = HeaderOf(d)
  BY DEF StreamMatches, Talking
<1> QED BY <1>1, <1>2 DEF StreamMatches

LEMMA StreamMatchesStep ==
  ASSUME LockInv, StreamInv, Alone, Alone', [Next]_vars
  PROVE  StreamMatches'
<1> USE DEF StreamInv, LockInv
<1>1. CASE UNCHANGED <<callVars, streamVars>>
  BY <1>1, StreamUnchanged DEF callVars
<1>2. ASSUME NEW c \in Calls, Begin(c) \/ SendRefused(c) PROVE StreamMatches'
  <2>1. \A d \in Calls : Talking(d)' \/ Talking(d) => pc'[d] = pc[d]
    BY <1>2 DEF Begin, SendRefused, CallTypeOK, Talking
  <2> QED BY <1>2, <2>1, StreamUnchanged DEF Begin, SendRefused
<1>3. ASSUME NEW c \in Calls, Send(c) PROVE StreamMatches'
  <2>1. pc' = [pc EXCEPT ![c] = "writing"] /\ pc[c] = "queued" /\ Talking(c)'
    BY <1>3 DEF Send, Talking, CallTypeOK
  <2>2. \A d \in Calls : ~Talking(d)
    BY <2>1 DEF Alone, Talking, CallTypeOK
  <2>3. Quiet
    BY <2>2 DEF StreamMatches
  <2>4. net' = <<>> /\ inbox' = <<>> /\ (wire' = <<c>> \/ wire' = <<>>)
        /\ frames' = frames
    BY <1>3, <2>3, SingletonSeq DEF Send, Quiet
  <2>5. Unanswered(c)' \/ Answered(c)'
    <3>1. frames[c] = <<>>
      BY <2>1 DEF FramesMatch
    <3>2. CASE wire' = <<c>>
      BY <2>1, <2>4, <3>1, <3>2 DEF Unanswered, CallTypeOK
    <3>3. CASE wire' = <<>>
      BY <2>4, <3>3, QuietIsAnswered DEF Quiet
    <3> QED BY <2>4, <3>2, <3>3
  <2>6. pc'[c] = "writing"
    BY <2>1 DEF CallTypeOK
  <2> QED BY <2>1, <2>5, <2>6, OnlyTalker
<1>4. ASSUME NEW c \in Calls, SendAfterEnd(c) PROVE StreamMatches'
  <2>1. Quiet'
    BY <1>4 DEF SendAfterEnd, DeadSocketQuiet, Quiet, streamVars
  <2>2. \A d \in Calls : Talking(d)' => pc'[d] = pc[d]
    BY <1>4 DEF SendAfterEnd, Reject, Talking
  <2> QED BY <1>4, <2>1, <2>2, StreamEmptied DEF SendAfterEnd
<1>5. ASSUME NEW c \in Calls, WriteDone(c) PROVE StreamMatches'
  <2>1. pc[c] = "writing" /\ pc' = [pc EXCEPT ![c] = "header"] /\ Talking(c)
        /\ UNCHANGED <<wire, net, inbox, header, frames>>
    BY <1>5 DEF WriteDone, Talking, streamVars
  <2>2. pc'[c] = "header" /\ Talking(c)'
    BY <2>1 DEF CallTypeOK, Talking
  <2>3. Unanswered(c) => Unanswered(c)'
    BY <2>1, <2>2 DEF Unanswered
  <2>4. Answered(c) => Answered(c)'
    BY <2>1, <2>2 DEF Answered, Rest, Later
  <2> QED BY <2>1, <2>2, <2>3, <2>4, OnlyTalker DEF StreamMatches
<1>6. ASSUME NEW c \in Calls, WriteFails(c) PROVE StreamMatches'
  <2>1. Quiet'
    BY <1>6 DEF WriteFails, DeadSocketQuiet, Quiet, streamVars
  <2>2. \A d \in Calls : Talking(d)' => pc'[d] = pc[d]
    BY <1>6 DEF WriteFails, Talking, CallTypeOK
  <2> QED BY <1>6, <2>1, <2>2, StreamEmptied DEF WriteFails
<1>7. ASSUME NEW c \in Calls, TakeHeader(c) PROVE StreamMatches'
  <2>1. /\ wire = <<>> /\ Head(inbox) = HeaderOf(c)
        /\ Tail(inbox) \o net = <<BodyOf(c)>> \o Later(c)
    BY <1>7, HeaderIsNext DEF TakeHeader
  <2>2. Head(inbox).part = "header"
    BY <2>1 DEF HeaderOf
  <2>3. /\ pc' = [pc EXCEPT ![c] = "body"]
        /\ header' = [header EXCEPT ![c] = HeaderOf(c)]
        /\ inbox' = Tail(inbox) /\ wire' = <<>> /\ net' = net /\ frames' = frames
    BY <1>7, <2>1, <2>2 DEF TakeHeader
  <2>4. pc'[c] = "body" /\ header'[c] = HeaderOf(c) /\ Talking(c)'
    BY <2>3 DEF CallTypeOK, Talking
  <2>5. Answered(c)'
    BY <2>1, <2>3, <2>4 DEF Answered, Rest, Later
  <2> QED BY <2>4, <2>5, OnlyTalker
<1>8. ASSUME NEW c \in Calls, TakeBody(c) PROVE StreamMatches'
  <2>1. /\ wire' = <<>> /\ frames'[c] # <<>> /\ pc[c] = "body"
        /\ \/ pc' = [pc EXCEPT ![c] = "done"] /\ Quiet'
           \/ pc' = [pc EXCEPT ![c] = "header"] /\ inbox' \o net' = FrameOf(c)
    BY <1>8, FrameComplete DEF TakeBody
  <2>2. CASE pc' = [pc EXCEPT ![c] = "done"] /\ Quiet'
    <3>1. \A d \in Calls : ~Talking(d)'
      BY <2>1, <2>2 DEF Alone, Talking, CallTypeOK
    <3> QED BY <2>2, <3>1, AllQuiet
  <2>3. CASE pc' = [pc EXCEPT ![c] = "header"] /\ inbox' \o net' = FrameOf(c)
    <3>1. pc'[c] = "header" /\ Talking(c)'
      BY <2>3 DEF CallTypeOK, Talking
    <3>2. Rest(c)' = FrameOf(c) \o <<>>
      BY <2>1, <3>1 DEF Rest, Later
    <3>3. FrameOf(c) \o <<>> = FrameOf(c)
      BY PieceTypes, ConcatEmptySeq
    <3>4. Answered(c)'
      BY <2>1, <2>3, <3>2, <3>3 DEF Answered
    <3> QED BY <3>1, <3>4, OnlyTalker
  <2> QED BY <2>1, <2>2, <2>3
<1>9. CASE Answer
  <2>1. UNCHANGED <<inbox, pc, header, frames>> /\ wire # <<>> /\ wire' = Tail(wire)
    BY <1>9 DEF Answer, callVars
  <2>2. PICK d \in Calls : Talking(d)
    BY <2>1 DEF StreamMatches, Quiet
  <2>3. Unanswered(d)
    BY <2>1, <2>2 DEF StreamMatches, Answered
  <2>4. wire' = <<>> /\ Head(wire) = d /\ net = <<>> /\ inbox' = <<>>
    BY <2>1, <2>3, SingletonSeq DEF Unanswered
  <2>5. net' = FrameOf(d) \o Later(d)
    <3>1. net' = <<>> \o (IF d \in RawCalls THEN FrameOf(d) \o FrameOf(d) ELSE FrameOf(d))
      BY <1>9, <2>4 DEF Answer, FrameOf
    <3>2. /\ FrameOf(d) \in Seq(Chunk)
          /\ FrameOf(d) \o <<>> = FrameOf(d) /\ <<>> \o FrameOf(d) = FrameOf(d)
      BY PieceTypes, ConcatEmptySeq
    <3>3. FrameOf(d) \o FrameOf(d) \in Seq(Chunk)
      BY <3>2, ConcatProperties
    <3>4. <<>> \o (FrameOf(d) \o FrameOf(d)) = FrameOf(d) \o FrameOf(d)
      BY <3>3, ConcatEmptySeq
    <3> QED BY <2>3, <3>1, <3>2, <3>4 DEF Later, Unanswered
  <2>6. net' = Rest(d)' /\ net' \in Seq(Chunk)
    <3>1. Rest(d)' = FrameOf(d) \o Later(d)
      BY <2>1, <2>3 DEF Rest, Later, Unanswered
    <3>2. FrameOf(d) \o Later(d) \in Seq(Chunk)
      BY PieceTypes, ConcatProperties
    <3> QED BY <2>5, <3>1, <3>2
  <2>7. inbox' \o net' = net'
    BY <2>4, <2>6, ConcatEmptySeq
  <2>8. Answered(d)'
    BY <2>4, <2>6, <2>7 DEF Answered
  <2>9. Talking(d)' /\ pc'[d] # "body"
    BY <2>1, <2>2, <2>3 DEF Talking, Unanswered
  <2> QED BY <2>8, <2>9, OnlyTalker
<1>10. CASE Deliver
  <2>1. /\ UNCHANGED <<wire, pc, header, frames>> /\ net # <<>>
        /\ inbox' = Append(inbox, Head(net)) /\ net' = Tail(net)
    BY <1>10 DEF Deliver, callVars
  <2>2. PICK d \in Calls : Talking(d)
    BY <2>1 DEF StreamMatches, Quiet
  <2>3. Answered(d)
    BY <2>1, <2>2 DEF StreamMatches, Unanswered
  <2>4. inbox' \o net' = inbox \o net
    BY <2>1, MoveTheCut DEF CallTypeOK
  <2>5. Answered(d)'
    BY <2>1, <2>3, <2>4 DEF Answered, Rest, Later
  <2>6. Talking(d)' /\ (pc'[d] = "body" => header'[d] = HeaderOf(d))
    BY <2>1, <2>2 DEF Talking, StreamMatches
  <2> QED BY <2>5, <2>6, OnlyTalker
<1>11. CASE PeerFin
  <2>1. UNCHANGED <<pc, header, frames, net, inbox>> /\ wire' = <<>>
    BY <1>11 DEF PeerFin, callVars
  <2>2. \A d \in Calls : Unanswered(d) => Answered(d)'
    BY <2>1, QuietIsAnswered DEF Unanswered, Quiet
  <2>3. \A d \in Calls : Answered(d) => Answered(d)'
    BY <2>1 DEF Answered, Rest, Later
  <2>4. Quiet => Quiet'
    BY <2>1 DEF Quiet
  <2> QED BY <2>1, <2>2, <2>3, <2>4 DEF StreamMatches, Talking
<1>12. CASE LocalClose
  BY <1>12, StreamEmptied DEF LocalClose, Quiet, callVars
<1>13. ASSUME Reject(ToSet(readers)), header' = header, Quiet' PROVE StreamMatches'
  <2>1. \A d \in Calls : Talking(d)' => pc'[d] = pc[d]
    BY <1>13 DEF Reject, Talking
  <2> QED BY <1>13, <2>1, StreamEmptied
<1>14. CASE EndEvent
  BY <1>13, <1>14 DEF EndEvent, Quiet, DeadSocketQuiet, streamVars
<1>15. CASE ErrorEvent
  BY <1>13, <1>15 DEF ErrorEvent, Quiet
<1>16. CASE Connect \/ Established \/ Unreachable \/ DialError \/ GiveUp
           \/ CloseEvent \/ UNCHANGED vars
  BY <1>1, <1>16 DEF Connect, Established, Unreachable, DialError, GiveUp,
                     CloseEvent, vars,
                     streamVars, callVars
<1> QED
  BY <1>2, <1>3, <1>4, <1>5, <1>6, <1>7, <1>8, <1>9, <1>10, <1>11, <1>12,
     <1>14, <1>15, <1>16 DEF Next, CallStep

LEMMA ReadersAreTalking ==
  ASSUME ReadersTalk
  PROVE  \A d \in ToSet(readers) : pc[d] \in {"header", "body"}
<1>1. CASE readers = <<>>
  BY <1>1 DEF ToSet
<1>2. ASSUME NEW c \in Calls, readers = <<c>>, pc[c] \in {"header", "body"}
      PROVE  \A d \in ToSet(readers) : pc[d] \in {"header", "body"}
  <2>1. ToSet(<<c>>) = {c}
    BY DEF ToSet
  <2> QED BY <1>2, <2>1
<1> QED BY <1>1, <1>2 DEF ReadersTalk

(* What FramesMatch says of one call, by the frames and the state it has.   *)
FramesFit(c, fs, q) ==
  /\ \A i \in 1..Len(fs) : OwnFrame(c, fs[i])
  /\ q \in {"idle", "queued", "writing"} => fs = <<>>
  /\ q \in {"header", "body"} => Len(fs) < Expected(c)
  /\ q = "done" => Len(fs) = Expected(c)

LEMMA FramesFitAll ==
  /\ FramesMatch <=> \A c \in Calls : FramesFit(c, frames[c], pc[c])
  /\ FramesMatch' <=> \A c \in Calls : FramesFit(c, frames'[c], pc'[c])
  BY DEF FramesMatch, FramesFit, OwnFrame, HeaderOf, BodyOf, Expected

LEMMA FramesMatchStep ==
  ASSUME LockInv, StreamInv, [Next]_vars
  PROVE  FramesMatch'
<1> USE DEF LockInv, StreamInv
<1>1. \A d \in Calls : FramesFit(d, frames[d], pc[d])
  BY FramesFitAll
<1>2. ASSUME UNCHANGED frames,
             \A d \in Calls : pc'[d] = pc[d] \/ pc'[d] = "failed"
      PROVE  FramesMatch'
  <2>1. \A d \in Calls : FramesFit(d, frames'[d], pc'[d])
    BY <1>1, <1>2 DEF FramesFit
  <2> QED BY <2>1, FramesFitAll
<1>3. ASSUME NEW c \in Calls, UNCHANGED frames, NEW q, FramesFit(c, frames[c], q),
             pc' = [pc EXCEPT ![c] = q]
      PROVE  FramesMatch'
  <2>1. pc'[c] = q /\ \A d \in Calls : d # c => pc'[d] = pc[d]
    BY <1>3 DEF CallTypeOK
  <2>2. \A d \in Calls : FramesFit(d, frames'[d], pc'[d])
    BY <1>1, <1>3, <2>1
  <2> QED BY <2>2, FramesFitAll
<1>4. ASSUME NEW c \in Calls, CallStep(c), ~TakeBody(c) PROVE FramesMatch'
  <2>1. CASE SendAfterEnd(c)
    BY <1>2, <2>1 DEF SendAfterEnd, Reject
  <2>2. CASE SendRefused(c) \/ WriteFails(c)
    BY <1>2, <2>2 DEF SendRefused, WriteFails, CallTypeOK
  <2>3. CASE Begin(c) \/ Send(c)
    <3>1. FramesFit(c, frames[c], "queued") /\ FramesFit(c, frames[c], "writing")
      BY <1>1, <2>3 DEF Begin, Send, FramesFit
    <3> QED BY <1>3, <2>3, <3>1 DEF Begin, Send
  <2>4. CASE WriteDone(c)
    <3>1. frames[c] = <<>>
      BY <2>4 DEF WriteDone, FramesMatch
    <3>2. FramesFit(c, frames[c], "header")
      BY <1>1, <3>1, EmptySeq DEF FramesFit, Expected
    <3> QED BY <1>3, <2>4, <3>2 DEF WriteDone
  <2>5. CASE TakeHeader(c)
    <3>1. UNCHANGED frames /\ pc[c] = "header"
          /\ (pc' = [pc EXCEPT ![c] = "body"] \/ pc' = [pc EXCEPT ![c] = "failed"])
      BY <2>5 DEF TakeHeader
    <3>2. FramesFit(c, frames[c], "body") /\ FramesFit(c, frames[c], "failed")
      BY <1>1, <3>1 DEF FramesFit
    <3> QED BY <1>3, <3>1, <3>2
  <2> QED BY <1>4, <2>1, <2>2, <2>3, <2>4, <2>5 DEF CallStep
<1>5. ASSUME NEW c \in Calls, TakeBody(c) PROVE FramesMatch'
  <2> DEFINE f == [header |-> HeaderOf(c), body |-> BodyOf(c)]
  <2>1. /\ frames' = [frames EXCEPT ![c] = Append(@, f)]
        /\ Len(frames'[c]) = Len(frames[c]) + 1
        /\ Len(frames[c]) \in Nat
        /\ \/ /\ pc' = [pc EXCEPT ![c] = "done"]
              /\ Len(frames[c]) + 1 = Expected(c)
           \/ /\ pc' = [pc EXCEPT ![c] = "header"]
              /\ Len(frames[c]) + 1 < Expected(c)
    BY <1>5, FrameComplete
  <2>2. /\ \A d \in Calls : d # c => pc'[d] = pc[d] /\ frames'[d] = frames[d]
        /\ frames'[c] = Append(frames[c], f)
        /\ \/ pc'[c] = "done" /\ Len(frames'[c]) = Expected(c)
           \/ pc'[c] = "header" /\ Len(frames'[c]) < Expected(c)
    BY <2>1 DEF CallTypeOK
  <2>3. f \in Frame /\ frames[c] \in Seq(Frame)
    BY PieceTypes DEF Frame, CallTypeOK
  <2>4. /\ \A i \in 1..Len(frames[c]) : frames'[c][i] = frames[c][i]
        /\ frames'[c][Len(frames[c]) + 1] = f
    BY <2>2, <2>3, AppendProperties
  <2>5. \A i \in 1..Len(frames'[c]) : OwnFrame(c, frames'[c][i])
    <3> SUFFICES ASSUME NEW i \in 1..Len(frames'[c])
                 PROVE  OwnFrame(c, frames'[c][i])
      OBVIOUS
    <3>1. i \in 1..Len(frames[c]) \/ i = Len(frames[c]) + 1
      BY <2>1
    <3> QED BY <1>1, <2>4, <3>1 DEF FramesFit, OwnFrame
  <2>6. \A d \in Calls : FramesFit(d, frames'[d], pc'[d])
    BY <1>1, <2>2, <2>5 DEF FramesFit
  <2> QED BY <2>6, FramesFitAll
<1>6. CASE EndEvent \/ ErrorEvent
  BY <1>2, <1>6 DEF EndEvent, ErrorEvent, Reject
<1>7. CASE ~(\E c \in Calls : CallStep(c)) /\ ~EndEvent /\ ~ErrorEvent
  <2>1. UNCHANGED callVars
    BY <1>7, Zenon DEF Next, Connect, Established, Unreachable, DialError,
              GiveUp, Answer, Deliver,
              PeerFin, CloseEvent, LocalClose, vars, callVars
  <2> QED BY <1>2, <2>1 DEF callVars
<1> QED BY <1>4, <1>5, <1>6, <1>7

LEMMA ReadersTalkStep ==
  ASSUME LockInv, StreamInv, Alone, [Next]_vars
  PROVE  ReadersTalk'
<1> USE DEF LockInv, StreamInv
<1>1. ASSUME UNCHANGED readers,
             \A d \in Calls : pc[d] \in {"header", "body"} => pc'[d] = pc[d]
      PROVE  ReadersTalk'
  BY <1>1 DEF ReadersTalk
<1>2. ASSUME NEW c \in Calls, Begin(c) \/ Send(c) \/ SendRefused(c) \/ WriteFails(c)
      PROVE  ReadersTalk'
  <2>1. UNCHANGED readers /\ pc[c] \notin {"header", "body"}
    BY <1>2 DEF Begin, Send, SendRefused, WriteFails
  <2>2. \E q : pc' = [pc EXCEPT ![c] = q]
    BY <1>2 DEF Begin, Send, SendRefused, WriteFails
  <2> QED BY <1>1, <2>1, <2>2 DEF CallTypeOK
<1>3. ASSUME NEW c \in Calls, SendAfterEnd(c) PROVE ReadersTalk'
  BY <1>3 DEF SendAfterEnd, Reject, ReadersTalk
<1>4. ASSUME NEW c \in Calls, WriteDone(c) PROVE ReadersTalk'
  <2>1. readers = <<>>
    BY <1>4 DEF WriteDone, ReadersTalk, Talking, Alone
  <2>2. readers' = <<c>> /\ pc'[c] = "header"
    BY <1>4, <2>1, SingletonSeq DEF WriteDone, CallTypeOK
  <2> QED BY <2>2 DEF ReadersTalk
<1>5. ASSUME NEW c \in Calls, TakeHeader(c) \/ TakeBody(c) PROVE ReadersTalk'
  <2>1. readers = <<c>> /\ Tail(readers) = <<>> /\ Append(Tail(readers), c) = <<c>>
    BY <1>5, SingletonSeq DEF TakeHeader, TakeBody, ReadersTalk
  <2>2. \/ readers' = <<>>
        \/ /\ readers' = <<c>>
           /\ \E q \in {"header", "body"} : pc' = [pc EXCEPT ![c] = q]
    <3>1. CASE TakeHeader(c)
      BY <2>1, <3>1 DEF TakeHeader
    <3>2. CASE TakeBody(c)
      BY <2>1, <3>2, Zenon DEF TakeBody
    <3> QED BY <1>5, <3>1, <3>2
  <2> QED BY <2>2 DEF ReadersTalk, CallTypeOK
<1>6. CASE EndEvent \/ ErrorEvent
  BY <1>6 DEF EndEvent, ErrorEvent, Reject, ReadersTalk
<1>7. CASE ~(\E c \in Calls : CallStep(c)) /\ ~EndEvent /\ ~ErrorEvent
  <2>1. UNCHANGED callVars
    BY <1>7, Zenon DEF Next, Connect, Established, Unreachable, DialError,
              GiveUp, Answer, Deliver,
              PeerFin, CloseEvent, LocalClose, vars, callVars
  <2> QED BY <1>1, <2>1 DEF callVars
<1> QED BY <1>2, <1>3, <1>4, <1>5, <1>6, <1>7 DEF CallStep

LEMMA DeadSocketQuietStep ==
  ASSUME LockInv, DeadSocketQuiet, DialInv, [Next]_vars
  PROVE  DeadSocketQuiet'
<1> USE DEF LockInv, DeadSocketQuiet, Usable
<1>1. CASE UNCHANGED <<os, socket, connected, streamVars>>
  BY <1>1 DEF Quiet, streamVars
<1>2. ASSUME UNCHANGED <<os, socket, connected>>, os \in {"open", "fin"},
             os = "fin" => wire' = <<>>
      PROVE  DeadSocketQuiet'
  BY <1>2
<1>3. ASSUME NEW c \in Calls, CallStep(c) PROVE DeadSocketQuiet'
  <2>1. CASE Begin(c) \/ SendRefused(c) \/ WriteDone(c) \/ WriteFails(c)
    BY <1>1, <2>1 DEF Begin, SendRefused, WriteDone, WriteFails, connVars
  <2>2. CASE Send(c)
    <3>1. os \in {"open", "fin"}
      BY <2>2 DEF Send
    <3> QED BY <1>2, <2>2, <3>1 DEF Send, connVars
  <2>3. CASE TakeHeader(c) \/ TakeBody(c)
    <3>1. os \in {"open", "fin"}
      BY <2>3 DEF TakeHeader, TakeBody, Quiet
    <3> QED BY <1>2, <2>3, <3>1 DEF TakeHeader, TakeBody, connVars
  <2>4. CASE SendAfterEnd(c)
    <3>1. Quiet' /\ connected' = FALSE /\ os' = "down"
      BY <2>4 DEF SendAfterEnd, Quiet, streamVars
    <3> QED BY <3>1
  <2> QED BY <1>3, <2>1, <2>2, <2>3, <2>4 DEF CallStep
<1>4. CASE Answer \/ Deliver
  <2>1. os \in {"open", "fin"} /\ (os = "fin" => wire' = <<>>)
    BY <1>4 DEF Answer, Deliver
  <2> QED BY <1>2, <1>4, <2>1 DEF Answer, Deliver, connVars
<1>5. ASSUME connected' = FALSE \/ os' = "ended", os' \in {"ended", "down"}, Quiet'
      PROVE  DeadSocketQuiet'
  BY <1>5 DEF Quiet
<1>6. CASE Connect \/ Unreachable \/ DialError \/ GiveUp
  <2>1. /\ dial \in {"idle", "pending"} /\ UNCHANGED <<connected, streamVars>>
        /\ os' \in {"none", "opening", "down"} /\ os \notin {"open", "fin"}
    BY <1>6 DEF Connect, Unreachable, DialError, GiveUp, DialInv
  <2>2. Quiet /\ ~connected
    BY <2>1 DEF DialInv, ConnTypeOK
  <2> QED BY <2>1, <2>2 DEF Quiet, streamVars
<1>7. CASE Established
  BY <1>7 DEF Established, DialInv
<1>8. CASE PeerFin
  BY <1>8 DEF PeerFin
<1>9. CASE EndEvent
  BY <1>5, <1>9 DEF EndEvent, Quiet, streamVars
<1>10. CASE CloseEvent
  BY <1>5, <1>10 DEF CloseEvent, Quiet, streamVars
<1>11. CASE ErrorEvent \/ LocalClose
  BY <1>5, <1>11 DEF ErrorEvent, LocalClose, Quiet
<1>12. CASE UNCHANGED vars
  BY <1>1, <1>12 DEF vars, streamVars
<1> QED
  BY <1>3, <1>4, <1>6, <1>7, <1>8, <1>9, <1>10, <1>11, <1>12 DEF Next

LEMMA DialInvStep == DialInv /\ [Next]_vars => DialInv'
<1> SUFFICES ASSUME DialInv, [Next]_vars PROVE DialInv'
  OBVIOUS
<1> USE DEF DialInv
<1>1. CASE UNCHANGED connVars
  BY <1>1, Zenon DEF connVars
<1>2. CASE Connect
  BY <1>2 DEF Connect
<1>3. CASE Established \/ Unreachable \/ DialError \/ GiveUp
  BY <1>3 DEF Established, Unreachable, DialError, GiveUp
<1>4. CASE PeerFin \/ EndEvent \/ CloseEvent \/ ErrorEvent
  BY <1>4 DEF PeerFin, EndEvent, CloseEvent, ErrorEvent
<1>5. CASE LocalClose
  BY <1>5 DEF LocalClose
<1>6. ASSUME NEW c \in Calls, SendAfterEnd(c) PROVE DialInv'
  BY <1>6 DEF SendAfterEnd, Usable
<1>7. ASSUME NEW c \in Calls, CallStep(c) PROVE SendAfterEnd(c) \/ UNCHANGED connVars
  BY <1>7, Zenon DEF CallStep, Begin, Send, SendRefused, WriteDone, WriteFails,
                     TakeHeader, TakeBody
<1>8. Answer \/ Deliver \/ UNCHANGED vars => UNCHANGED connVars
  BY DEF Answer, Deliver, vars, connVars
<1> QED
  BY <1>1, <1>2, <1>3, <1>4, <1>5, <1>6, <1>7, <1>8 DEF Next

LEMMA SocketHeldStep == NoSocketForgotten /\ [Next]_vars => NoSocketForgotten'
<1> SUFFICES ASSUME NoSocketForgotten, [Next]_vars PROVE NoSocketForgotten'
  OBVIOUS
<1> USE DEF NoSocketForgotten
<1>1. CASE UNCHANGED connVars
  BY <1>1, Zenon DEF connVars
<1>2. CASE Connect
  BY <1>2 DEF Connect
<1>3. CASE Established \/ Unreachable \/ DialError \/ GiveUp
  BY <1>3 DEF Established, Unreachable, DialError, GiveUp
<1>4. CASE PeerFin \/ EndEvent \/ CloseEvent \/ ErrorEvent
  BY <1>4 DEF PeerFin, EndEvent, CloseEvent, ErrorEvent
<1>5. CASE LocalClose
  BY <1>5 DEF LocalClose
<1>6. ASSUME NEW c \in Calls, SendAfterEnd(c) PROVE NoSocketForgotten'
  BY <1>6 DEF SendAfterEnd
<1>7. ASSUME NEW c \in Calls, CallStep(c) PROVE SendAfterEnd(c) \/ UNCHANGED connVars
  BY <1>7, Zenon DEF CallStep, Begin, Send, SendRefused, WriteDone, WriteFails,
                     TakeHeader, TakeBody
<1>8. Answer \/ Deliver \/ UNCHANGED vars => UNCHANGED connVars
  BY DEF Answer, Deliver, vars, connVars
<1> QED
  BY <1>1, <1>2, <1>3, <1>4, <1>5, <1>6, <1>7, <1>8 DEF Next

(* Connection.js, #createSocket() and close(): a socket that is opening or  *)
(* open is one that a pending dial or #socket still holds, in whatever      *)
(* order 'connect', 'error', the timer, the signal and close() come.        *)
THEOREM SocketsHeld == Spec => []NoSocketForgotten
<1>1. Init => NoSocketForgotten
  BY DEF Init, NoSocketForgotten
<1> QED BY <1>1, SocketHeldStep, PTL DEF Spec

LEMMA InitStreamInv == Init => StreamInv /\ Alone
<1> SUFFICES ASSUME Init PROVE StreamInv /\ Alone
  OBVIOUS
<1>1. StreamMatches
  BY DEF Init, StreamMatches, Quiet, Talking
<1>2. FramesMatch
  BY EmptySeq DEF Init, FramesMatch
<1>3. ReadersTalk /\ DeadSocketQuiet /\ DialInv /\ Alone
  BY DEF Init, ReadersTalk, DeadSocketQuiet, DialInv, Quiet, Alone, Talking
<1> QED BY <1>1, <1>2, <1>3 DEF StreamInv

(* The stream is kept by every step before and after which at most one call *)
(* talks.                                                                   *)
LEMMA NextStreamInv ==
  ASSUME LockInv, StreamInv, Alone, Alone', [Next]_vars
  PROVE  StreamInv'
BY StreamMatchesStep, FramesMatchStep, ReadersTalkStep, DeadSocketQuietStep,
   DialInvStep DEF StreamInv

(* What the invariant says of a call that returned.                         *)
LEMMA RepliesAreOwn == StreamInv => RepliesMatch /\ NothingLeftBehind
BY DEF StreamInv, FramesMatch, RepliesMatch, StreamMatches, Quiet, NothingLeftBehind

-----------------------------------------------------------------------------
(* Raw calls among the others: the history of overlaps.                     *)

OverlapInv ==
  /\ LockInv /\ DeadSocketQuiet /\ DialInv
  /\ ~overlap => StreamInv /\ Alone

(* Connection.js, #lock: replies carry no correlation, so calls must not    *)
(* overlap.  That is all that is needed: whatever calls share the socket,   *)
(* locked or raw, as long as no two of them happened to talk at the same    *)
(* time each returns its own replies and leaves nothing behind.             *)
THEOREM NoDesyncWithoutOverlap == OverlapSpec => []DesyncNeedsOverlap
<1>1. OverlapInit => OverlapInv
  BY InitLockInv, InitStreamInv DEF OverlapInit, OverlapInv, StreamInv
<1>2. OverlapInv /\ [OverlapNext]_<<vars, overlap>> => OverlapInv'
  <2> SUFFICES ASSUME OverlapInv, [OverlapNext]_<<vars, overlap>> PROVE OverlapInv'
    OBVIOUS
  <2>1. [Next]_vars
    BY DEF OverlapNext
  <2>2. LockInv' /\ DeadSocketQuiet' /\ DialInv'
    BY <2>1, NextLockInv, DeadSocketQuietStep, DialInvStep DEF OverlapInv
  <2>3. ASSUME ~overlap' PROVE StreamInv' /\ Alone'
    <3>1. CASE OverlapNext
      <4>1. ~overlap /\ Alone'
        BY <2>3, <3>1 DEF OverlapNext, Alone
      <4> QED BY <2>1, <4>1, NextStreamInv DEF OverlapInv
    <3>2. CASE UNCHANGED <<vars, overlap>>
      <4>1. ~overlap /\ StreamInv /\ Alone
        BY <2>3, <3>2 DEF OverlapInv
      <4>2. Alone'
        BY <3>2, <4>1 DEF vars, Alone, Talking
      <4> QED BY <2>1, <4>1, <4>2, NextStreamInv DEF OverlapInv
    <3> QED BY <3>1, <3>2
  <2> QED BY <2>2, <2>3 DEF OverlapInv
<1>3. OverlapInv => DesyncNeedsOverlap
  BY RepliesAreOwn DEF OverlapInv, DesyncNeedsOverlap
<1> QED BY <1>1, <1>2, <1>3, PTL DEF OverlapSpec

-----------------------------------------------------------------------------
(* Locked calls only.                                                       *)

LEMMA LockedAlone == ASSUME RawCalls = {} PROVE LockInv => Alone
BY DEF LockInv, HeadTalks, Alone, Calls

LEMMA LockedStreamInv ==
  ASSUME RawCalls = {}
  PROVE  LockInv /\ StreamInv /\ [Next]_vars => StreamInv'
<1>1. LockInv => Alone
  BY LockedAlone
<1>2. LockInv' => Alone'
  BY DEF LockInv, HeadTalks, Alone, Calls
<1> QED BY <1>1, <1>2, NextLockInv, NextStreamInv

(* Connection.js, #lock: when every caller goes through the lock, a call    *)
(* returns the reply to its own request, however earlier calls ended and    *)
(* whatever happened to the socket.                                         *)
THEOREM NoReplyDesync ==
  ASSUME RawCalls = {}
  PROVE  Spec => []RepliesMatch
<1>1. StreamInv => RepliesMatch
  BY RepliesAreOwn
<1>2. LockInv /\ StreamInv /\ [Next]_vars => StreamInv'
  BY LockedStreamInv
<1> QED
  BY <1>1, <1>2, InitLockInv, NextLockInv, InitStreamInv, PTL DEF Spec

(* When the lock is passed on, the stream is empty.                         *)
THEOREM LockPassedOnClean ==
  ASSUME RawCalls = {}
  PROVE  Spec => []NothingLeftBehind
<1>1. StreamInv => NothingLeftBehind
  BY RepliesAreOwn
<1>2. LockInv /\ StreamInv /\ [Next]_vars => StreamInv'
  BY LockedStreamInv
<1> QED
  BY <1>1, <1>2, InitLockInv, NextLockInv, InitStreamInv, PTL DEF Spec

-----------------------------------------------------------------------------
(* The refinement.                                                          *)

Returned(c, q) ==
  CASE q = "idle" -> "idle" [] q = "failed" -> "failed" [] q = "done" -> c
    [] OTHER -> "pending"

LEMMA ResultByState ==
  ASSUME StreamInv, StreamInv', NEW c \in Calls
  PROVE  Result(c) = Returned(c, pc[c]) /\ Result(c)' = Returned(c, pc'[c])
<1>1. /\ pc[c] = "done" => frames[c][1].body.call = c
      /\ pc'[c] = "done" => frames'[c][1].body.call = c
  <2>1. 1 \in 1..Expected(c)
    BY DEF Expected
  <2>2. /\ pc[c] = "done" => OwnFrame(c, frames[c][1])
        /\ pc'[c] = "done" => FramesFit(c, frames'[c], "done")
    BY <2>1, FramesFitAll DEF StreamInv, FramesMatch, FramesFit
  <2>3. pc'[c] = "done" => OwnFrame(c, frames'[c][1])
    BY <2>1, <2>2 DEF FramesFit
  <2> QED BY <2>2, <2>3 DEF OwnFrame, BodyOf
<1>2. Result(c) = Returned(c, pc[c])
  BY <1>1 DEF Result, Returned
<1>3. Result(c)' = Returned(c, pc'[c])
  BY <1>1 DEF Result, Returned
<1> QED BY <1>2, <1>3

(* A step in which one call moves within its service, or is not yet served. *)
LEMMA StutterStep ==
  ASSUME StreamInv, StreamInv', UNCHANGED lock,
         \A d \in LockedCalls : Returned(d, pc'[d]) = Returned(d, pc[d])
  PROVE  UNCHANGED Exchange!vars
<1>1. \A d \in LockedCalls : Result(d)' = Result(d)
  BY ResultByState DEF Calls
<1> QED BY <1>1 DEF Exchange!vars

LEMMA SettleStep ==
  ASSUME RawCalls = {}, CallTypeOK, StreamInv, StreamInv', NEW c \in Calls,
         HasTurn(c), lock' = Release(c),
         NEW q \in {"done", "failed"}, pc' = [pc EXCEPT ![c] = q]
  PROVE  Exchange!Settle(c)
<1> DEFINE result == [d \in LockedCalls |-> Result(d)]
<1> DEFINE r == Returned(c, q)
<1>1. c \in LockedCalls /\ lock # <<>> /\ Head(lock) = c /\ lock' = Tail(lock)
  BY DEF HasTurn, Release, Calls
<1>2. r \in {c, "failed"}
  BY DEF Returned
<1>3. \A d \in LockedCalls : Result(d)' = IF d = c THEN r ELSE Result(d)
  <2> SUFFICES ASSUME NEW d \in LockedCalls
               PROVE  Result(d)' = IF d = c THEN r ELSE Result(d)
    OBVIOUS
  <2>1. Result(d)' = Returned(d, pc'[d]) /\ Result(d) = Returned(d, pc[d])
    BY ResultByState DEF Calls
  <2>2. pc'[d] = IF d = c THEN q ELSE pc[d]
    BY DEF CallTypeOK, Calls
  <2> QED BY <2>1, <2>2
<1>4. [d \in LockedCalls |-> Result(d)'] = [result EXCEPT ![c] = r]
  BY <1>1, <1>3
<1> QED BY <1>1, <1>2, <1>4 DEF Exchange!Settle

LEMMA SubmitStep ==
  ASSUME RawCalls = {}, CallTypeOK, StreamInv, StreamInv', NEW c \in Calls, Begin(c)
  PROVE  Exchange!Submit(c)
<1> DEFINE result == [d \in LockedCalls |-> Result(d)]
<1>1. c \in LockedCalls /\ lock' = Append(lock, c) /\ pc[c] = "idle"
  BY DEF Begin, Calls
<1>2. Result(c) = "idle"
  BY <1>1 DEF Result
<1>3. \A d \in LockedCalls : Result(d)' = IF d = c THEN "pending" ELSE Result(d)
  <2> SUFFICES ASSUME NEW d \in LockedCalls
               PROVE  Result(d)' = IF d = c THEN "pending" ELSE Result(d)
    OBVIOUS
  <2>1. Result(d)' = Returned(d, pc'[d]) /\ Result(d) = Returned(d, pc[d])
    BY ResultByState DEF Calls
  <2>2. pc'[d] = IF d = c THEN "queued" ELSE pc[d]
    BY DEF CallTypeOK, Calls, Begin
  <2>3. Returned(c, "queued") = "pending"
    BY DEF Returned
  <2> QED BY <2>1, <2>2, <2>3
<1>4. [d \in LockedCalls |-> Result(d)'] = [result EXCEPT ![c] = "pending"]
  BY <1>1, <1>3
<1> QED BY <1>1, <1>2, <1>4 DEF Exchange!Submit

(* An event that rejects the waiting reader, if there is one, is that       *)
(* call's failure; the reader holds the lock.                               *)
LEMMA RejectRefines ==
  ASSUME RawCalls = {}, LockInv, StreamInv, StreamInv', NEW S,
         S = {} \/ \E c \in Calls : S = {c} /\ HasTurn(c),
         Reject(S)
  PROVE  [Exchange!Next]_Exchange!vars
<1> USE DEF LockInv
<1>1. CASE S = {}
  <2>1. pc' = pc /\ (lock # <<>> => lock' = lock)
    BY <1>1 DEF Reject, CallTypeOK
  <2>2. lock' = lock
    BY <1>1 DEF Reject
  <2> QED BY <2>1, <2>2, StutterStep
<1>2. ASSUME NEW c \in Calls, S = {c}, HasTurn(c) PROVE Exchange!Next
  <2>1. pc' = [pc EXCEPT ![c] = "failed"]
    BY <1>2 DEF Reject, CallTypeOK
  <2>2. lock' = Release(c) /\ c \in LockedCalls
    BY <1>2 DEF Reject, Release, HasTurn, Calls
  <2>3. Exchange!Settle(c)
    BY <1>2, <2>1, <2>2, SettleStep
  <2> QED BY <2>2, <2>3 DEF Exchange!Next
<1> QED BY <1>1, <1>2

LEMMA ReadersHoldLock ==
  ASSUME LockInv, ReadersTalk
  PROVE  ToSet(readers) = {} \/ \E c \in Calls : ToSet(readers) = {c} /\ HasTurn(c)
<1>1. CASE readers = <<>>
  BY <1>1 DEF ToSet
<1>2. ASSUME NEW c \in Calls, readers = <<c>>, pc[c] \in {"header", "body"}
      PROVE  ToSet(readers) = {c} /\ HasTurn(c)
  <2>1. ToSet(<<c>>) = {c}
    BY DEF ToSet
  <2> QED BY <1>2, <2>1 DEF LockInv, HeadTalks, HasTurn, Talking
<1> QED BY <1>1, <1>2 DEF ReadersTalk

LEMMA NextRefines ==
  ASSUME RawCalls = {}, LockInv, StreamInv, StreamInv', [Next]_vars
  PROVE  [Exchange!Next]_Exchange!vars
<1> USE DEF LockInv
<1>1. ASSUME NEW c \in Calls, Begin(c) PROVE Exchange!Next
  BY <1>1, SubmitStep DEF Exchange!Next, Calls
<1>2. ASSUME NEW c \in Calls, lock' = lock,
             pc[c] \in {"queued", "writing", "header", "body"},
             NEW q \in {"writing", "header", "body"}, pc' = [pc EXCEPT ![c] = q]
      PROVE  UNCHANGED Exchange!vars
  <2>1. \A d \in LockedCalls : Returned(d, pc'[d]) = Returned(d, pc[d])
    BY <1>2 DEF Returned, CallTypeOK, Calls
  <2> QED BY <1>2, <2>1, StutterStep
<1>3. ASSUME NEW c \in Calls, HasTurn(c) \/ Talking(c), lock' = Release(c),
             NEW q \in {"done", "failed"}, pc' = [pc EXCEPT ![c] = q]
      PROVE  Exchange!Next
  <2>1. HasTurn(c) /\ c \in LockedCalls
    BY <1>3 DEF HeadTalks, HasTurn, Calls
  <2> QED BY <1>3, <2>1, SettleStep DEF Exchange!Next
<1>4. ASSUME NEW c \in Calls, Send(c) \/ WriteDone(c)
      PROVE  UNCHANGED Exchange!vars
  BY <1>2, <1>4 DEF Send, WriteDone
<1>5. ASSUME NEW c \in Calls, SendRefused(c) \/ WriteFails(c) PROVE Exchange!Next
  BY <1>3, <1>5 DEF SendRefused, WriteFails, Talking
<1>6. ASSUME NEW c \in Calls, SendAfterEnd(c) PROVE [Exchange!Next]_Exchange!vars
  <2>1. ToSet(readers) = {} \/ ToSet(readers) = {c}
    BY <1>6, ReadersHoldLock DEF SendAfterEnd, HasTurn, StreamInv, Calls
  <2> QED BY <1>6, <2>1, RejectRefines DEF SendAfterEnd
<1>7. ASSUME NEW c \in Calls, TakeHeader(c) PROVE [Exchange!Next]_Exchange!vars
  BY <1>2, <1>3, <1>7 DEF TakeHeader, Talking
<1>8. ASSUME NEW c \in Calls, TakeBody(c) PROVE Exchange!Next
  <2>1. ~(Len(frames[c]) + 1 < Expected(c))
    BY <1>8, LenProperties DEF Expected, CallTypeOK
  <2>2. pc' = [pc EXCEPT ![c] = "done"] /\ lock' = Release(c) /\ Talking(c)
    BY <1>8, <2>1, Zenon DEF TakeBody, Talking
  <2> QED BY <1>3, <2>2
<1>9. CASE EndEvent \/ ErrorEvent
  BY <1>9, ReadersHoldLock, RejectRefines DEF EndEvent, ErrorEvent, StreamInv
<1>10. CASE ~(\E c \in Calls : CallStep(c)) /\ ~EndEvent /\ ~ErrorEvent
  <2>1. UNCHANGED callVars
    BY <1>10, Zenon DEF Next, Connect, Established, Unreachable, DialError,
              GiveUp, Answer, Deliver,
              PeerFin, CloseEvent, LocalClose, vars, callVars
  <2> QED BY <2>1, StutterStep DEF callVars
<1> QED
  BY <1>1, <1>4, <1>5, <1>6, <1>7, <1>8, <1>9, <1>10 DEF CallStep

(* When every caller goes through the lock, the connection implements a     *)
(* SerialExchange: first come, first served, each with its own reply.       *)
THEOREM Refinement ==
  ASSUME RawCalls = {}
  PROVE  Spec => ImplementsExchange
<1>1. Init => Exchange!Init
  BY DEF Init, Exchange!Init, Result, Calls
<1>2. LockInv /\ StreamInv /\ StreamInv' /\ [Next]_vars
        => [Exchange!Next]_Exchange!vars
  BY NextRefines
<1>3. LockInv /\ StreamInv /\ [Next]_vars => StreamInv'
  BY LockedStreamInv
<1> QED
  BY <1>1, <1>2, <1>3, InitLockInv, NextLockInv, InitStreamInv, PTL
  DEF Spec, ImplementsExchange, Exchange!Spec
=============================================================================
