--------------------------- MODULE HostConnection ---------------------------
(***************************************************************************)
(* transport/Connection.js and the frame reader of transport/DataStream.js:*)
(* one socket to a host server, shared by asynchronous calls.              *)
(*                                                                         *)
(* A locked call is one sendAndReceive(): it queues on the promise chain   *)
(* #lock, writes its request, reads one reply frame and opens the gate of  *)
(* its successor.  A raw call uses send() and receive() directly, without  *)
(* the lock, and reads two frames (an entry and its terminator), as        *)
(* IFSFile's listFiles() does in a directory of one entry; #listSelf()     *)
(* differs from it in forgiving an error of its second read.  (They get to *)
(* it when the application has set the attributes of the file service, see *)
(* ServiceConnections.)  A frame is read in two pieces, the 20-byte header *)
(* and the rest, by whichever reader's 'readable' listener came first.     *)
(***************************************************************************)
EXTENDS Naturals, Sequences, SequencesExt

CONSTANTS LockedCalls,   \* calls that go through sendAndReceive()
          RawCalls       \* calls that use send() and receive() directly

Calls == LockedCalls \cup RawCalls

ASSUME CallsAssumption == LockedCalls \cap RawCalls = {}

(* A reply frame on the stream is a header piece followed by a body piece.  *)
Chunk == [call : Calls, part : {"header", "body"}]
HeaderOf(c) == [call |-> c, part |-> "header"]
BodyOf(c)   == [call |-> c, part |-> "body"]

NoHeader == [part |-> "none"]

VARIABLES
  dial,       \* the promise of connect()
  os,         \* the socket as the operating system and Node see it
  socket,     \* #socket is not null
  connected,  \* #connected
  lock,       \* the chain of gates behind #lock: its head holds the lock
  pc,         \* where each call is
  readers,    \* calls with a 'readable' listener, in order of registration
  wire,       \* requests written and not yet answered by the server
  net,        \* pieces of replies the server has sent
  inbox,      \* pieces of replies in the socket's read buffer
  header,     \* the header piece a call has read
  frames      \* the frames a call has read

connVars == <<dial, os, socket, connected>>
streamVars == <<wire, net, inbox>>
callVars == <<lock, pc, readers, header, frames>>
vars == <<dial, os, socket, connected, lock, pc, readers, wire, net, inbox,
          header, frames>>

-----------------------------------------------------------------------------
Frame == [header : Chunk \cup {NoHeader}, body : Chunk]

ConnTypeOK ==
  /\ dial \in {"idle", "pending", "resolved", "rejected"}
  /\ os \in {"none", "opening", "open", "fin", "ended", "down"}
  /\ socket \in BOOLEAN
  /\ connected \in BOOLEAN
  /\ connected => socket

CallTypeOK ==
  /\ lock \in Seq(LockedCalls)
  /\ pc \in [Calls -> {"idle", "queued", "writing", "header", "body", "done",
                       "failed"}]
  /\ readers \in Seq(Calls)
  /\ wire \in Seq(Calls)
  /\ net \in Seq(Chunk)
  /\ inbox \in Seq(Chunk)
  /\ header \in [Calls -> Chunk \cup {NoHeader}]
  /\ frames \in [Calls -> Seq(Frame)]

(* #connected is only ever set for a connection that still has its socket.  *)
TypeOK == ConnTypeOK /\ CallTypeOK

Init ==
  /\ dial = "idle"
  /\ os = "none"
  /\ socket = FALSE
  /\ connected = FALSE
  /\ lock = <<>>
  /\ pc = [c \in Calls |-> "idle"]
  /\ readers = <<>>
  /\ wire = <<>>
  /\ net = <<>>
  /\ inbox = <<>>
  /\ header = [c \in Calls |-> NoHeader]
  /\ frames = [c \in Calls |-> <<>>]

-----------------------------------------------------------------------------
(* Opening: connect() and #createSocket().                                  *)

(* A signal that is already aborted rejects before there is a socket.       *)
Connect ==
  /\ dial = "idle"
  /\ \/ dial' = "pending" /\ os' = "opening"
     \/ dial' = "rejected" /\ os' = os
  /\ UNCHANGED <<socket, connected, streamVars, callVars>>

(* The 'connect' or 'secureConnect' listener of a socket that is still      *)
(* there calls done(null, socket).  After the timer or the signal, done()   *)
(* is settled and returns.                                                  *)
Established ==
  /\ os = "opening"
  /\ os' = "open"
  /\ IF dial = "pending"
       THEN dial' = "resolved" /\ socket' = TRUE /\ connected' = TRUE
       ELSE UNCHANGED <<dial, socket, connected>>
  /\ UNCHANGED <<streamVars, callVars>>

(* Node cannot connect: it destroys the socket, and emits 'error' later.    *)
Unreachable ==
  /\ os = "opening"
  /\ os' = "down"
  /\ UNCHANGED <<dial, socket, connected, streamVars, callVars>>

(* The 'error' listener calls done(err), without the socket.                *)
DialError ==
  /\ dial = "pending"
  /\ os = "down"
  /\ dial' = "rejected"
  /\ UNCHANGED <<os, socket, connected, streamVars, callVars>>

(* Mutant: the timer calls done(err) without the socket, as 'error' does.   *)
GiveUpWithoutSocket ==
  /\ dial = "pending"
  /\ dial' = "rejected"
  /\ UNCHANGED <<os, socket, connected, streamVars, callVars>>

(* The timer or the abort signal calls done(err, socket), which destroys    *)
(* the socket: the listeners of the dial stay, but no 'connect' comes.      *)
GiveUp ==
  /\ dial = "pending"
  /\ dial' = "rejected"
  /\ os' = "down"
  /\ UNCHANGED <<socket, connected, streamVars, callVars>>

-----------------------------------------------------------------------------
(* The calls.                                                               *)

Usable == socket /\ connected

HasTurn(c) ==
  IF c \in LockedCalls THEN lock # <<>> /\ Head(lock) = c ELSE TRUE

(* Mutant: withLock() without its finally block.                            *)
ReleaseNever(c) == lock

(* The finally block: a locked call that ends resolves its gate.            *)
Release(c) ==
  IF c \in LockedCalls THEN Tail(lock) ELSE lock

(* The calls in S are rejected by one event; the one that holds the lock    *)
(* releases it.                                                             *)
Reject(S) ==
  /\ pc' = [c \in Calls |-> IF c \in S THEN "failed" ELSE pc[c]]
  /\ readers' = <<>>
  /\ lock' = IF lock # <<>> /\ Head(lock) \in S THEN Tail(lock) ELSE lock

(* Mutant: a call that comes while others wait is put before them.          *)
BeginAtFront(c) ==
  /\ pc[c] = "idle"
  /\ pc' = [pc EXCEPT ![c] = "queued"]
  /\ lock' = IF c \in LockedCalls
               THEN IF lock = <<>> THEN <<c>>
                    ELSE <<Head(lock), c>> \o Tail(lock)
               ELSE lock
  /\ UNCHANGED <<connVars, streamVars, readers, header, frames>>

(* withLock() takes its place in the chain before its first await.          *)
Begin(c) ==
  /\ pc[c] = "idle"
  /\ pc' = [pc EXCEPT ![c] = "queued"]
  /\ lock' = IF c \in LockedCalls THEN Append(lock, c) ELSE lock
  /\ UNCHANGED <<connVars, streamVars, readers, header, frames>>

(* send(): the write is handed to the socket.                               *)
Send(c) ==
  /\ pc[c] = "queued"
  /\ HasTurn(c)
  /\ Usable
  /\ os # "ended"
  /\ pc' = [pc EXCEPT ![c] = "writing"]
  /\ wire' = IF os = "open" THEN Append(wire, c) ELSE wire
  /\ UNCHANGED <<connVars, net, inbox, lock, readers, header, frames>>

(* A write after the end destroys the socket with an error, which reaches   *)
(* the write callback and every reader.                                     *)
SendAfterEnd(c) ==
  /\ pc[c] = "queued"
  /\ HasTurn(c)
  /\ Usable
  /\ os = "ended"
  /\ os' = "down"
  /\ connected' = FALSE
  /\ Reject(ToSet(readers) \cup {c})
  /\ UNCHANGED <<dial, socket, streamVars, header, frames>>

SendRefused(c) ==
  /\ pc[c] = "queued"
  /\ HasTurn(c)
  /\ ~Usable
  /\ pc' = [pc EXCEPT ![c] = "failed"]
  /\ lock' = Release(c)
  /\ UNCHANGED <<connVars, streamVars, readers, header, frames>>

(* The write callback reports no error: the call goes on to receive(),      *)
(* whose first read registers a listener when the buffer is empty.          *)
WriteDone(c) ==
  /\ pc[c] = "writing"
  /\ os \in {"open", "fin", "ended"}
  /\ Usable
  /\ pc' = [pc EXCEPT ![c] = "header"]
  /\ readers' = Append(readers, c)
  /\ UNCHANGED <<connVars, streamVars, lock, header, frames>>

(* The write callback reports an error, once the socket is destroyed.       *)
WriteFails(c) ==
  /\ pc[c] = "writing"
  /\ os = "down"
  /\ pc' = [pc EXCEPT ![c] = "failed"]
  /\ lock' = Release(c)
  /\ UNCHANGED <<connVars, streamVars, readers, header, frames>>

(* Mutant: listFiles() without the read of its terminator.                  *)
ExpectedWithoutTerminator(c) == 1

(* The frames a call reads before it settles.                               *)
Expected(c) == IF c \in RawCalls THEN 2 ELSE 1

(* #readExact() of the header.  A piece that is not a header still decodes  *)
(* to some length: a plausible one makes the call wait for a body, another  *)
(* raises DatastreamError.                                                  *)
TakeHeader(c) ==
  /\ readers # <<>>
  /\ Head(readers) = c
  /\ pc[c] = "header"
  /\ inbox # <<>>
  /\ inbox' = Tail(inbox)
  /\ \/ /\ pc' = [pc EXCEPT ![c] = "body"]
        /\ header' = [header EXCEPT ![c] = Head(inbox)]
        /\ readers' = Append(Tail(readers), c)
        /\ lock' = lock
     \/ /\ Head(inbox).part # "header"
        /\ pc' = [pc EXCEPT ![c] = "failed"]
        /\ readers' = Tail(readers)
        /\ lock' = Release(c)
        /\ header' = header
  /\ UNCHANGED <<connVars, wire, net, frames>>

(* #readExact() of the rest: the frame is complete.  A call that expects    *)
(* more calls receive() again, which looks at the connection first.         *)
TakeBody(c) ==
  /\ readers # <<>>
  /\ Head(readers) = c
  /\ pc[c] = "body"
  /\ inbox # <<>>
  /\ inbox' = Tail(inbox)
  /\ frames' = [frames EXCEPT ![c] =
                  Append(@, [header |-> header[c], body |-> Head(inbox)])]
  /\ header' = [header EXCEPT ![c] = NoHeader]
  /\ \/ /\ Len(frames[c]) + 1 = Expected(c)
        /\ pc' = [pc EXCEPT ![c] = "done"]
        /\ readers' = Tail(readers)
        /\ lock' = Release(c)
     \/ /\ Len(frames[c]) + 1 < Expected(c)
        /\ pc' = [pc EXCEPT ![c] = IF Usable THEN "header" ELSE "failed"]
        /\ readers' = IF Usable THEN Append(Tail(readers), c) ELSE Tail(readers)
        /\ lock' = lock
  /\ UNCHANGED <<connVars, wire, net>>

-----------------------------------------------------------------------------
(* The host server and the network.                                         *)

(* The server answers requests in the order they arrived.                   *)
Answer ==
  /\ os = "open"
  /\ wire # <<>>
  /\ wire' = Tail(wire)
  /\ net' = LET c == Head(wire)
                frame == <<HeaderOf(c), BodyOf(c)>>
            IN net \o (IF c \in RawCalls THEN frame \o frame ELSE frame)
  /\ UNCHANGED <<connVars, inbox, callVars>>

Deliver ==
  /\ os \in {"open", "fin"}
  /\ net # <<>>
  /\ inbox' = Append(inbox, Head(net))
  /\ net' = Tail(net)
  /\ UNCHANGED <<connVars, wire, callVars>>

(* The server closes its side; what it sent before can still be read.       *)
PeerFin ==
  /\ os = "open"
  /\ os' = "fin"
  /\ wire' = <<>>
  /\ UNCHANGED <<dial, socket, connected, net, inbox, callVars>>

(* 'end' is emitted once, when everything before the FIN was read.          *)
EndEvent ==
  /\ os = "fin"
  /\ net = <<>> /\ inbox = <<>>
  /\ os' = "ended"
  /\ Reject(ToSet(readers))
  /\ UNCHANGED <<dial, socket, connected, streamVars, header, frames>>

(* Node destroys the ended socket; its 'close' event clears #connected.     *)
CloseEvent ==
  /\ os = "ended"
  /\ os' = "down"
  /\ connected' = FALSE
  /\ UNCHANGED <<dial, socket, streamVars, callVars>>

(* A reset: 'error' reaches the readers and clears #connected.              *)
ErrorEvent ==
  /\ os \in {"open", "fin", "ended"}
  /\ os' = "down"
  /\ connected' = FALSE
  /\ wire' = <<>> /\ net' = <<>> /\ inbox' = <<>>
  /\ Reject(ToSet(readers))
  /\ UNCHANGED <<dial, socket, header, frames>>

(* Mutant: close() leaves #connected to the 'close' event.                  *)
LocalCloseKeepingFlag ==
  /\ socket
  /\ socket' = FALSE
  /\ os' = "down"
  /\ wire' = <<>> /\ net' = <<>> /\ inbox' = <<>>
  /\ UNCHANGED <<dial, connected, callVars>>

(* close(): the socket is destroyed without an error.  Only 'close' is      *)
(* emitted, to which no reader listens: the readers stay where they are.    *)
LocalClose ==
  /\ socket
  /\ socket' = FALSE
  /\ connected' = FALSE
  /\ os' = "down"
  /\ wire' = <<>> /\ net' = <<>> /\ inbox' = <<>>
  /\ UNCHANGED <<dial, callVars>>

-----------------------------------------------------------------------------
CallStep(c) == \/ Begin(c) \/ Send(c) \/ SendAfterEnd(c) \/ SendRefused(c)
               \/ WriteDone(c) \/ WriteFails(c) \/ TakeHeader(c) \/ TakeBody(c)

Next ==
  \/ Connect \/ Established \/ Unreachable \/ DialError \/ GiveUp
  \/ \E c \in Calls : CallStep(c)
  \/ Answer \/ Deliver
  \/ PeerFin \/ EndEvent \/ CloseEvent \/ ErrorEvent \/ LocalClose

Spec == Init /\ [][Next]_vars

(* The event loop runs every continuation and I/O callback that is ready,   *)
(* and the server answers or the socket fails; nothing forces a failure but *)
(* the timer of a dial.                                                     *)
Fairness ==
  /\ \A c \in Calls :
       WF_vars(Send(c) \/ SendAfterEnd(c) \/ SendRefused(c) \/ WriteDone(c)
               \/ WriteFails(c) \/ TakeHeader(c) \/ TakeBody(c))
  /\ WF_vars(DialError) /\ WF_vars(GiveUp)
  /\ WF_vars(Answer) /\ WF_vars(Deliver)
  /\ WF_vars(EndEvent) /\ WF_vars(CloseEvent)

FairSpec == Spec /\ Fairness

-----------------------------------------------------------------------------
(* Properties.                                                              *)

Talking(c) == pc[c] \in {"writing", "header", "body"}

(* Connection.js, #lock: replies carry no correlation, so at most one of    *)
(* the calls that use the lock is between its write and the end of its read *)
(* at any time, however the earlier ones ended.                             *)
OneLockedCallTalks ==
  \A c, d \in LockedCalls : Talking(c) /\ Talking(d) => c = d

(* The reply a call returns was built from a header and a body that both    *)
(* belong to its own request: no reply is handed to another caller.         *)
OwnFrame(c, f) == f = [header |-> HeaderOf(c), body |-> BodyOf(c)]

RepliesMatch ==
  \A c \in Calls : pc[c] = "done" =>
     \A i \in 1..Len(frames[c]) : OwnFrame(c, frames[c][i])

(* When the lock is passed on while the connection is still up, the call    *)
(* that ended left nothing behind: no unanswered request, and no piece of   *)
(* its reply for the next call to take as its own.                          *)
NothingLeftBehind ==
  (os = "open" /\ \A c \in Calls : ~Talking(c))
     => wire = <<>> /\ net = <<>> /\ inbox = <<>>

(* #createSocket() and close(): a socket that lives is in #socket, where    *)
(* close() finds it, or the dial that opened it is still pending.  So       *)
(* neither a timer or abort that comes before a late 'connect', nor close(),*)
(* leaves a connection that nobody can close.                               *)
NoSocketForgotten ==
  os \in {"opening", "open", "fin", "ended"} => socket \/ dial = "pending"

(* A read that no event can settle: its socket was destroyed by close(), or *)
(* 'end' was emitted before the read registered its listener.               *)
Orphaned(c) == c \in ToSet(readers) /\ os \in {"ended", "down"}

(* Every call settles, whatever the socket does, unless some read has been  *)
(* orphaned: the orphan never settles, and keeps the lock from the calls    *)
(* behind it.                                                               *)
CallsSettleUnlessOrphaned ==
  \A c \in Calls :
    pc[c] = "queued" ~> \/ pc[c] \in {"done", "failed"}
                        \/ \E d \in Calls : Orphaned(d)

(* The locked calls of a connection are a SerialExchange.                   *)
Result(c) ==
  CASE pc[c] = "idle" -> "idle"
    [] pc[c] = "failed" -> "failed"
    [] pc[c] = "done" -> frames[c][1].body.call
    [] OTHER -> "pending"

Exchange == INSTANCE SerialExchange WITH
              Calls <- LockedCalls, Idle <- "idle", Pending <- "pending",
              Failed <- "failed", queue <- lock,
              result <- [c \in LockedCalls |-> Result(c)]

(* Calls are served one at a time, in the order they were made, and a call  *)
(* that succeeds returns the answer to its own request.                     *)
ImplementsExchange == Exchange!Spec
=============================================================================
