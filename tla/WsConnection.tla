---------------------------- MODULE WsConnection ----------------------------
(***************************************************************************)
(* OpenAiResponsesWebSocketTransport: requests that share one websocket.   *)
(* A request holds the connection's mutex from before it connects until    *)
(* its response is complete.  The socket is kept for the next request if   *)
(* it has the same credentials and the socket is not too old.              *)
(*                                                                         *)
(* complete answers once; stream yields chunks and is dropped, finished or *)
(* left standing by its consumer.  The server is external: it works on the *)
(* requests of a socket in order, and may close it.                        *)
(***************************************************************************)
EXTENDS Naturals, Sequences

CONSTANTS
  Request,     \* calls of the transport
  Streamed,    \* those of stream; the others are of complete
  AuthOf,      \* AuthOf[r]: the credentials of r
  NoAuth,      \* the auth_cache_key of no connection
  NoRequest,   \* nobody holds the mutex
  MaxEvents    \* bound: frames of a response before its last one

ASSUME WsAssumption ==
  /\ Streamed \subseteq Request
  /\ NoRequest \notin Request
  /\ \A r \in Request : AuthOf[r] # NoAuth
  /\ MaxEvents \in Nat

VARIABLES
  auth,    \* the cached connection: its credentials, or NoAuth if there is none
  old,     \* it has reached CONNECTION_MAX_AGE
  dead,    \* a request saw it closed or broken
  holder,  \* who holds the mutex
  pc,      \* pc[r]: where the request stands
  got,     \* got[r]: the requests whose frames r was given
  work,    \* the requests the server has yet to answer on this socket
  wire,    \* the frames on their way to the client
  sent     \* frames sent of the response the server is at

vars == <<auth, old, dead, holder, pc, got, work, wire, sent>>
server == <<work, wire, sent>>

Frame == [of : Request, kind : {"event", "last", "error", "unreadable"}]
         \cup [of : {NoRequest}, kind : {"close"}]

Ended == {"returned", "failed", "dropped"}

TypeOK ==
  /\ auth \in {AuthOf[r] : r \in Request} \cup {NoAuth}
  /\ {old, dead} \subseteq BOOLEAN
  /\ holder \in Request \cup {NoRequest}
  /\ pc \in [Request -> {"idle", "waiting", "locked", "connecting", "sending",
                         "reading", "yielded", "erred"} \cup Ended]
  /\ got \in [Request -> SUBSET Request]
  /\ work \in Seq(Request)
  /\ wire \in Seq(Frame)
  /\ sent \in 0 .. MaxEvents

Init ==
  /\ auth = NoAuth /\ old = FALSE /\ dead = FALSE
  /\ holder = NoRequest
  /\ pc = [r \in Request |-> "idle"]
  /\ got = [r \in Request |-> {}]
  /\ work = << >> /\ wire = << >> /\ sent = 0

Is(r, at) == pc[r] = at
Become(r, at) == pc' = [pc EXCEPT ![r] = at]

(* The socket goes, and what was on it. *)
Disconnect ==
  /\ auth' = NoAuth /\ old' = FALSE /\ dead' = FALSE
  /\ work' = << >> /\ wire' = << >> /\ sent' = 0

-----------------------------------------------------------------------------
Ask(r) ==
  /\ Is(r, "idle")
  /\ Become(r, "waiting")
  /\ UNCHANGED <<auth, old, dead, holder, got, server>>

Lock(r) ==
  /\ Is(r, "waiting") /\ holder = NoRequest
  /\ holder' = r
  /\ Become(r, "locked")
  /\ UNCHANGED <<auth, old, dead, got, server>>

ShouldReconnect(r) == auth = NoAuth \/ old \/ auth # AuthOf[r]

Reuse(r) ==
  /\ Is(r, "locked") /\ ~ShouldReconnect(r)
  /\ Become(r, "sending")
  /\ UNCHANGED <<auth, old, dead, holder, got, server>>

LetGo(r) ==
  /\ Is(r, "locked") /\ ShouldReconnect(r)
  /\ Disconnect
  /\ Become(r, "connecting")
  /\ UNCHANGED <<holder, got>>

(* The age counts from before the handshake. *)
Connect(r) ==
  /\ Is(r, "connecting")
  /\ auth' = AuthOf[r]
  /\ Become(r, "sending")
  /\ UNCHANGED <<old, dead, holder, got, server>>

(* complete returns and frees the mutex; stream hands out the error and    *)
(* frees it when it is polled again, or dropped.                           *)
Fails(r) ==
  IF r \in Streamed
  THEN Become(r, "erred") /\ UNCHANGED holder
  ELSE Become(r, "failed") /\ holder' = NoRequest

ConnectFails(r) ==
  /\ Is(r, "connecting")
  /\ Fails(r)
  /\ UNCHANGED <<auth, old, dead, got, server>>

Ages ==
  /\ auth # NoAuth /\ ~old
  /\ old' = TRUE
  /\ UNCHANGED <<auth, dead, holder, pc, got, server>>

-----------------------------------------------------------------------------
(* Faulty variant: the mutex is held to send only. *)
SendAndRelease(r) ==
  /\ Is(r, "sending") /\ ~dead
  /\ work' = Append(work, r)
  /\ Become(r, "reading")
  /\ holder' = NoRequest
  /\ UNCHANGED <<auth, old, dead, got, wire, sent>>

Send(r) ==
  /\ Is(r, "sending") /\ ~dead
  /\ work' = Append(work, r)
  /\ Become(r, "reading")
  /\ UNCHANGED <<auth, old, dead, holder, got, wire, sent>>

(* Faulty variant: complete keeps it too. *)
BrokenKept(r) ==
  /\ Fails(r)
  /\ dead' = TRUE /\ UNCHANGED <<auth, old, server>>

(* complete gives the socket up where it fails; stream keeps it. *)
Broken(r) ==
  /\ Fails(r)
  /\ IF r \in Streamed
     THEN dead' = TRUE /\ UNCHANGED <<auth, old, server>>
     ELSE Disconnect

SendFails(r) ==
  /\ Is(r, "sending")
  /\ Broken(r)
  /\ UNCHANGED got

(* The payload of this request cannot be built; the socket has no fault. *)
Refused(r) ==
  /\ Is(r, "sending")
  /\ Fails(r)
  /\ IF r \in Streamed THEN UNCHANGED <<auth, old, dead, server>> ELSE Disconnect
  /\ UNCHANGED got

-----------------------------------------------------------------------------
Incoming(r, kind) == Is(r, "reading") /\ wire # << >> /\ Head(wire).kind = kind

Take(r) ==
  /\ wire' = Tail(wire)
  /\ UNCHANGED <<work, sent>>

Given(r) == got' = [got EXCEPT ![r] = @ \cup {Head(wire).of}]

ReadEvent(r) ==
  /\ Incoming(r, "event")
  /\ Take(r) /\ Given(r)
  /\ UNCHANGED <<auth, old, dead, holder, pc>>

(* complete returns and frees the mutex; stream does when polled again. *)
ReadLast(r) ==
  /\ Incoming(r, "last")
  /\ Take(r) /\ Given(r)
  /\ IF r \in Streamed
     THEN Become(r, "yielded") /\ UNCHANGED holder
     ELSE Become(r, "returned") /\ holder' = NoRequest
  /\ UNCHANGED <<auth, old, dead>>

StreamEnds(r) ==
  /\ Is(r, "yielded")
  /\ Become(r, "returned")
  /\ holder' = NoRequest
  /\ UNCHANGED <<auth, old, dead, got, server>>

StreamFails(r) ==
  /\ Is(r, "erred")
  /\ Become(r, "failed")
  /\ holder' = NoRequest
  /\ UNCHANGED <<auth, old, dead, got, server>>

(* An error event, or a frame that cannot be read: the request fails and   *)
(* the socket stays, with what is still on it.                             *)
ReadError(r) ==
  /\ Incoming(r, "error") \/ Incoming(r, "unreadable")
  /\ Take(r)
  /\ Fails(r)
  /\ UNCHANGED <<auth, old, dead, got>>

(* Faulty variant: a close frame is taken for a frame of the response. *)
PassClose(r) ==
  /\ Incoming(r, "close")
  /\ Take(r) /\ Given(r)
  /\ UNCHANGED <<auth, old, dead, holder, pc>>

ReadClose(r) ==
  /\ Incoming(r, "close")
  /\ Broken(r)
  /\ UNCHANGED got

ReadBreaks(r) ==
  /\ Is(r, "reading")
  /\ Broken(r)
  /\ UNCHANGED got

(* The pong cannot be sent: the one failure over which complete keeps a    *)
(* broken socket.                                                          *)
PongFails(r) ==
  /\ Is(r, "reading")
  /\ Fails(r)
  /\ dead' = TRUE
  /\ UNCHANGED <<auth, old, got, server>>

Drop(r) ==
  /\ pc[r] \in {"waiting", "connecting", "sending", "reading", "yielded", "erred"}
  /\ Become(r, "dropped")
  /\ holder' = IF holder = r THEN NoRequest ELSE holder
  /\ UNCHANGED <<auth, old, dead, got, server>>

-----------------------------------------------------------------------------
(* The server. *)
IsClosed == \E i \in DOMAIN wire : wire[i].kind = "close"

Put(frame) == wire' = Append(wire, frame)

ServerSends ==
  /\ work # << >> /\ ~dead /\ ~IsClosed
  /\ sent < MaxEvents
  /\ \E kind \in {"event", "unreadable"} : Put([of |-> Head(work), kind |-> kind])
  /\ sent' = sent + 1
  /\ UNCHANGED <<auth, old, dead, holder, pc, got, work>>

ServerFinishes ==
  /\ work # << >> /\ ~dead /\ ~IsClosed
  /\ \E kind \in {"last", "error"} : Put([of |-> Head(work), kind |-> kind])
  /\ work' = Tail(work)
  /\ sent' = 0
  /\ UNCHANGED <<auth, old, dead, holder, pc, got>>

ServerCloses ==
  /\ auth # NoAuth /\ ~dead /\ ~IsClosed
  /\ Put([of |-> NoRequest, kind |-> "close"])
  /\ UNCHANGED <<auth, old, dead, holder, pc, got, work, sent>>

-----------------------------------------------------------------------------
Goes(r) ==
  \/ Lock(r) \/ Reuse(r) \/ LetGo(r) \/ Connect(r) \/ ConnectFails(r)
  \/ Send(r) \/ SendFails(r) \/ Refused(r)
  \/ ReadEvent(r) \/ ReadLast(r) \/ StreamEnds(r) \/ StreamFails(r) \/ ReadError(r)
  \/ ReadClose(r) \/ ReadBreaks(r) \/ PongFails(r)

Next ==
  \/ \E r \in Request : Ask(r) \/ Goes(r) \/ Drop(r)
  \/ Ages
  \/ ServerSends \/ ServerFinishes \/ ServerCloses

Spec == Init /\ [][Next]_vars

(* Requests are polled and the server finishes what it was asked; a socket *)
(* need not break.                                                         *)
FairSpec ==
  /\ Spec
  /\ WF_vars(ServerFinishes)
  /\ \A r \in Request :
       WF_vars(Lock(r) \/ Reuse(r) \/ LetGo(r) \/ Connect(r) \/ Send(r) \/ SendFails(r)
               \/ ReadEvent(r) \/ ReadLast(r) \/ StreamEnds(r) \/ StreamFails(r)
               \/ ReadError(r) \/ ReadClose(r))

-----------------------------------------------------------------------------
(* A request is given the frames of its own response, though all travel    *)
(* over one socket without a tag that says whose they are.  Where a request *)
(* before it was dropped, or failed over an unreadable frame, it may find   *)
(* what was left of that one's response; never the frames of a request that *)
(* is under way, or of one made with other credentials.                     *)
OwnFrames ==
  \A r \in Request : \A q \in got[r] \ {r} :
    /\ pc[q] \in Ended
    /\ AuthOf[q] = AuthOf[r]
    /\ \E d \in Request : pc[d] \in {"dropped", "failed"} /\ AuthOf[d] = AuthOf[r]

(* Whatever a stream left in the cache, complete hands on no socket it saw *)
(* closed or broken: the request after it connects anew                    *)
(* (responses_ws.rs:142, 150, 174, 181).  The gaps are a pong that cannot   *)
(* be sent (171) and a request that was dropped.                           *)
CompleteHeals ==
  [][\A r \in Request \ Streamed :
       (pc[r] \notin Ended /\ pc'[r] \in {"returned", "failed"} /\ ~PongFails(r)) => (~dead)']_vars

(* While the server finishes what it is asked, or closes, every request    *)
(* ends, and frees the mutex for those that wait for it.                   *)
EveryRequestEnds == \A r \in Request : Is(r, "waiting") ~> pc[r] \in Ended

=============================================================================
