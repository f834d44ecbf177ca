---------------------------- MODULE ServerRuntime ----------------------------
(***************************************************************************)
(* server "http" from Start to Drain, with a server "websocket" mounted on *)
(* one of its routes (servers/http, servers/websocket, config/server.go).  *)
(*                                                                         *)
(* A slot is one request: a plain one is answered by its handler, one to   *)
(* the WebSocket route is upgraded and then belongs to the Listener, out   *)
(* of the HTTP server's sight.  The drain phase closes the HTTP server     *)
(* first and the Listener behind it next.  net/http, the websocket library *)
(* and the bus are external.                                               *)
(***************************************************************************)
EXTENDS Naturals, FiniteSets

CONSTANTS
  Slots,      \* requests
  QueueSize   \* events a connection's queue holds

VARIABLES
  http,      \* "off", "failed", "listening", "draining", "down"
  slot,      \* slot -> kind of request, where its handler is, its answer
  socket,    \* upgraded connections that are open
  async,     \* connections whose AsyncSubscriber runs
  queue,     \* connection -> events waiting to be written
  subs,      \* connections subscribed to the bus
  tracked,   \* Listener.connections
  once,      \* connection -> cleanupOnce: "no", "begun" or "done"
  closers,   \* connections a `go conn.Close()` is at work on
  ws,        \* Shutdown: "no", "closed", "waiting", "clean" or "late"
  snapshot,  \* the connections Shutdown saw
  bounded    \* write_timeout is above 0

vars == <<http, slot, socket, async, queue, subs, tracked, once, closers, ws,
          snapshot, bounded>>

Conn == <<socket, async, queue, subs, tracked, once, closers>>
Drains == <<ws, snapshot>>

Init ==
  /\ http = "off" /\ slot = [c \in Slots |-> [at |-> "free"]]
  /\ socket = {} /\ async = {} /\ queue = [c \in Slots |-> 0] /\ subs = {}
  /\ tracked = {} /\ once = [c \in Slots |-> "no"] /\ closers = {}
  /\ ws = "no" /\ snapshot = {} /\ bounded \in BOOLEAN

At(c, pc) == slot[c].at = pc
To(c, pc) == slot' = [slot EXCEPT ![c].at = pc]
Ends(c, out) == slot' = [slot EXCEPT ![c] = [at |-> "done", out |-> out]]

----------------------------------------------------------------------------
(* The HTTP server.                                                        *)

\* Start: the port is bound before Start returns, and a port it cannot have
\* ends the process.
Start ==
  /\ http = "off" /\ http' \in {"listening", "failed"}
  /\ UNCHANGED <<slot, Conn, Drains, bounded>>

\* Ready.
Ready == http \notin {"off", "failed"}

Request(c) ==
  /\ http = "listening" /\ At(c, "free")
  /\ \E pc \in {"action", "check"} : To(c, pc)
  /\ UNCHANGED <<http, Conn, Drains, bounded>>

\* httpAction.ServeHTTP and writeHTTPResponse: what the action comes to.
StatusOf(val) ==
  CASE val \in {"no context", "fails", "not a body"} -> 500
    [] val = "response" -> 302
    [] val = "null"     -> 204
    [] OTHER            -> 200

Action(c) ==
  /\ At(c, "action")
  /\ \E val \in {"no context", "fails", "response", "null", "not a body", "body"} :
       Ends(c, StatusOf(val))
  /\ UNCHANGED <<http, Conn, Drains, bounded>>

\* Drain, DrainHTTPServer: no new request; wait for the handlers the server
\* can see, and close their connections when the time is up.
Visible == {c \in Slots : slot[c].at \in {"action", "check", "upgrade"}}

Drain ==
  /\ http = "listening" /\ http' = "draining"
  /\ UNCHANGED <<slot, Conn, Drains, bounded>>

DrainEnds ==
  /\ http = "draining" /\ http' = "down"
  /\ \/ Visible = {} /\ UNCHANGED slot
     \/ /\ Visible # {}
        /\ slot' = [c \in Slots |-> IF c \in Visible THEN [slot[c] EXCEPT !.at = "cut"] ELSE slot[c]]
  /\ UNCHANGED <<Conn, Drains, bounded>>

\* A handler whose connection is gone runs on to its end.
Cut(c) ==
  /\ At(c, "cut") /\ Ends(c, "cut")
  /\ UNCHANGED <<http, Conn, Drains, bounded>>

----------------------------------------------------------------------------
(* Listener.ServeHTTP.                                                     *)

Check(c) ==
  /\ At(c, "check")
  /\ IF ws # "no" THEN Ends(c, 503) ELSE To(c, "upgrade")
  /\ UNCHANGED <<http, Conn, Drains, bounded>>

\* websocket.Accept and newConnection, which starts the subscriber.
Upgrade(c) ==
  /\ At(c, "upgrade")
  /\ \/ Ends(c, "not upgraded") /\ UNCHANGED <<socket, async>>
     \/ To(c, "track") /\ socket' = socket \cup {c} /\ async' = async \cup {c}
  /\ UNCHANGED <<http, queue, subs, tracked, once, closers, Drains, bounded>>

Track(c) ==
  /\ At(c, "track")
  /\ tracked' = tracked \cup {c} /\ To(c, "subscribe")
  /\ UNCHANGED <<http, socket, async, queue, subs, once, closers, Drains, bounded>>

\* A failed initial subscription is logged.
Subscribe(c) ==
  /\ At(c, "subscribe")
  /\ subs' \in {subs, subs \cup {c}} /\ To(c, "read")
  /\ UNCHANGED <<http, socket, async, queue, tracked, once, closers, Drains, bounded>>

\* The subscriber's queue takes one more: it has not been closed, nor is it full.
Takes(c) == c \in async /\ once[c] = "no" /\ queue[c] < QueueSize

\* messageReader: an empty frame, or one whose topic or transform comes to
\* nothing, is skipped; the rest is published.
Published(frame) == frame = "topic"

Receive(c) ==
  /\ At(c, "read") /\ c \in socket
  /\ \E frame \in {"empty", "no topic", "dropped", "topic"} :
       /\ Published(frame)
       /\ queue' = [d \in Slots |-> IF d \in subs /\ Takes(d) THEN queue[d] + 1 ELSE queue[d]]
  /\ UNCHANGED <<http, slot, socket, async, subs, tracked, once, closers, Drains, bounded>>

\* Read fails: the peer left, the socket was closed, or the context ended.
PeerLeaves(c) ==
  /\ c \in socket
  /\ socket' = socket \ {c}
  /\ UNCHANGED <<http, slot, async, queue, subs, tracked, once, closers, Drains, bounded>>

\* Broken form: a socket closed by cleanup wakes nobody.
ReadFailsOnLeave(c) == c \notin socket /\ once[c] = "no"

ReadFails(c) == c \notin socket

ReadEnds(c) ==
  /\ At(c, "read") /\ ReadFails(c)
  /\ To(c, "cleanup")
  /\ UNCHANGED <<http, Conn, Drains, bounded>>

\* cleanup, once: the subscriber first, which takes nothing more and writes what
\* its queue still holds, then the socket.  Whoever comes second waits for the
\* first.
CleanupBegins(c) ==
  /\ once[c] = "no" /\ (At(c, "cleanup") \/ c \in closers)
  /\ once' = [once EXCEPT ![c] = "begun"]
  /\ UNCHANGED <<http, slot, socket, async, queue, subs, tracked, closers, Drains, bounded>>

SubscriberCloses(c) ==
  /\ once[c] = "begun" /\ c \in async /\ queue[c] = 0
  /\ async' = async \ {c}
  /\ UNCHANGED <<http, slot, socket, queue, subs, tracked, once, closers, Drains, bounded>>

CleanupEnds(c) ==
  /\ once[c] = "begun" /\ c \notin async
  /\ once' = [once EXCEPT ![c] = "done"] /\ socket' = socket \ {c}
  /\ closers' = closers \ {c}
  /\ UNCHANGED <<http, slot, async, queue, subs, tracked, Drains, bounded>>

CleanupSeen(c) ==
  /\ once[c] = "done"
  /\ \/ At(c, "cleanup") /\ To(c, "unsubscribe") /\ UNCHANGED closers
     \/ c \in closers /\ closers' = closers \ {c} /\ UNCHANGED slot
  /\ UNCHANGED <<http, socket, async, queue, subs, tracked, once, Drains, bounded>>

\* Broken form: a shutdown leaves the subscription.
StaysSubscribed(c) == IF ws = "no" THEN subs \ {c} ELSE subs

\* UnsubscribeAll, whose failure is only logged; the Listener forgets the
\* connection either way.
Unsubscribed(c) == subs \ {c}

Unsubscribe(c) ==
  /\ At(c, "unsubscribe")
  /\ \/ subs' = Unsubscribed(c) /\ To(c, "untrack")
     \/ To(c, "forsake") /\ UNCHANGED subs
  /\ UNCHANGED <<http, socket, async, queue, tracked, once, closers, Drains, bounded>>

Untrack(c) ==
  /\ tracked' = tracked \ {c}
  /\ \/ At(c, "untrack") /\ Ends(c, "closed")
     \/ At(c, "forsake") /\ Ends(c, "not unsubscribed")
  /\ UNCHANGED <<http, socket, async, queue, subs, once, closers, Drains, bounded>>

\* The ticker rides the queue of the events.
PingDue(c) ==
  /\ Takes(c)
  /\ queue' = [queue EXCEPT ![c] = @ + 1]
  /\ UNCHANGED <<http, slot, socket, async, subs, tracked, once, closers, Drains, bounded>>

\* The subscriber's own goroutine: OnEvent writes an event, PassThrough a ping.
\* Either may fail, and a failed ping, as a write out of time, ends the socket.
Write(c) ==
  /\ c \in async /\ queue[c] > 0
  /\ queue' = [queue EXCEPT ![c] = @ - 1]
  /\ socket' \in {socket, socket \ {c}}
  /\ UNCHANGED <<http, slot, async, subs, tracked, once, closers, Drains, bounded>>

\* writeContext: a write to an open socket ends in time only if it has one.
WriteReturns(c) == (bounded \/ c \notin socket) /\ Write(c)

----------------------------------------------------------------------------
(* Listener.Shutdown, called by the drain phase once the HTTP server is    *)
(* down: close the channel, take the connections there are, close each in  *)
(* a goroutine, and look every tick until none is left or time is up.      *)

Shutdown ==
  /\ http = "down" /\ ws = "no" /\ ws' = "closed"
  /\ UNCHANGED <<http, slot, Conn, snapshot, bounded>>

Snapshot ==
  /\ ws = "closed" /\ ws' = "waiting"
  /\ snapshot' = tracked /\ closers' = closers \cup tracked
  /\ UNCHANGED <<http, slot, socket, async, queue, subs, tracked, once, bounded>>

\* Broken form: only open sockets count.
RemainingOpen == tracked \cap socket

Remaining == tracked

Tick ==
  /\ ws = "waiting" /\ Remaining = {} /\ ws' = "clean"
  /\ UNCHANGED <<http, slot, Conn, snapshot, bounded>>

Deadline ==
  /\ ws = "waiting" /\ ws' = "late"
  /\ UNCHANGED <<http, slot, Conn, snapshot, bounded>>

\* What the goroutines do of themselves.
Handler(c) ==
  \/ Action(c) \/ Cut(c) \/ Check(c) \/ Upgrade(c) \/ Track(c) \/ Subscribe(c)
  \/ ReadEnds(c) \/ CleanupBegins(c) \/ SubscriberCloses(c)
  \/ CleanupEnds(c) \/ CleanupSeen(c) \/ Unsubscribe(c) \/ Untrack(c)

Next ==
  \/ Start \/ Drain \/ DrainEnds \/ Shutdown \/ Snapshot \/ Tick \/ Deadline
  \/ \E c \in Slots : Request(c) \/ Handler(c) \/ Receive(c) \/ PeerLeaves(c)
                      \/ PingDue(c) \/ Write(c)

\* Goroutines run, and a write that has a timeout returns; a peer need never
\* read or leave, and no deadline is counted on.
Fairness == \A c \in Slots : WF_vars(Handler(c)) /\ WF_vars(WriteReturns(c))

Spec == Init /\ [][Next]_vars

FairSpec == Spec /\ Fairness

----------------------------------------------------------------------------
(* Properties.                                                             *)

TypeOK ==
  /\ http \in {"off", "failed", "listening", "draining", "down"}
  /\ socket \cup async \cup subs \cup tracked \cup closers \subseteq Slots
  /\ queue \in [Slots -> 0..QueueSize] /\ bounded \in BOOLEAN

\* The connection's UnsubscribeAll failed, and its handler has gone on.
Forsaken(c) ==
  \/ At(c, "forsake")
  \/ At(c, "done") /\ slot[c].out = "not unsubscribed"

\* When Shutdown returns without error, every connection it saw has its
\* subscriber stopped with nothing left to write, its socket closed, and is
\* subscribed to nothing unless the bus refused to let it go.
ShutdownTrue ==
  ws = "clean" => \A c \in snapshot :
    /\ At(c, "done") /\ c \notin socket \cup async /\ queue[c] = 0
    /\ c \in subs => Forsaken(c)

\* A handler that has returned leaves nothing of its connection behind but what
\* the bus refused to let go, which no event reaches; and any other
\* subscription is one the Listener knows of.
HandlerLeavesNothing ==
  /\ \A c \in Slots : At(c, "done") => c \notin socket \cup async \cup tracked /\ queue[c] = 0
  /\ \A c \in subs : c \in tracked \/ Forsaken(c)

\* The writer waits for a peer that does not read, with write_timeout 0, while
\* the connection is being closed.
Hanging(c) == ~bounded /\ once[c] = "begun" /\ c \in async \cap socket /\ queue[c] > 0

\* Every connection Shutdown saw comes to its end, whether or not the peer
\* answers and however a failed ping or the reader's own cleanup got in first,
\* unless its writer may wait for ever.
Underway(c) == c \in snapshot /\ ~At(c, "done") /\ ~Hanging(c)
ShutdownCloses == \A c \in Slots : []<>~Underway(c)
=============================================================================
