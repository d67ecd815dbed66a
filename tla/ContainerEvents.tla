-------------------------- MODULE ContainerEvents --------------------------
(***************************************************************************)
(* The container that docker_run.py starts reports to the host, over a TCP *)
(* port of the loopback interface, that its entry point is through         *)
(* (container_event_handler.py, entrypoint_docker).  A thread of the       *)
(* command listens; the main thread waits for docker run and then wakes    *)
(* that thread up and ends.  Any process of the host may connect as well.  *)
(*                                                                         *)
(* The kernel's sockets, the strangers and the entry point, a shell script *)
(* that ends at the first command that fails, are external.                *)
(***************************************************************************)
EXTENDS Naturals, Sequences, FiniteSets

CONSTANTS
  Strangers,   \* other processes that connect to the port
  Kinds,       \* what they do once connected
  Box,         \* the entry point of the container
  None,        \* no connection
  Backlog      \* connections that wait to be accepted: listen(1) admits two

\* A stranger sends an event, sends something else, sends a time that no datetime
\* can hold, hangs up, resets the connection, or does nothing.
ASSUME PeerAssumption ==
  /\ Box \notin Strangers /\ None \notin Strangers \cup {Box}
  /\ Kinds \subseteq {"event", "unknown", "overflow", "empty", "reset", "silent"}
  /\ Backlog \in Nat \ {0}

Peers == Strangers \cup {Box}

VARIABLES
  main,       \* where docker_run.py is
  listener,   \* where the thread of the handler is
  conn,       \* the connection that it has accepted
  sock,       \* the listening socket: "bound", "listening", "shut", "closed"
  cancelled,  \* the threading.Event
  queue,      \* connections that wait to be accepted
  box,        \* where the entry point is
  kind,       \* what each peer does once connected
  tried,      \* strangers that have connected
  handled,    \* peers whose event was recorded
  cause       \* history: why the listener stopped, why the entry point failed

peerVars == <<queue, box, kind, tried>>
eventsVars == <<main, listener, conn, sock, cancelled, peerVars, handled, cause>>

EventsInit ==
  /\ main = "start"
  /\ listener = "none"
  /\ conn = None
  /\ sock = "bound"
  /\ cancelled = FALSE
  /\ queue = <<>>
  /\ box = "none"
  /\ \E k \in [Strangers -> Kinds] : kind = [p \in Peers |-> IF p = Box THEN "silent" ELSE k[p]]
  /\ tried = {}
  /\ handled = {}
  /\ cause = [listener |-> "none", box |-> "none"]

----------------------------------------------------------------------------
(* docker_run.py, main: the end of it.                                      *)

\* start_container_event_handler: the socket is bound, the thread is started.
StartHandler ==
  /\ main = "start" /\ main' = "docker"
  /\ listener' = "listen"
  /\ UNCHANGED <<conn, sock, cancelled, peerVars, handled, cause>>

\* The threads are daemons: they die with the process, which closes the socket.
\* Peers that are connected get an end of file or a reset.
ProcessEnds ==
  /\ listener' = IF listener = "none" THEN "none" ELSE "dead"
  /\ sock' = "closed" /\ conn' = None /\ queue' = <<>>

\* xhost fails, outside the try block.
XhostRaises ==
  /\ main = "docker" /\ main' = "crashed"
  /\ ProcessEnds
  /\ UNCHANGED <<cancelled, box, kind, tried, handled, cause>>

StartContainer ==
  /\ main = "docker" /\ main' = "wait"
  /\ box' = "entry"
  /\ UNCHANGED <<listener, conn, sock, cancelled, queue, kind, tried, handled, cause>>

\* docker run returns when the container ends; Ctrl-C ends the wait for it.
StopWaiting(interrupted) ==
  /\ interrupted \/ box \in {"failed", "ended"}
  /\ main = "wait" /\ main' = "set"
  /\ UNCHANGED <<listener, conn, sock, cancelled, peerVars, handled, cause>>

\* SocketCancelEvent.set: the event, then the socket.  The kernel refuses to shut
\* down a socket that does not listen (ENOTCONN, which is ignored).
SetEvent ==
  /\ main = "set" /\ main' = "shutdown"
  /\ cancelled' = TRUE
  /\ UNCHANGED <<listener, conn, sock, peerVars, handled, cause>>

\* Mutant: the socket is left alone.
ShutDownForgotten ==
  /\ main = "shutdown" /\ main' = "join"
  /\ UNCHANGED <<listener, conn, sock, cancelled, peerVars, handled, cause>>

ShutDown ==
  /\ main = "shutdown" /\ main' = "join"
  /\ sock' = IF sock = "listening" THEN "shut" ELSE sock
  /\ queue' = IF sock = "listening" THEN <<>> ELSE queue
  /\ UNCHANGED <<listener, conn, cancelled, box, kind, tried, handled, cause>>

\* Mutant: the join has no timeout.
EndAfterListener ==
  /\ main = "join" /\ main' = "done"
  /\ listener = "ended"
  /\ ProcessEnds
  /\ UNCHANGED <<cancelled, box, kind, tried, handled, cause>>

\* event_handler_thread.join(timeout=1.0), then sys.exit.
EndProcess ==
  /\ main = "join" /\ main' = "done"
  /\ ProcessEnds
  /\ UNCHANGED <<cancelled, box, kind, tried, handled, cause>>

----------------------------------------------------------------------------
(* container_event_listener                                                 *)

Listen ==
  /\ listener = "listen" /\ listener' = "check"
  /\ sock' = "listening"
  /\ UNCHANGED <<main, conn, cancelled, peerVars, handled, cause>>

\* The kernel refuses listen, or accept, for a reason of its own: no more ports,
\* buffers or descriptors.  The error is logged and the thread gives up.
ListenErrors ==
  /\ \/ listener = "listen"
     \/ listener = "accept" /\ sock = "listening"
  /\ listener' = "close"
  /\ cause' = [cause EXCEPT !.listener = "error"]
  /\ UNCHANGED <<main, conn, sock, cancelled, peerVars, handled>>

\* while not cancel_event.is_set()
Check ==
  /\ listener = "check"
  /\ listener' = IF cancelled THEN "close" ELSE "accept"
  /\ cause' = [cause EXCEPT !.listener = IF cancelled THEN "cancel" ELSE @]
  /\ UNCHANGED <<main, conn, sock, cancelled, peerVars, handled>>

Accept ==
  /\ listener = "accept" /\ sock = "listening" /\ queue # <<>>
  /\ listener' = "recv"
  /\ conn' = Head(queue) /\ queue' = Tail(queue)
  /\ UNCHANGED <<main, sock, cancelled, box, kind, tried, handled, cause>>

\* accept fails on a socket that was shut down.
AcceptFails ==
  /\ listener = "accept" /\ sock = "shut"
  /\ listener' = "close"
  /\ cause' = [cause EXCEPT !.listener = "cancel"]
  /\ UNCHANGED <<main, conn, sock, cancelled, peerVars, handled>>

\* Mutant: one event is enough.
ReceiveOnce ==
  /\ listener = "recv" /\ kind[conn] \in {"event", "unknown", "empty"}
  /\ listener' = IF kind[conn] = "event" THEN "close" ELSE "check"
  /\ handled' = IF kind[conn] = "event" THEN handled \cup {conn} ELSE handled
  /\ conn' = None
  /\ UNCHANGED <<main, sock, cancelled, peerVars, cause>>

\* recv returns what the peer sent; process_container_event records an event, logs
\* what it does not know, and lets an OverflowError through.
Receive ==
  /\ listener = "recv" /\ kind[conn] \in {"event", "unknown", "empty"}
  /\ listener' = "check"
  /\ handled' = IF kind[conn] = "event" THEN handled \cup {conn} ELSE handled
  /\ conn' = None
  /\ UNCHANGED <<main, sock, cancelled, peerVars, cause>>

\* An OSError of recv, and any exception of the processing, end the loop.
ReceiveFails ==
  /\ listener = "recv" /\ kind[conn] \in {"reset", "overflow"}
  /\ listener' = "close"
  /\ cause' = [cause EXCEPT !.listener = kind[conn]]
  /\ conn' = None
  /\ UNCHANGED <<main, sock, cancelled, peerVars, handled>>

\* The finally block.
Close ==
  /\ listener = "close" /\ listener' = "ended"
  /\ sock' = "closed" /\ queue' = <<>>
  /\ UNCHANGED <<main, conn, cancelled, box, kind, tried, handled, cause>>

----------------------------------------------------------------------------
(* Peers (external).                                                        *)

Room == sock = "listening" /\ Len(queue) <= Backlog

\* The entry point connects.  With the queue full the kernel repeats the attempt.
BoxConnects ==
  /\ box = "entry" /\ Room
  /\ box' = "connected" /\ queue' = Append(queue, Box)
  /\ UNCHANGED <<main, listener, conn, sock, cancelled, kind, tried, handled, cause>>

\* The kernel gives up after some two minutes of a full queue (ETIMEDOUT): errexit
\* ends the entry point, and the container.  How long the queue must have been full
\* is left open.
BoxTimesOut ==
  /\ box = "entry" /\ sock = "listening" /\ ~Room
  /\ box' = "failed"
  /\ cause' = [cause EXCEPT !.box = "timeout"]
  /\ UNCHANGED <<main, listener, conn, sock, cancelled, queue, kind, tried, handled>>

\* Nobody listens on the port: the same end.
BoxRefused ==
  /\ box = "entry" /\ sock # "listening"
  /\ box' = "failed"
  /\ cause' = [cause EXCEPT !.box = IF listener = "listen" THEN "early" ELSE "stopped"]
  /\ UNCHANGED <<main, listener, conn, sock, cancelled, queue, kind, tried, handled>>

\* It writes its event; to a connection that is gone it may fail to.
BoxWrites ==
  /\ box = "connected"
  /\ \/ box' = "running" /\ kind' = [kind EXCEPT ![Box] = "event"] /\ UNCHANGED cause
     \/ /\ sock # "listening"
        /\ box' = "failed" /\ cause' = [cause EXCEPT !.box = "stopped"]
        /\ UNCHANGED kind
  /\ UNCHANGED <<main, listener, conn, sock, cancelled, queue, tried, handled>>

BoxEnds ==
  /\ box = "running" /\ box' = "ended"
  /\ UNCHANGED <<main, listener, conn, sock, cancelled, queue, kind, tried, handled, cause>>

StrangerConnects(p) ==
  /\ p \notin tried /\ Room
  /\ tried' = tried \cup {p} /\ queue' = Append(queue, p)
  /\ UNCHANGED <<main, listener, conn, sock, cancelled, box, kind, handled, cause>>

\* A silent stranger hangs up at some time, or never.
StrangerLeaves(p) ==
  /\ p \in tried /\ kind[p] = "silent"
  /\ kind' = [kind EXCEPT ![p] = "empty"]
  /\ UNCHANGED <<main, listener, conn, sock, cancelled, queue, box, tried, handled, cause>>

----------------------------------------------------------------------------
MainStep == StartHandler \/ XhostRaises \/ StartContainer \/ StopWaiting(FALSE)
            \/ SetEvent \/ ShutDown \/ EndProcess
ListenerStep == Listen \/ Check \/ Accept \/ AcceptFails \/ Receive \/ ReceiveFails \/ Close
BoxStep == BoxConnects \/ BoxRefused \/ BoxWrites

EventsNext ==
  \/ MainStep \/ StopWaiting(TRUE)
  \/ ListenerStep \/ ListenErrors
  \/ BoxStep \/ BoxTimesOut \/ BoxEnds
  \/ \E p \in Strangers : StrangerConnects(p) \/ StrangerLeaves(p)

EventsSpec == EventsInit /\ [][EventsNext]_eventsVars

\* Threads are scheduled, and the entry point goes on.  A container may run for
\* ever, strangers need do nothing, and the kernel need refuse nothing.
EventsFairSpec == EventsSpec /\ WF_eventsVars(MainStep) /\ WF_eventsVars(ListenerStep) /\ WF_eventsVars(BoxStep)

----------------------------------------------------------------------------
\* Every variable has its type; the listener has a connection exactly while it reads.
EventsTypeOK ==
  /\ main \in {"start", "docker", "wait", "set", "shutdown", "join", "done", "crashed"}
  /\ listener \in {"none", "listen", "check", "accept", "recv", "close", "ended", "dead"}
  /\ conn \in Peers \cup {None}
  /\ sock \in {"bound", "listening", "shut", "closed"}
  /\ cancelled \in BOOLEAN
  /\ queue \in Seq(Peers) /\ Len(queue) <= Backlog + 1
  /\ box \in {"none", "entry", "connected", "running", "failed", "ended"}
  /\ kind \in [Peers -> {"event", "unknown", "overflow", "empty", "reset", "silent"}]
  /\ tried \subseteq Strangers /\ handled \subseteq Peers
  /\ cause \in [listener : {"none", "cancel", "reset", "overflow", "error"},
                box : {"none", "early", "stopped", "timeout"}]
  /\ conn # None <=> listener = "recv"

\* Once SocketCancelEvent.set has returned, the listener does not wait for a
\* connection that need not come: whatever it was about to do when set began, it
\* sees the event or its accept fails.
NoSleeper == main = "join" /\ listener = "accept" => sock = "shut"

\* The container is turned away only if its entry point was faster than the thread
\* that is to listen; or the listener had stopped, because it was cancelled, the
\* kernel refused it listen or accept, or a stranger reset its connection or sent an
\* absurd time; or more strangers than the queue holds had come before it, and its
\* connect timed out behind them although the listener lives.
RefusedForCause ==
  /\ cause.box = "stopped" => cancelled \/ cause.listener \in {"reset", "overflow", "error"}
  /\ cause.box = "timeout" => Cardinality(tried) > Backlog
  /\ cause.listener \in {"reset", "overflow"} => \E p \in tried : kind[p] = cause.listener
  /\ cause.listener = "cancel" => cancelled

\* The entry point gets through and its event is recorded, unless it was too fast,
\* its connect timed out, the listener stops (for a cause as above), or the listener
\* waits for a stranger that says nothing, behind which the queue fills up.
EventIsRecorded ==
  box = "entry" ~>
    \/ Box \in handled
    \/ cause.box \in {"early", "timeout"}
    \/ cancelled \/ cause.listener \in {"reset", "overflow", "error"}
    \/ listener = "recv" /\ conn \in Strangers /\ kind[conn] = "silent"

\* The command ends once the container has: neither a stranger nor the listener
\* can keep it.
CommandEnds == box \in {"failed", "ended"} ~> main \in {"done", "crashed"}
=============================================================================
