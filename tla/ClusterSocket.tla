--------------------------- MODULE ClusterSocket ---------------------------
(***************************************************************************)
(* The dashboard's connection to the event stream: createClusterSocket     *)
(* (dashboard/src/lib/ws-client.ts) and the effect of the page that makes  *)
(* and closes it (dashboard/src/app/page.tsx).                             *)
(*                                                                         *)
(* Every callback runs to its end before the next, and is one step.  The   *)
(* WebSocket and the timers are the browser's: what they do between two    *)
(* callbacks is in any order.  A WebSocket that fails fires error and      *)
(* close in one task, the error with nothing left to close; one that was   *)
(* told to close fires close later and no message before it.               *)
(***************************************************************************)
EXTENDS Integers, FiniteSets

CONSTANTS
    MaxMounts,  \* bound: times the page's effect runs
    Handles,    \* WebSocket objects of a mount; a closed one is used again
    None

ASSUME HandlesAssumption == MaxMounts \in Nat /\ None \notin Handles

VARIABLES
    mount,      \* times the effect has run
    closed,     \* mount -> closed
    socket,     \* mount -> socket
    ws,         \* mount -> WebSocket -> readyState; "dead" is OPEN to the
                \* page though the other end has vanished
    reconnect,  \* mount -> reconnectTimer is set
    watchdog,   \* mount -> the WebSocket heartbeatTimer was set for
    backoff,    \* mount -> backoffMs, in seconds
    status      \* socketStatus of the page

vars == <<mount, closed, socket, ws, reconnect, watchdog, backoff, status>>

Mounts == 1 .. MaxMounts

maxBackoff == 30

\* readyState === WebSocket.OPEN
IsOpen(m, w) == ws[m][w] \in {"open", "dead"}

Init ==
    /\ mount = 0
    /\ closed = [m \in Mounts |-> FALSE]
    /\ socket = [m \in Mounts |-> None]
    /\ ws = [m \in Mounts |-> [w \in Handles |-> "closed"]]
    /\ reconnect = [m \in Mounts |-> FALSE]
    /\ watchdog = [m \in Mounts |-> None]
    /\ backoff = [m \in Mounts |-> 1]
    /\ status = "connecting"

\* connect, for a mount that is not closed.
Connect(m, w) ==
    /\ ws[m][w] = "closed"
    /\ ws' = [ws EXCEPT ![m][w] = "connecting"]
    /\ socket' = [socket EXCEPT ![m] = w]
    /\ status' = "connecting"

\* The effect runs: at first, or again once it has been cleaned up.
Mount(w) ==
    /\ mount < MaxMounts /\ (mount > 0 => closed[mount])
    /\ mount' = mount + 1
    /\ Connect(mount + 1, w)
    /\ UNCHANGED <<closed, reconnect, watchdog, backoff>>

\* The effect is cleaned up: close().
Unmount ==
    /\ mount > 0 /\ ~closed[mount]
    /\ closed' = [closed EXCEPT ![mount] = TRUE]
    /\ reconnect' = [reconnect EXCEPT ![mount] = FALSE]
    /\ watchdog' = [watchdog EXCEPT ![mount] = None]
    /\ ws' = [ws EXCEPT ![mount][socket[mount]] = IF @ = "closed" THEN @ ELSE "closing"]
    /\ status' = "disconnected"
    /\ UNCHANGED <<mount, socket, backoff>>

-----------------------------------------------------------------------------
\* Callbacks of WebSocket w of mount m

\* Mistake: only a message sets the watchdog.
OnOpen_Unwatched(m, w) ==
    /\ ws[m][w] = "connecting"
    /\ ws' = [ws EXCEPT ![m][w] = "open"]
    /\ backoff' = [backoff EXCEPT ![m] = 1]
    /\ status' = "connected"
    /\ UNCHANGED <<mount, closed, socket, reconnect, watchdog>>

OnOpen(m, w) ==
    /\ ws[m][w] = "connecting"
    /\ ws' = [ws EXCEPT ![m][w] = "open"]
    /\ IF socket[m] # w THEN UNCHANGED <<backoff, status, watchdog>>
       ELSE /\ backoff' = [backoff EXCEPT ![m] = 1]
            /\ status' = "connected"
            /\ watchdog' = [watchdog EXCEPT ![m] = w]
    /\ UNCHANGED <<mount, closed, socket, reconnect>>

\* handleMessage: whatever the message holds, the watchdog starts anew.
OnMessage(m, w) ==
    /\ ws[m][w] = "open"
    /\ watchdog' = [watchdog EXCEPT ![m] = IF socket[m] = w THEN w ELSE @]
    /\ UNCHANGED <<mount, closed, socket, ws, reconnect, backoff, status>>

NextBackoff(b) == IF 2 * b < maxBackoff THEN 2 * b ELSE maxBackoff

\* error and close; the close callback calls scheduleReconnect.
OnClose(m, w) ==
    /\ ws[m][w] # "closed" /\ ws[m][w] # "dead"
    /\ ws' = [ws EXCEPT ![m][w] = "closed"]
    /\ IF socket[m] # w THEN UNCHANGED <<reconnect, watchdog, backoff, status>>
       ELSE /\ watchdog' = [watchdog EXCEPT ![m] = None]
            /\ reconnect' = [reconnect EXCEPT ![m] = ~closed[m]]
            /\ backoff' = [backoff EXCEPT ![m] = IF closed[m] THEN @ ELSE NextBackoff(@)]
            /\ status' = IF closed[m] THEN "disconnected" ELSE "reconnecting"
    /\ UNCHANGED <<mount, closed, socket>>

-----------------------------------------------------------------------------
\* Timers of mount m

\* Mistake: the watchdog gives the WebSocket up without closing it.
OnWatchdog_Reconnects(m) ==
    /\ watchdog[m] # None
    /\ watchdog' = [watchdog EXCEPT ![m] = None]
    /\ reconnect' = [reconnect EXCEPT ![m] = TRUE]
    /\ UNCHANGED <<mount, closed, socket, ws, backoff, status>>

\* heartbeatTimer: no message for 20 s.
OnWatchdog(m) ==
    /\ watchdog[m] # None
    /\ watchdog' = [watchdog EXCEPT ![m] = None]
    /\ ws' = IF socket[m] = watchdog[m] /\ IsOpen(m, socket[m])
               THEN [ws EXCEPT ![m][socket[m]] = "closing"] ELSE ws
    /\ UNCHANGED <<mount, closed, socket, reconnect, backoff, status>>

OnReconnect(m, w) ==
    /\ reconnect[m]
    /\ reconnect' = [reconnect EXCEPT ![m] = FALSE]
    /\ IF closed[m] THEN UNCHANGED <<ws, socket, status>> ELSE Connect(m, w)
    /\ UNCHANGED <<mount, closed, watchdog, backoff>>

\* The other end is gone and nobody says so.
Vanish(m, w) ==
    /\ ws[m][w] = "open"
    /\ ws' = [ws EXCEPT ![m][w] = "dead"]
    /\ UNCHANGED <<mount, closed, socket, reconnect, watchdog, backoff, status>>

-----------------------------------------------------------------------------
Next ==
    \/ Unmount
    \/ \E w \in Handles : Mount(w)
    \/ \E m \in Mounts : OnWatchdog(m)
    \/ \E m \in Mounts, w \in Handles :
         OnOpen(m, w) \/ OnMessage(m, w) \/ OnClose(m, w) \/ OnReconnect(m, w) \/ Vanish(m, w)

\* Timers go off, a WebSocket told to close closes, and one of infinitely many
\* attempts to connect succeeds.  Messages keep the watchdog from going off,
\* but none comes from an end that has vanished.
Fairness ==
    \A m \in Mounts :
         /\ WF_vars(watchdog[m] # None /\ ws[m][watchdog[m]] = "dead" /\ OnWatchdog(m))
         /\ WF_vars(\E w \in Handles : OnReconnect(m, w))
         /\ \A w \in Handles : WF_vars(ws[m][w] = "closing" /\ OnClose(m, w))
         /\ SF_vars(\E w \in Handles : OnOpen(m, w))
         /\ WF_vars(\E w \in Handles : ws[m][w] = "connecting" /\ (OnOpen(m, w) \/ OnClose(m, w)))

-----------------------------------------------------------------------------
\* Properties

\* Never two streams: however timers, closes and remounts interleave, at most
\* one WebSocket is connecting or open, so no event reaches the page twice; and
\* no timer and no stream of an earlier mount survives its close().
OneStream ==
    /\ \A m, n \in Mounts, v, w \in Handles :
         ws[m][v] \in {"connecting", "open", "dead"} /\ ws[n][w] \in {"connecting", "open", "dead"}
             => m = n /\ v = w
    /\ \A m \in Mounts : closed[m] =>
         /\ ~reconnect[m] /\ watchdog[m] = None
         /\ \A w \in Handles : ws[m][w] \in {"closing", "closed"}

\* A mounted page gets a live stream again and again, whatever fails.
Recovers == \A m \in Mounts :
    (mount = m /\ ~closed[m]) ~> (closed[m] \/ \E w \in Handles : socket[m] = w /\ ws[m][w] = "open")

=============================================================================
