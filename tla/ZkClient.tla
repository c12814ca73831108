------------------------------ MODULE ZkClient ------------------------------
(***************************************************************************)
(* The ZooKeeper client of the master detector (src/detector/zkclient.go). *)
(*                                                                         *)
(* Actors, each a goroutine of the Go program or a part of its             *)
(* environment:                                                            *)
(*   - the caller, which calls connect() and watchChildren();              *)
(*   - one session-event goroutine per zk.Connect() call (zkclient.go:72), *)
(*     draining that connection's event channel forever;                   *)
(*   - one watch goroutine per armed watch (zkclient.go:139); it runs the  *)
(*     children watcher and then re-arms by calling watchChildren again,   *)
(*     so every watchChildren() call of the caller starts a "chain" of    *)
(*     goroutines with at most one alive at a time;                        *)
(*   - the environment: the go-zookeeper library's connection loop, which  *)
(*     emits session states on the event channel, and the ZooKeeper        *)
(*     server, whose children of the root path change and whose one-shot  *)
(*     watches fire or are invalidated when a session expires.            *)
(*                                                                         *)
(* Child names are numbers: with the fixed-width sequence suffixes of      *)
(* ZooKeeper, sort.Strings orders them as their numbers.                   *)
(***************************************************************************)
EXTENDS Naturals, FiniteSets, Sequences

CONSTANTS
    Nodes,            \* names of the children the server may hold
    MaxConnects,      \* bound on zk.Connect calls (one per connect() retry)
    MaxLibSteps,      \* bound on session transitions of the library
    MaxChildChanges,  \* bound on changes of the children by other clients
    MaxWatchCalls     \* bound on watchChildren() calls made by the caller

ASSUME Nodes \subseteq Nat /\ Nodes # {}
ASSUME MaxConnects \in Nat \ {0}
ASSUME {MaxLibSteps, MaxChildChanges, MaxWatchCalls} \subseteq Nat

VARIABLES
    children,    \* server: the children of rootPath
    changes,     \* server: number of children changes so far
    lib,         \* library: connection-loop state of each zk.Connect call
    libSteps,    \* library: number of session transitions so far
    evq,         \* library: the session event channel of each connection
    nconns,      \* zkc.conn: index of the latest connection (0 = nil)
    connected,   \* zkc.connected
    waitClosed,  \* has connect() of connection k closed its waitConnCh?
    panicked,    \* the process died of "close of closed channel"
    callerPc,    \* caller: "idle" or "waiting" inside connect()
    callerRes,   \* caller: result of its last call
    nwatch,      \* number of watchChildren() calls made by the caller
    watch,       \* the goroutine chain of each watchChildren() call
    seen,        \* the children the watcher callback last listed
    listed,      \* has the callback listed the children at least once?
    lossOpen     \* a session loss was handled and no error report since

vars == <<children, changes, lib, libSteps, evq, nconns, connected,
          waitClosed, panicked, callerPc, callerRes, nwatch, watch,
          seen, listed, lossOpen>>

Conns  == 1..MaxConnects
Chains == 1..MaxWatchCalls

\* zk.State values the library puts on the session event channel.
SessionStates == {"Connecting", "Connected", "HasSession",
                  "Disconnected", "Expired"}

\* Connection-loop states of the library: "new" until it first dials,
\* "live" once it holds a session, "down" after losing the connection;
\* "reconnecting"/"reconnected" are the redial with the old session, the
\* only time the server can answer that the session has expired.
LibStates == {"none", "new", "connecting", "connected", "live", "down",
              "reconnecting", "reconnected"}

\* A watch goroutine is waiting on its channel ("wait"), running the
\* children watcher ("cb"), or calling watchChildren to re-arm ("rearm").
\* ev is the event the server has put on its channel; reports counts the calls of the error watcher made by the chain.
WatchStates == {"none", "wait", "cb", "rearm", "done"}
WatchEvents == {"none", "changed", "notwatching"}
NoWatch == [st |-> "none", conn |-> 0, ev |-> "none", reports |-> 0]

TypeOK ==
    /\ children \subseteq Nodes /\ seen \subseteq Nodes
    /\ changes \in 0..MaxChildChanges /\ libSteps \in 0..MaxLibSteps
    /\ lib \in [Conns -> LibStates]
    /\ evq \in [Conns -> Seq(SessionStates)]
    /\ nconns \in 0..MaxConnects
    /\ waitClosed \in [Conns -> BOOLEAN]
    /\ {connected, panicked, listed, lossOpen} \subseteq BOOLEAN
    /\ callerPc \in {"idle", "waiting"}
    /\ callerRes \in {"none", "ok", "confirmErr", "timeout", "watchOk",
                      "watchErr"}
    /\ nwatch \in 0..MaxWatchCalls
    /\ watch \in [Chains -> [st : WatchStates, conn : 0..MaxConnects,
                             ev : WatchEvents, reports : Nat]]

\* The watcher interfaces and their function adapters: a call of the error
\* watcher (zkErrorWatcherFunc.errorOccured) is one more report to the
\* owner; a call of the children watcher (zkChildrenWatcherFunc.
\* childrenChanged) puts the goroutine inside the callback.
errorOccured(w) == [w EXCEPT !.reports = @ + 1]

childrenChanged(w) == [w EXCEPT !.st = "cb"]

\* Requests sent on zkc.conn succeed only while its library holds a session.
ConnLive == nconns # 0 /\ lib[nconns] = "live"

Init ==
    /\ children \in SUBSET Nodes
    /\ changes = 0
    /\ lib = [k \in Conns |-> "none"]
    /\ libSteps = 0
    /\ evq = [k \in Conns |-> <<>>]
    /\ nconns = 0
    /\ connected = FALSE
    /\ waitClosed = [k \in Conns |-> FALSE]
    /\ panicked = FALSE
    /\ callerPc = "idle"
    /\ callerRes = "none"
    /\ nwatch = 0
    /\ watch = [c \in Chains |-> NoWatch]
    /\ seen = {}
    /\ listed = FALSE
    /\ lossOpen = FALSE

-----------------------------------------------------------------------------
(***************************************************************************)
(* The caller.                                                             *)
(***************************************************************************)

\* connect(): a no-op returning nil when zkc.connected is already set.
ConnectNoop ==
    /\ ~panicked /\ callerPc = "idle"
    /\ connected
    /\ callerRes' = "ok"
    /\ UNCHANGED <<children, changes, lib, libSteps, evq, nconns, connected,
                   waitClosed, panicked, callerPc, nwatch, watch, seen,
                   listed, lossOpen>>

\* connect(): zk.Connect opens a new connection (its loop starts dialing in
\* the background), zkc.conn is overwritten, the session-event goroutine is
\* started, and the caller blocks on waitConnCh or the timer.
ConnectDial ==
    /\ ~panicked /\ callerPc = "idle"
    /\ ~connected
    /\ nconns < MaxConnects
    /\ nconns' = nconns + 1
    /\ lib' = [lib EXCEPT ![nconns + 1] = "new"]
    /\ callerPc' = "waiting"
    /\ UNCHANGED <<children, changes, libSteps, evq, connected, waitClosed,
                   panicked, callerRes, nwatch, watch, seen, listed, lossOpen>>

\* connect(): the select on waitConnCh and time.After(connTimeout). When
\* both are ready Go picks either, so the timer may win at any time.
ConnectConfirm ==
    /\ ~panicked /\ callerPc = "waiting"
    /\ waitClosed[nconns]
    /\ callerRes' = IF connected THEN "ok" ELSE "confirmErr"
    /\ callerPc' = "idle"
    /\ UNCHANGED <<children, changes, lib, libSteps, evq, nconns, connected,
                   waitClosed, panicked, nwatch, watch, seen, listed, lossOpen>>

ConnectTimeout ==
    /\ ~panicked /\ callerPc = "waiting"
    /\ callerRes' = "timeout"
    /\ callerPc' = "idle"
    /\ UNCHANGED <<children, changes, lib, libSteps, evq, nconns, connected,
                   waitClosed, panicked, nwatch, watch, seen, listed, lossOpen>>

\* watchChildren(path) from the caller: refused when not connected; else
\* ChildrenW on zkc.conn arms a one-shot watch and starts a goroutine.
CanArm == connected /\ ConnLive

Armed == [NoWatch EXCEPT !.st = "wait", !.conn = nconns]

WatchChildren ==
    /\ ~panicked /\ callerPc = "idle"
    /\ nwatch < MaxWatchCalls
    /\ nwatch' = nwatch + 1
    /\ \/ /\ CanArm
          /\ watch' = [watch EXCEPT ![nwatch + 1] = Armed]
          /\ callerRes' = "watchOk"
       \/ /\ ~CanArm
          /\ callerRes' = "watchErr"
          /\ UNCHANGED watch
    /\ UNCHANGED <<children, changes, lib, libSteps, evq, nconns, connected,
                   waitClosed, panicked, callerPc, seen, listed, lossOpen>>

-----------------------------------------------------------------------------
(***************************************************************************)
(* The goroutines of the client.                                           *)
(***************************************************************************)

\* The session-event goroutine of connection k takes the next event. Only
\* StateConnected changes the client: it sets zkc.connected and closes
\* waitConnCh, which panics when that channel is already closed.
\* StateDisconnected calls disconnect(), which does nothing; Connecting,
\* HasSession and Expired are only logged. Session events carry no Err,
\* so the error watcher is not called from here.
SessionEvent(k) ==
    /\ ~panicked
    /\ evq[k] # <<>>
    /\ evq' = [evq EXCEPT ![k] = Tail(@)]
    /\ IF Head(evq[k]) = "Connected"
         THEN /\ connected' = TRUE
              /\ waitClosed' = [waitClosed EXCEPT ![k] = TRUE]
              /\ panicked' = waitClosed[k]
         ELSE UNCHANGED <<connected, waitClosed, panicked>>
    /\ UNCHANGED <<children, changes, lib, libSteps, nconns, callerPc,
                   callerRes, nwatch, watch, seen, listed>>
    /\ lossOpen' = (lossOpen \/ Head(evq[k]) \in {"Disconnected", "Expired"})

\* The watch goroutine of chain c receives its event. An event with Err
\* (the watch was invalidated) goes to the error watcher; only a
\* children-changed event goes to the children watcher. Then it re-arms.
WatchFire(c) ==
    /\ ~panicked
    /\ watch[c].st = "wait"
    /\ watch[c].ev # "none"
    /\ watch' = [watch EXCEPT ![c] =
                   IF @.ev = "changed"
                     THEN childrenChanged([@ EXCEPT !.ev = "none"])
                     ELSE errorOccured([@ EXCEPT !.st = "rearm", !.ev = "none"])]
    /\ UNCHANGED <<children, changes, lib, libSteps, evq, nconns, connected,
                   waitClosed, panicked, callerPc, callerRes, nwatch, seen,
                   listed>>
    /\ lossOpen' = (lossOpen /\ watch[c].ev = "changed")

\* list(path): refused when not connected; conn.Children on zkc.conn
\* fails without a session. The children come back sorted.
Listable == connected /\ ConnLive

\* The children watcher of the detector's test: list(path).
WatchCallback(c) ==
    /\ ~panicked
    /\ watch[c].st = "cb"
    /\ IF Listable
         THEN seen' = children /\ listed' = TRUE
         ELSE UNCHANGED <<seen, listed>>
    /\ watch' = [watch EXCEPT ![c].st = "rearm"]
    /\ UNCHANGED <<children, changes, lib, libSteps, evq, nconns, connected,
                   waitClosed, panicked, callerPc, callerRes, nwatch, lossOpen>>

WatchRearm(c) ==
    /\ ~panicked
    /\ watch[c].st = "rearm"
    /\ \/ /\ CanArm
          /\ watch' = [watch EXCEPT ![c] = [Armed EXCEPT !.reports =
                                                         watch[c].reports]]
       \/ /\ ~CanArm
          /\ watch' = [watch EXCEPT ![c] = errorOccured([@ EXCEPT !.st = "done"])]
    /\ UNCHANGED <<children, changes, lib, libSteps, evq, nconns, connected,
                   waitClosed, panicked, callerPc, callerRes, nwatch, seen,
                   listed>>
    /\ lossOpen' = (lossOpen /\ CanArm)

-----------------------------------------------------------------------------
(***************************************************************************)
(* The environment: go-zookeeper's connection loop and the server.         *)
(***************************************************************************)

LibMove(k, to, events) ==
    /\ ~panicked
    /\ libSteps < MaxLibSteps
    /\ lib' = [lib EXCEPT ![k] = to]
    /\ evq' = [evq EXCEPT ![k] = @ \o events]
    /\ libSteps' = libSteps + 1

LibUnchanged == UNCHANGED <<children, changes, nconns, connected, waitClosed,
                            panicked, callerPc, callerRes, nwatch, seen,
                            listed, lossOpen>>

LibDial(k) ==
    /\ lib[k] \in {"new", "down"}
    /\ LibMove(k, IF lib[k] = "new" THEN "connecting" ELSE "reconnecting",
               <<"Connecting">>)
    /\ UNCHANGED watch /\ LibUnchanged

LibTcpUp(k) ==
    /\ lib[k] \in {"connecting", "reconnecting"}
    /\ LibMove(k, IF lib[k] = "connecting" THEN "connected" ELSE "reconnected",
               <<"Connected">>)
    /\ UNCHANGED watch /\ LibUnchanged

LibSession(k) ==
    /\ lib[k] \in {"connected", "reconnected"}
    /\ LibMove(k, "live", <<"HasSession">>)
    /\ UNCHANGED watch /\ LibUnchanged

\* The server reports the session expired: the library invalidates the
\* watches of the connection (EventNotWatching with ErrSessionExpired),
\* drops to disconnected and later dials again with a fresh session.
LibExpire(k) ==
    /\ lib[k] = "reconnected"
    /\ LibMove(k, "down", <<"Expired", "Disconnected">>)
    /\ watch' = [c \in Chains |->
                   IF watch[c].st = "wait" /\ watch[c].conn = k
                      /\ watch[c].ev = "none"
                     THEN [watch[c] EXCEPT !.ev = "notwatching"]
                     ELSE watch[c]]
    /\ LibUnchanged

LibDrop(k) ==
    /\ lib[k] = "live"
    /\ LibMove(k, "down", <<"Disconnected">>)
    /\ UNCHANGED watch /\ LibUnchanged

\* Another client changes the children: every armed watch fires.
ChildrenChange ==
    /\ ~panicked
    /\ changes < MaxChildChanges
    /\ \E s \in SUBSET Nodes :
         /\ s # children
         /\ children' = s
    /\ changes' = changes + 1
    /\ watch' = [c \in Chains |->
                   IF watch[c].st = "wait" /\ watch[c].ev = "none"
                     THEN [watch[c] EXCEPT !.ev = "changed"]
                     ELSE watch[c]]
    /\ UNCHANGED <<lib, libSteps, evq, nconns, connected, waitClosed,
                   panicked, callerPc, callerRes, nwatch, seen, listed, lossOpen>>

-----------------------------------------------------------------------------

Client ==
    \/ ConnectNoop \/ ConnectDial \/ ConnectConfirm \/ ConnectTimeout
    \/ WatchChildren
    \/ \E k \in Conns : SessionEvent(k)
    \/ \E c \in Chains : WatchFire(c) \/ WatchCallback(c) \/ WatchRearm(c)

Environment ==
    \/ \E k \in Conns : LibDial(k) \/ LibTcpUp(k) \/ LibSession(k)
                        \/ LibExpire(k) \/ LibDrop(k)
    \/ ChildrenChange

Next == Client \/ Environment

\* The Go scheduler runs every runnable goroutine, and the connect() timer
\* always fires; the caller, the library and the server owe nothing.
Fairness ==
    /\ WF_vars(ConnectConfirm \/ ConnectTimeout)
    /\ \A k \in Conns : WF_vars(SessionEvent(k))
    /\ \A c \in Chains : WF_vars(WatchFire(c) \/ WatchCallback(c)
                                 \/ WatchRearm(c))

Spec == Init /\ [][Next]_vars /\ Fairness

-----------------------------------------------------------------------------
(***************************************************************************)
(* Properties.                                                             *)
(***************************************************************************)

NoDoubleClose == ~panicked

\* When connect() reports success, the connection zkc.conn that list(),
\* data() and watchChildren() use has confirmed StateConnected: a late
\* confirmation of a timed-out connection is not taken for it (spec 5).
ConnectOkOnConfirmedConn == callerRes = "ok" => waitClosed[nconns]

\* The client holds one ZooKeeper session: every connection but zkc.conn
\* is closed. connect() overwrites zkc.conn on a retry after a timeout
\* (zkclient.go:68, 113-114) and never calls Close on the old one.
OnlyCurrentConnOpen == \A k \in Conns : lib[k] # "none" => k = nconns

\* Spec 4.1 and 7: a session loss (StateDisconnected or StateExpired) is
\* delivered to the error watcher, never silently swallowed. The session
\* goroutine (zkclient.go:75-99) calls the error watcher only for an event
\* with Err, and the library's session events carry none; only a watch
\* that the loss invalidates reports an error.
SessionLossReported == lossOpen ~> ~lossOpen

=============================================================================
