------------------------------- MODULE Server -------------------------------
(***************************************************************************)
(* The life of the process that runs serve of server/src/main.rs: it       *)
(* starts step by step, serves two listeners, and drains both when it is   *)
(* told to stop.                                                           *)
(*                                                                         *)
(* A listener takes connections from the moment it is bound: until axum    *)
(* accepts them they wait in the kernel's queue, and closing the socket    *)
(* resets them.  A connection counts as accepted from its first byte on;   *)
(* its handler then awaits the body the client sends, for which there is   *)
(* no timeout.  The signal handlers are installed by a task of their own,  *)
(* the watcher, when it first runs, and installing one may fail; a signal  *)
(* without a handler kills the process.  The runtime, axum, the kernel and *)
(* the clients are external; SIGKILL is left out.                          *)
(*                                                                         *)
(* Definitions named X_Something are mutants of X.                         *)
(***************************************************************************)
CONSTANTS Listener,     \* the public and the private listener
          Public,       \* the one that is bound first
          Client        \* connections that clients may make

ASSUME ListenerAssumption == Public \in Listener

VARIABLES main,         \* the step serve is at, or how the process ended
          listener,     \* "closed", "bound", "accepting", "draining" or "drained"
          watcher,      \* the task that waits for a signal: "none", "spawned", "waiting", "ended"
          handled,      \* the signals whose handler is installed
          told,         \* the listeners whose shutdown_rx has something to receive
          connection    \* "none", "queued", "reading" (its request), "handling", "answered",
                        \* "gone" (by the client), "reset" or "cut", and to whom

serverVars == <<main, listener, watcher, handled, told, connection>>

Signal == {"int", "term"}
Startup == {"connect", "migrate", "engine", "bind_public", "bind_private", "listen"}
Stopped == {"ok", "error", "killed"}

ServerInit ==
    /\ main = "connect"
    /\ listener = [l \in Listener |-> "closed"]
    /\ watcher = "none"
    /\ handled = {}
    /\ told = {}
    /\ connection = [c \in Client |-> [to |-> Public, state |-> "none"]]

(* Closing sockets resets what waits in their queues; ending the process    *)
(* also cuts the requests that are being read or handled.                   *)
CloseQueue(l) ==
    [c \in Client |-> IF connection[c].to = l /\ connection[c].state = "queued"
                      THEN [connection[c] EXCEPT !.state = "reset"] ELSE connection[c]]

CutAll ==
    [c \in Client |->
        CASE connection[c].state = "queued" -> [connection[c] EXCEPT !.state = "reset"]
          [] connection[c].state \in {"reading", "handling"} -> [connection[c] EXCEPT !.state = "cut"]
          [] OTHER -> connection[c]]

Exit(how) ==
    /\ main' = how
    /\ listener' = [l \in Listener |-> "closed"]
    /\ connection' = CutAll
    /\ UNCHANGED <<watcher, handled, told>>

-----------------------------------------------------------------------------
(* serve                                                                   *)

(* PgAuthStore::connect, migrate and WebauthnEngine::new. *)
Prepare(from, to) ==
    /\ main = from /\ main' = to
    /\ UNCHANGED <<listener, watcher, handled, told, connection>>

Bind(from, l, to) ==
    /\ main = from /\ main' = to
    /\ listener' = [listener EXCEPT ![l] = "bound"]
    /\ UNCHANGED <<watcher, handled, told, connection>>

(* Any step of the start may fail; the ? operator then ends serve. *)
StartFails == main \in Startup \ {"listen"} /\ Exit("error")

(* The receivers subscribe, the watcher is spawned, and try_join polls both *)
(* servers.                                                                 *)
Listen ==
    /\ main = "listen" /\ main' = "serving"
    /\ watcher' = "spawned"
    /\ listener' = [l \in Listener |-> "accepting"]
    /\ UNCHANGED <<handled, told, connection>>

Start ==
    \/ Prepare("connect", "migrate") \/ Prepare("migrate", "engine") \/ Prepare("engine", "bind_public")
    \/ Bind("bind_public", Public, "bind_private")
    \/ \E l \in Listener \ {Public} : Bind("bind_private", l, "listen")
    \/ Listen

Join_First ==
    /\ main = "serving"
    /\ \E l \in Listener : listener[l] = "drained"
    /\ Exit("ok")

(* tokio::try_join! returns when both servers have. *)
Join ==
    /\ main = "serving"
    /\ \A l \in Listener : listener[l] = "drained"
    /\ Exit("ok")

-----------------------------------------------------------------------------
(* Shutdown                                                                *)

Broadcast_One == {Public}

(* send reaches every receiver; the sender is dropped then, which wakes a   *)
(* receiver too.                                                            *)
Broadcast == Listener

(* wait_for_shutdown_signal installs the handlers when it is first polled.  *)
(* Without one for SIGTERM it waits for ctrl-c alone ...                    *)
Watch ==
    /\ watcher = "spawned" /\ main = "serving"
    /\ watcher' = "waiting"
    /\ handled' \in {Signal, {"int"}}
    /\ UNCHANGED <<main, listener, told, connection>>

(* ... and without one for ctrl-c the wait is over at once, before or after *)
(* select! has polled the branch that installs the other.                   *)
WatchFails ==
    /\ watcher = "spawned" /\ main = "serving"
    /\ watcher' = "ended"
    /\ handled' \in {{}, {"term"}}
    /\ told' = Broadcast
    /\ UNCHANGED <<main, listener, connection>>

(* A signal that is handled arrives. *)
WatcherEnds ==
    /\ watcher = "waiting" /\ main = "serving"
    /\ watcher' = "ended"
    /\ told' = Broadcast
    /\ UNCHANGED <<main, listener, handled, connection>>

(* A signal that is not handled arrives.  A handler stays installed after   *)
(* the watcher has ended: further signals then have no effect.              *)
Kill == main \notin Stopped /\ handled # Signal /\ Exit("killed")

(* with_graceful_shutdown: the server stops accepting ... *)
Drain(l) ==
    /\ listener[l] = "accepting" /\ l \in told
    /\ listener' = [listener EXCEPT ![l] = "draining"]
    /\ connection' = CloseQueue(l)
    /\ UNCHANGED <<main, watcher, handled, told>>

(* ... and returns when the requests it has accepted are answered. *)
Drained(l) ==
    /\ listener[l] = "draining"
    /\ \A c \in Client : connection[c].to = l => connection[c].state \notin {"reading", "handling"}
    /\ listener' = [listener EXCEPT ![l] = "drained"]
    /\ UNCHANGED <<main, watcher, handled, told, connection>>

-----------------------------------------------------------------------------
(* Connections                                                             *)

Connect(c, l) ==
    /\ connection[c].state = "none"
    /\ listener[l] \in {"bound", "accepting"}
    /\ connection' = [connection EXCEPT ![c] = [to |-> l, state |-> "queued"]]
    /\ UNCHANGED <<main, listener, watcher, handled, told>>

Accept(c) ==
    /\ connection[c].state = "queued"
    /\ listener[connection[c].to] = "accepting"
    /\ connection' = [connection EXCEPT ![c].state = "reading"]
    /\ UNCHANGED <<main, listener, watcher, handled, told>>

(* External: the client has sent the rest of its request. *)
Send(c) ==
    /\ connection[c].state = "reading"
    /\ connection' = [connection EXCEPT ![c].state = "handling"]
    /\ UNCHANGED <<main, listener, watcher, handled, told>>

(* External: the client closes the connection, which drops the handler. *)
Leave(c) ==
    /\ connection[c].state \in {"queued", "reading", "handling"}
    /\ connection' = [connection EXCEPT ![c].state = "gone"]
    /\ UNCHANGED <<main, listener, watcher, handled, told>>

Respond(c) ==
    /\ connection[c].state = "handling"
    /\ connection' = [connection EXCEPT ![c].state = "answered"]
    /\ UNCHANGED <<main, listener, watcher, handled, told>>

Progress ==
    \/ Watch \/ WatchFails \/ Join
    \/ \E l \in Listener : Drain(l) \/ Drained(l)
    \/ \E c \in Client : Accept(c) \/ Respond(c)

Clients ==
    \E c \in Client : Send(c) \/ Leave(c) \/ \E l \in Listener : Connect(c, l)

ServerNext == Start \/ StartFails \/ Kill \/ WatcherEnds \/ Progress \/ Clients

(* The runtime polls every task that can run, and a handler that has the    *)
(* request it awaits ends.  Nobody has to connect, to go on sending, to     *)
(* leave, to send a signal or to fail.                                      *)
ServerSpec ==
    ServerInit /\ [][ServerNext]_serverVars /\ WF_serverVars(Start) /\ WF_serverVars(Progress)

-----------------------------------------------------------------------------

(* An orderly end cuts no request, and with both handlers installed no      *)
(* other end comes after the start: every request that either listener      *)
(* accepted is answered, or given up by its client, before the process      *)
(* ends, also if the other listener has long drained.                       *)
ShutdownAnswersAccepted ==
    (main = "ok" \/ handled = Signal) => \A c \in Client : connection[c].state # "cut"

(* A shutdown that has begun ends the process whichever listener drains     *)
(* last, if no client keeps the drain waiting for a request it never        *)
(* finishes.                                                                *)
ShutdownCompletes ==
    (\A c \in Client : []<>(connection[c].state # "reading"))
        => (watcher = "ended" ~> main \in Stopped)

=============================================================================
