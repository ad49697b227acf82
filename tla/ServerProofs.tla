----------------------------- MODULE ServerProofs -----------------------------
(***************************************************************************)
(* Proofs about Server, for every number of connections.                   *)
(***************************************************************************)
EXTENDS Server, TLAPS

-----------------------------------------------------------------------------
(* The inductive invariant.                                                 *)

ConnectionState == {"none", "queued", "reading", "handling", "answered", "gone", "reset", "cut"}

ServerTypeOK ==
    /\ main \in Startup \cup {"serving"} \cup Stopped
    /\ listener \in [Listener -> {"closed", "bound", "accepting", "draining", "drained"}]
    /\ watcher \in {"none", "spawned", "waiting", "ended"}
    /\ handled \in SUBSET Signal
    /\ connection \in [Client -> [to : Listener, state : ConnectionState]]

(* No signal is handled before the watcher runs. *)
HandlersAreInstalled == watcher \in {"none", "spawned"} => handled = {}

(* Nothing is served, and nobody watches for signals, during the start. *)
StartIsQuiet ==
    main \in Startup => /\ watcher = "none"
                        /\ \A l \in Listener : listener[l] \in {"closed", "bound"}

(* A request being read or handled keeps its listener from having drained. *)
HandlingKeepsListener ==
    \A c \in Client : connection[c].state \in {"reading", "handling"} =>
        listener[connection[c].to] \in {"accepting", "draining"}

(* Requests are cut by the end of the process only. *)
OnlyExitCuts == main \notin Stopped => \A c \in Client : connection[c].state # "cut"

ServerInv ==
    /\ ServerTypeOK
    /\ HandlersAreInstalled
    /\ StartIsQuiet
    /\ HandlingKeepsListener
    /\ OnlyExitCuts
    /\ ShutdownAnswersAccepted

USE DEF Startup, Stopped, Signal, ConnectionState

(* The process that has not started satisfies ServerInv. *)
LEMMA ServerInvInit == ServerInit => ServerInv
  BY ListenerAssumption DEF ServerInit, ServerInv, ServerTypeOK, HandlersAreInstalled, StartIsQuiet, HandlingKeepsListener,
     OnlyExitCuts, ShutdownAnswersAccepted

(* What the end of the process leaves of a connection. *)
LEMMA CutConnections ==
    ASSUME ServerTypeOK
    PROVE  /\ CutAll \in [Client -> [to : Listener, state : ConnectionState]]
           /\ \A c \in Client :
                 /\ CutAll[c].state \notin {"reading", "handling"}
                 /\ CutAll[c].state = "cut" => connection[c].state \in {"reading", "handling", "cut"}
<1>1. \A c \in Client :
         /\ CutAll[c] \in [to : Listener, state : ConnectionState]
         /\ CutAll[c].state \notin {"reading", "handling"}
         /\ CutAll[c].state = "cut" => connection[c].state \in {"reading", "handling", "cut"}
  BY DEF ServerTypeOK, CutAll
<1> QED
  BY <1>1 DEF CutAll

(* The process ends: of its requests none is handled, and those that were    *)
(* are cut; there are none if the end is orderly or both handlers are        *)
(* installed.                                                                *)
LEMMA ExitStep ==
    ASSUME ServerInv, NEW how \in Stopped, Exit(how),
           main \notin Stopped,
           (how = "ok" \/ handled = Signal) =>
               \A c \in Client : connection[c].state \notin {"reading", "handling"}
    PROVE  ServerInv'
<1> USE DEF Exit, ServerInv
<1>1. ServerTypeOK'
  BY CutConnections DEF ServerTypeOK
<1>2. HandlersAreInstalled' /\ StartIsQuiet'
  BY DEF HandlersAreInstalled, StartIsQuiet
<1>3. HandlingKeepsListener'
  BY CutConnections DEF HandlingKeepsListener
<1>4. OnlyExitCuts'
  BY DEF OnlyExitCuts
<1>5. ShutdownAnswersAccepted'
  BY CutConnections DEF ShutdownAnswersAccepted, OnlyExitCuts
<1> QED
  BY <1>1, <1>2, <1>3, <1>4, <1>5

(* A step of serve before it serves. *)
LEMMA StartStep ==
    ASSUME ServerInv, Start \/ StartFails
    PROVE  ServerInv'
<1> USE DEF ServerInv, ServerTypeOK, HandlersAreInstalled, StartIsQuiet, HandlingKeepsListener, OnlyExitCuts,
            ShutdownAnswersAccepted
<1>1. CASE \/ Prepare("connect", "migrate") \/ Prepare("migrate", "engine")
           \/ Prepare("engine", "bind_public")
  BY <1>1 DEF Prepare
<1>2. CASE \/ Bind("bind_public", Public, "bind_private")
           \/ \E l \in Listener \ {Public} : Bind("bind_private", l, "listen")
  BY <1>2, ListenerAssumption DEF Bind
<1>3. CASE Listen
  BY <1>3 DEF Listen
<1>4. CASE StartFails
  BY <1>4, ExitStep DEF StartFails
<1> QED
  BY <1>1, <1>2, <1>3, <1>4 DEF Start

(* A signal, or the watcher that waits for one. *)
LEMMA SignalStep ==
    ASSUME ServerInv, Kill \/ Watch \/ WatchFails \/ WatcherEnds
    PROVE  ServerInv'
<1>1. CASE Kill
  BY <1>1, ExitStep DEF Kill
<1>2. CASE Watch \/ WatchFails \/ WatcherEnds
  BY <1>2 DEF Watch, WatchFails, WatcherEnds, ServerInv, ServerTypeOK, HandlersAreInstalled, StartIsQuiet, HandlingKeepsListener,
     OnlyExitCuts, ShutdownAnswersAccepted
<1> QED
  BY <1>1, <1>2

(* A listener drains, or both have and serve returns. *)
LEMMA DrainStep ==
    ASSUME ServerInv, Join \/ \E l \in Listener : Drain(l) \/ Drained(l)
    PROVE  ServerInv'
<1>1. CASE Join
  BY <1>1, ExitStep DEF Join, ServerInv, ServerTypeOK, HandlingKeepsListener
<1>2. ASSUME NEW l \in Listener, Drain(l) PROVE ServerInv'
  BY <1>2 DEF Drain, CloseQueue, ServerInv, ServerTypeOK, HandlersAreInstalled, StartIsQuiet, HandlingKeepsListener,
     OnlyExitCuts, ShutdownAnswersAccepted
<1>3. ASSUME NEW l \in Listener, Drained(l) PROVE ServerInv'
  BY <1>3 DEF Drained, ServerInv, ServerTypeOK, HandlersAreInstalled, StartIsQuiet, HandlingKeepsListener,
     OnlyExitCuts, ShutdownAnswersAccepted
<1> QED
  BY <1>1, <1>2, <1>3

(* A client connects, is accepted, sends, leaves or is answered. *)
LEMMA ConnectionStep ==
    ASSUME ServerInv, NEW c \in Client,
           Accept(c) \/ Respond(c) \/ Send(c) \/ Leave(c) \/ \E l \in Listener : Connect(c, l)
    PROVE  ServerInv'
<1> USE DEF ServerInv, ServerTypeOK, HandlersAreInstalled, StartIsQuiet, HandlingKeepsListener, OnlyExitCuts,
            ShutdownAnswersAccepted
<1>1. CASE Accept(c)
  BY <1>1 DEF Accept
<1>2. CASE Respond(c) \/ Send(c) \/ Leave(c)
  BY <1>2 DEF Respond, Send, Leave
<1>3. ASSUME NEW l \in Listener, Connect(c, l) PROVE ServerInv'
  BY <1>3 DEF Connect
<1> QED
  BY <1>1, <1>2, <1>3

(* Every step of the server, the kernel and the clients preserves ServerInv. *)
LEMMA ServerInvNext == ServerInv /\ [ServerNext]_serverVars => ServerInv'
<1> SUFFICES ASSUME ServerInv, [ServerNext]_serverVars PROVE ServerInv'
  OBVIOUS
<1>1. CASE UNCHANGED serverVars
  BY <1>1 DEF serverVars, ServerInv, ServerTypeOK, HandlersAreInstalled, StartIsQuiet, HandlingKeepsListener,
     OnlyExitCuts, ShutdownAnswersAccepted
<1> QED
  BY <1>1, StartStep, SignalStep, DrainStep, ConnectionStep DEF ServerNext, Progress, Clients

(* However many connections each listener has, an orderly shutdown cuts no   *)
(* request, and once both signal handlers are installed there is no other:   *)
(* try_join! waits for both servers, and neither has drained while a request *)
(* it accepted is being read or handled.                                     *)
THEOREM ShutdownsAnswerAccepted == ServerSpec => []ShutdownAnswersAccepted
<1>1. ServerInv => ShutdownAnswersAccepted
  BY DEF ServerInv
<1> QED
  BY <1>1, ServerInvInit, ServerInvNext, PTL DEF ServerSpec

=============================================================================
