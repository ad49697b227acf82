------------------------------- MODULE Browser -------------------------------
(***************************************************************************)
(* The HTTP side of a session: the handlers of server/src/http.rs and a    *)
(* browser with several tabs.  The tabs share one cookie; each keeps the   *)
(* CSRF token and the identity that its last response showed.  A response  *)
(* changes the cookie when it arrives, which may be after another tab has  *)
(* logged in, or never.  Session discovery replaces the CSRF token of the  *)
(* session, so that it refuses the other tabs' next mutation.              *)
(*                                                                         *)
(* Every tab has at most one request in flight: Task is the set of tabs.   *)
(* The browser sends every request from its own origin as JSON, so that    *)
(* verify_origin_json lets it pass.  The tabs in Eager are an application  *)
(* that may want one operator mutation done: it discovers the session when *)
(* it is refused, and logs in when it has none.                            *)
(***************************************************************************)
EXTENDS AuthService

CONSTANTS Eager,       \* tabs that pursue a mutation
          MaxTrouble   \* bound: requests of other tabs, losses, failures and ticks

ASSUME BrowserAssumption == Eager \subseteq Task /\ MaxTrouble \in Nat

VARIABLES jar,         \* the cookie __Host-rs_session: the session it names, or None
          tab,         \* what every tab holds and waits for
          trouble      \* how much trouble there has been

browserVars == <<vars, jar, tab, trouble>>

NoToken == [session |-> None, n |-> 0]

Route == {"discover", "login_start", "login", "logout", "mutate"}

(* A tab holds                                                              *)
(* csrf      the CSRF token, and the session it was shown for               *)
(* ceremony  the challenge of login_start                                   *)
(* phase     "idle", "sent" or "answered", for its request to route         *)
(* cookie    the session sent with the request, or set by the answer        *)
(* status    of the last answer; 0 without one                              *)
(* fresh     the CSRF token in the answer                                   *)
(* done      whether the mutation is known to have happened                 *)
BrowserInit ==
    /\ Init
    /\ jar = IF DOMAIN SignedIn = {} THEN None ELSE CHOOSE s \in DOMAIN SignedIn : TRUE
    /\ \E done \in BOOLEAN :
          tab = [t \in Task |->
                   [csrf |-> NoToken, ceremony |-> None, phase |-> "idle", route |-> "discover",
                    cookie |-> None, status |-> 0, fresh |-> NoToken, done |-> done]]
    /\ trouble = 0

(* Identifiers are random: which unused one is taken makes no difference.  *)
NextCeremony == CHOOSE m \in CeremonyId : ceremonies[m].status = "absent"
NextSession == CHOOSE s \in SessionId : sessions[s].status = "absent"

Trouble == trouble < MaxTrouble /\ trouble' = trouble + 1

-----------------------------------------------------------------------------
(* The browser.                                                            *)

Pursues(t) ==
    IF tab[t].ceremony # None THEN "login"
    ELSE IF tab[t].status = 401 THEN "login_start"
    ELSE IF tab[t].status = 403 \/ tab[t].csrf = NoToken THEN "discover"
    ELSE "mutate"

Send(t, route) ==
    /\ tab[t].phase = "idle"
    /\ route = "login" => tab[t].ceremony # None
    /\ tab' = [tab EXCEPT ![t].phase = "sent", ![t].route = route, ![t].cookie = jar]
    /\ UNCHANGED <<vars, jar>>

EagerSend(t) ==
    /\ t \in Eager /\ ~tab[t].done
    /\ Send(t, Pursues(t))
    /\ UNCHANGED trouble

OtherSend(t) ==
    /\ t \notin Eager
    /\ \E route \in Route : Send(t, route)
    /\ Trouble

(* The tab takes what the answer shows, the browser takes its Set-Cookie. *)
Receive(t) ==
    /\ tab[t].phase = "answered"
    /\ jar' = IF tab[t].status \in {200, 204} /\ tab[t].route \in {"login", "logout"}
              THEN tab[t].cookie ELSE jar
    /\ tab' = [tab EXCEPT
                 ![t].phase = "idle",
                 ![t].csrf = IF tab[t].route \in {"discover", "login", "logout"} /\ tab[t].status # 403
                             THEN tab[t].fresh
                             ELSE IF tab[t].status = 401 THEN NoToken ELSE @,
                 ![t].ceremony = IF tab[t].route = "login" THEN None ELSE @,
                 ![t].status = IF tab[t].route = "discover" /\ tab[t].fresh = NoToken THEN 401 ELSE @,
                 ![t].done = @ \/ (tab[t].route = "mutate" /\ tab[t].status \in {200, 409})]
    /\ UNCHANGED <<vars, trouble>>

(* The answer is lost; what the handler did stays done. *)
Lose(t) ==
    /\ tab[t].phase = "answered"
    /\ tab' = [tab EXCEPT ![t].phase = "idle", ![t].status = 0,
                          ![t].ceremony = IF tab[t].route \in {"login", "login_start"} THEN None ELSE @]
    /\ Trouble
    /\ UNCHANGED <<vars, jar>>

-----------------------------------------------------------------------------
(* The handlers.                                                           *)

Handles(t, route) == tab[t].phase = "sent" /\ tab[t].route = route /\ task[t].pc = "idle"

Answer(t, status, cookie, fresh) ==
    /\ tab' = [tab EXCEPT ![t].phase = "answered", ![t].status = status,
                          ![t].cookie = cookie, ![t].fresh = fresh]
    /\ UNCHANGED <<jar, trouble>>

Discover_ReturnsOldToken(t) ==
    LET s == tab[t].cookie IN
    /\ Handles(t, "discover") /\ s # None
    /\ SessionDiscovery /\ sessions'[s].csrf = sessions[s].csrf + 1
    /\ Answer(t, 200, s, [session |-> s, n |-> sessions[s].csrf])

(* session_discovery: a session gets a new CSRF token ... *)
Discover(t) ==
    LET s == tab[t].cookie IN
    /\ Handles(t, "discover") /\ s # None
    /\ SessionDiscovery /\ sessions'[s].csrf = sessions[s].csrf + 1
    /\ Answer(t, 200, s, [session |-> s, n |-> sessions'[s].csrf])

(* ... and a request without one is told so. *)
DiscoverNothing(t) ==
    LET s == tab[t].cookie IN
    /\ Handles(t, "discover")
    /\ s # None => ~SessionValid(s, clock)
    /\ Answer(t, 200, s, NoToken)
    /\ UNCHANGED vars

StartLogin(t) ==
    /\ Handles(t, "login_start")
    /\ LoginStart /\ ceremonies'[NextCeremony].status = "open"
    /\ tab' = [tab EXCEPT ![t].phase = "answered", ![t].status = 200, ![t].ceremony = NextCeremony]
    /\ UNCHANGED <<jar, trouble>>

FinishLogin(t) ==
    /\ Handles(t, "login")
    /\ LoginFinish(t) /\ task'[t].ceremony = tab[t].ceremony
    /\ t \in Eager => task'[t].user \in Operators
    /\ UNCHANGED <<jar, tab, trouble>>

LoginDone(t) ==
    /\ LoginCommit(t) /\ sessions'[NextSession].status = "live"
    /\ Answer(t, 200, NextSession, [session |-> NextSession, n |-> 0])

LoginRefused(t) ==
    /\ Handles(t, "login")
    /\ ~CeremonyOpen(tab[t].ceremony, clock)
    /\ Answer(t, 401, tab[t].cookie, NoToken)
    /\ UNCHANGED vars

(* session_and_csrf and the session itself: refusals before the CSRF token  *)
(* is compared.                                                             *)
RefusedStatus(t) ==
    IF tab[t].cookie = None THEN 401
    ELSE IF tab[t].csrf = NoToken THEN 403
    ELSE IF ~SessionValid(tab[t].cookie, clock) THEN 401
    ELSE 0

Refuse(t) ==
    /\ Handles(t, "logout") \/ Handles(t, "mutate")
    /\ RefusedStatus(t) # 0
    /\ Answer(t, RefusedStatus(t), tab[t].cookie, NoToken)
    /\ UNCHANGED vars

Presented_AnyToken(t) == sessions[tab[t].cookie].csrf

(* The token as the session knows it: one it never had does not compare.   *)
Presented(t) == IF tab[t].csrf.session = tab[t].cookie THEN tab[t].csrf.n ELSE -1

(* authenticate_session in logout and in operator().  The handler goes on   *)
(* if the token is the session's, and for a mutation the role an operator's.*)
Authenticate(t) ==
    LET s == tab[t].cookie
        operator == sessions[s].user \in Operators
    IN  /\ \/ /\ Handles(t, "logout") /\ RefusedStatus(t) = 0
              /\ Authorize(t, s, Presented(t), clock, TRUE,
                           [Idle EXCEPT !.pc = "logout", !.session = s, !.user = sessions[s].user])
           \/ /\ Handles(t, "mutate") /\ RefusedStatus(t) = 0
              /\ Authorize(t, s, Presented(t), clock, operator,
                           [Idle EXCEPT !.pc = "operator", !.user = sessions[s].user])
        /\ IF task' = task THEN Answer(t, 403, s, NoToken) ELSE UNCHANGED <<jar, tab, trouble>>
    
LogoutDone(t) ==
    /\ LogoutCommit(t)
    /\ Answer(t, 204, None, NoToken)

MutationDone(t) ==
    /\ ApproveUser(t)
    /\ Answer(t, 200, tab[t].cookie, NoToken)

(* The user to approve exists already. *)
MutationConflict(t) ==
    /\ task[t].pc = "operator" /\ Users = UserId
    /\ Return(t)
    /\ Answer(t, 409, tab[t].cookie, NoToken)
    /\ UNCHANGED <<tables, clock>>

(* The login's ceremony was used meanwhile. *)
LoginOvertaken(t) ==
    /\ task[t].pc = "authentication" /\ ~CeremonyOpen(task[t].ceremony, task[t].now)
    /\ Return(t)
    /\ Answer(t, 401, tab[t].cookie, NoToken)
    /\ UNCHANGED <<tables, clock>>

(* The connection or the server fails under the request. *)
Fail(t) ==
    /\ Abort(t)
    /\ tab' = [tab EXCEPT ![t].phase = "idle", ![t].status = 0,
                          ![t].ceremony = IF tab[t].route = "login" THEN None ELSE @]
    /\ Trouble
    /\ UNCHANGED jar

Handler(t) ==
    \/ Discover(t) \/ DiscoverNothing(t)
    \/ StartLogin(t) \/ FinishLogin(t) \/ LoginDone(t) \/ LoginRefused(t) \/ LoginOvertaken(t)
    \/ Refuse(t) \/ Authenticate(t) \/ LogoutDone(t) \/ MutationDone(t) \/ MutationConflict(t)

TimePasses == Tick /\ Trouble /\ UNCHANGED <<jar, tab>>

BrowserNext ==
    \/ \E t \in Task : EagerSend(t) \/ OtherSend(t) \/ Receive(t) \/ Lose(t) \/ Handler(t) \/ Fail(t)
    \/ TimePasses

BrowserSpec == BrowserInit /\ [][BrowserNext]_browserVars

(* The server runs every request to its end, and the eager application goes *)
(* on; nobody else need do anything.                                        *)
BrowserFairness ==
    /\ \A t \in Task : WF_browserVars(Handler(t))
    /\ \A t \in Eager : WF_browserVars(EagerSend(t) \/ Receive(t))

FairBrowserSpec == BrowserSpec /\ BrowserFairness

-----------------------------------------------------------------------------

(* Whatever the tabs do to the cookie they share, a tab never acts under an *)
(* identity it has not been shown: a mutation or a logout that passes is on *)
(* the session, and by the principal, that the tab got its CSRF token for,  *)
(* although the cookie may have come from another tab's login.              *)
TabActsAsShown ==
    \A t \in Task :
        task[t].pc \in {"operator", "logout"} =>
            /\ tab[t].csrf.session = tab[t].cookie
            /\ task[t].user = sessions[tab[t].csrf.session].user

(* A tab that is refused because another tab's discovery or login replaced  *)
(* the CSRF token or the cookie gets its mutation through in the end, as    *)
(* long as the trouble others make ends.                                    *)
EagerTabSucceeds == \A t \in Eager : <>tab[t].done

=============================================================================
