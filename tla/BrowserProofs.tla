---------------------------- MODULE BrowserProofs ----------------------------
(***************************************************************************)
(* Proofs about Browser, for every number of tabs, users and sessions and  *)
(* any amount of trouble.                                                  *)
(***************************************************************************)
EXTENDS Browser, TLAPS

-----------------------------------------------------------------------------
(* The inductive invariant.                                                 *)

SessionsOK ==
    /\ DOMAIN sessions = SessionId
    /\ \A s \in SessionId : DOMAIN sessions[s] = DOMAIN NoSession /\ sessions[s].csrf \in Nat

TabFields == {"csrf", "ceremony", "phase", "route", "cookie", "status", "fresh", "done"}

CookiesOK ==
    /\ jar \in SessionId \cup {None}
    /\ DOMAIN tab = Task /\ DOMAIN task = Task
    /\ \A t \in Task :
          /\ DOMAIN tab[t] = TabFields /\ DOMAIN task[t] = DOMAIN Idle
          /\ tab[t].cookie \in SessionId \cup {None}

(* A tab waits for the handler of its request as long as it runs, and an    *)
(* authenticated handler runs for the session and the principal that the    *)
(* tab was shown.                                                           *)
HandlerOK(t) ==
    /\ task[t].pc # "idle" => tab[t].phase = "sent"
    /\ task[t].pc \in {"operator", "logout"} =>
          /\ tab[t].cookie \in SessionId /\ sessions[tab[t].cookie].status # "absent"
          /\ tab[t].csrf.session = tab[t].cookie
          /\ task[t].user = sessions[tab[t].cookie].user

TabInv == SessionsOK /\ CookiesOK /\ \A t \in Task : HandlerOK(t)

-----------------------------------------------------------------------------
(* What the steps do.                                                       *)

(* The rows of sessions change their user when they are inserted only. *)
SessionsStay ==
    \A s \in SessionId : sessions[s].status # "absent" =>
        sessions'[s].status # "absent" /\ sessions'[s].user = sessions[s].user

(* A step about tab t leaves the other tabs alone. *)
OnlyTab(t) ==
    \A o \in Task \ {t} : tab'[o] = tab[o] /\ task'[o] = task[o]

(* A step of one tab does not concern the handlers of the others. *)
LEMMA OtherHandlers ==
    ASSUME TabInv, SessionsStay, NEW t, OnlyTab(t), NEW o \in Task \ {t}
    PROVE  HandlerOK(o)'
<1>1. HandlerOK(o) /\ tab'[o] = tab[o] /\ task'[o] = task[o]
  BY DEF TabInv, OnlyTab
<1> QED
  BY <1>1 DEF HandlerOK, SessionsStay

(* What a step of one tab has to keep. *)
LEMMA InvOfParts ==
    ASSUME TabInv, SessionsStay, NEW t \in Task, OnlyTab(t), SessionsOK', CookiesOK', HandlerOK(t)'
    PROVE  TabInv'
  BY OtherHandlers DEF TabInv

(* A step that leaves the sessions. *)
LEMMA SameSessions ==
    ASSUME SessionsOK, sessions' = sessions
    PROVE  SessionsOK' /\ SessionsStay
  BY DEF SessionsOK, SessionsStay

(* session(), rotate_session_csrf() and delete_session() *)
LEMMA UpdatedSession ==
    ASSUME SessionsOK, NEW s \in SessionId, sessions[s].status # "absent",
           NEW now, NEW idle, session(s, now, idle) \/ rotate_session_csrf(s, now, idle)
    PROVE  SessionsOK' /\ SessionsStay
<1>1. CASE session(s, now, idle)
  BY <1>1 DEF SessionsOK, SessionsStay, session, NoSession
<1>2. CASE rotate_session_csrf(s, now, idle)
  BY <1>2 DEF SessionsOK, SessionsStay, rotate_session_csrf, NoSession
<1> QED
  BY <1>1, <1>2

(* A logout revokes a session, and the row keeps its user. *)
LEMMA DeletedSession ==
    ASSUME SessionsOK, NEW s, delete_session(s)
    PROVE  SessionsOK' /\ SessionsStay
  BY DEF SessionsOK, SessionsStay, delete_session, NoSession

(* The frame of a handler that has returned. *)
LEMMA Returned ==
    ASSUME CookiesOK, NEW t \in Task, Return(t)
    PROVE  /\ DOMAIN task' = Task /\ task'[t] = Idle
           /\ \A o \in Task \ {t} : task'[o] = task[o]
           /\ \A o \in Task : DOMAIN task'[o] = DOMAIN Idle
  BY DEF CookiesOK, Return

(* The cookies after a response. *)
LEMMA Answered ==
    ASSUME CookiesOK, NEW t \in Task, NEW status, NEW cookie \in SessionId \cup {None}, NEW fresh,
           Answer(t, status, cookie, fresh), DOMAIN task' = Task,
           \A o \in Task : DOMAIN task'[o] = DOMAIN Idle
    PROVE  CookiesOK' /\ \A o \in Task \ {t} : tab'[o] = tab[o]
  BY DEF CookiesOK, Answer, TabFields

(* A handler that does not run acts for nobody. *)
LEMMA IdleHandler ==
    ASSUME NEW t, task'[t] = Idle
    PROVE  HandlerOK(t)'
  BY DEF HandlerOK, Idle

-----------------------------------------------------------------------------
(* The browser.                                                            *)

(* Sending, receiving and losing, which run no handler. *)
LEMMA BrowserSteps ==
    ASSUME TabInv, NEW t \in Task,
           EagerSend(t) \/ OtherSend(t) \/ Receive(t) \/ Lose(t)
    PROVE  TabInv'
<1>1. SessionsOK /\ CookiesOK /\ HandlerOK(t)
  BY DEF TabInv
<1>2. UNCHANGED vars /\ tab[t].phase # "sent"
  BY DEF EagerSend, OtherSend, Receive, Lose, Send
<1>3. sessions' = sessions /\ task' = task /\ task[t].pc = "idle"
  BY <1>1, <1>2 DEF vars, HandlerOK
<1>4. SessionsOK' /\ SessionsStay
  BY <1>1, <1>3, SameSessions
<1>5. HandlerOK(t)'
  BY <1>3 DEF HandlerOK
<1>6. CookiesOK' /\ OnlyTab(t)
  <2>1. CASE \E route : Send(t, route)
    BY <1>1, <1>3, <2>1 DEF Send, CookiesOK, OnlyTab, TabFields
  <2>2. CASE Receive(t)
    BY <1>1, <1>3, <2>2 DEF Receive, CookiesOK, OnlyTab, TabFields
  <2>3. CASE Lose(t)
    BY <1>1, <1>3, <2>3 DEF Lose, CookiesOK, OnlyTab, TabFields
  <2> QED
    BY <2>1, <2>2, <2>3 DEF EagerSend, OtherSend
<1> QED
  BY <1>4, <1>5, <1>6, InvOfParts

-----------------------------------------------------------------------------
(* The handlers.                                                           *)

(* A handler that answers has returned. *)
LEMMA AnswerSteps ==
    ASSUME TabInv, NEW t \in Task, SessionsOK', SessionsStay,
           NEW status, NEW cookie \in SessionId \cup {None}, NEW fresh,
           Answer(t, status, cookie, fresh),
           Return(t) \/ (UNCHANGED task /\ task[t].pc = "idle")
    PROVE  TabInv'
<1>1. CookiesOK
  BY DEF TabInv
<1>2. /\ DOMAIN task' = Task /\ \A o \in Task : DOMAIN task'[o] = DOMAIN Idle
      /\ task'[t].pc = "idle" /\ \A o \in Task \ {t} : task'[o] = task[o]
  <2>1. CASE Return(t)
    BY <1>1, <2>1, Returned DEF Idle
  <2>2. CASE UNCHANGED task /\ task[t].pc = "idle"
    BY <1>1, <2>2 DEF CookiesOK
  <2> QED
    BY <2>1, <2>2
<1>3. CookiesOK' /\ OnlyTab(t)
  BY <1>1, <1>2, Answered DEF OnlyTab
<1>4. HandlerOK(t)'
  BY <1>2 DEF HandlerOK
<1> QED
  BY <1>3, <1>4, InvOfParts

(* The requests that need one store call, and the refused ones. *)
LEMMA DiscoverStep ==
    ASSUME TabInv, NEW t \in Task, Discover(t) \/ DiscoverNothing(t) \/ LoginRefused(t) \/ Refuse(t)
    PROVE  TabInv'
<1>1. SessionsOK /\ CookiesOK /\ tab[t].cookie \in SessionId \cup {None}
  BY DEF TabInv, CookiesOK
<1>2. task[t].pc = "idle"
  BY DEF Discover, DiscoverNothing, LoginRefused, Refuse, Handles
<1>3. CASE Discover(t)
  <2>1. UNCHANGED task /\ SessionDiscovery
    BY <1>3 DEF Discover, SessionDiscovery
  <2>2. PICK s \in SessionId, now \in Now : rotate_session_csrf(s, now, now + SessionIdleTtl)
    BY <2>1 DEF SessionDiscovery
  <2>3. sessions[s].status # "absent"
    BY <2>2 DEF rotate_session_csrf, SessionValid
  <2>4. SessionsOK' /\ SessionsStay
    BY <1>1, <2>2, <2>3, UpdatedSession
  <2>5. \E fresh : Answer(t, 200, tab[t].cookie, fresh)
    BY <1>3 DEF Discover
  <2> QED
    BY <1>1, <1>2, <2>1, <2>4, <2>5, AnswerSteps
<1>4. CASE DiscoverNothing(t) \/ LoginRefused(t) \/ Refuse(t)
  <2>1. UNCHANGED vars /\ \E status : Answer(t, status, tab[t].cookie, NoToken)
    BY <1>4 DEF DiscoverNothing, LoginRefused, Refuse
  <2>2. sessions' = sessions /\ UNCHANGED task
    BY <2>1 DEF vars
  <2> QED
    BY <1>1, <1>2, <2>1, <2>2, SameSessions, AnswerSteps
<1> QED
  BY <1>3, <1>4

(* A login before its transaction. *)
LEMMA LoginSteps ==
    ASSUME TabInv, NEW t \in Task, StartLogin(t) \/ FinishLogin(t)
    PROVE  TabInv'
<1>1. SessionsOK /\ CookiesOK /\ task[t].pc = "idle" /\ tab[t].phase = "sent"
  BY DEF TabInv, StartLogin, FinishLogin, Handles
<1>2. CASE StartLogin(t)
  <2>1. sessions' = sessions /\ task' = task
    BY <1>2 DEF StartLogin, LoginStart, insert_ceremony
  <2>2. CookiesOK' /\ OnlyTab(t)
    BY <1>1, <1>2, <2>1 DEF StartLogin, CookiesOK, OnlyTab, TabFields
  <2>3. HandlerOK(t)'
    BY <1>1, <2>1 DEF HandlerOK
  <2> QED
    BY <1>1, <2>1, <2>2, <2>3, SameSessions, InvOfParts
<1>3. CASE FinishLogin(t)
  <2>1. LoginFinish(t) /\ UNCHANGED <<jar, tab>>
    BY <1>3 DEF FinishLogin
  <2>2. sessions' = sessions
    BY <2>1 DEF LoginFinish, tables
  <2>3. PICK frame : /\ task' = [task EXCEPT ![t] = frame] /\ frame.pc = "authentication"
                     /\ DOMAIN frame = DOMAIN Idle
    <3>1. PICK m \in CeremonyId, u \in Users, now \in Now :
             Continue(t, [Idle EXCEPT !.pc = "authentication", !.now = now, !.ceremony = m,
                                      !.user = u, !.epoch = users[u].epoch,
                                      !.began = Invalidations(u)])
      BY <2>1 DEF LoginFinish
    <3> DEFINE new == [Idle EXCEPT !.pc = "authentication", !.now = now, !.ceremony = m,
                                   !.user = u, !.epoch = users[u].epoch,
                                   !.began = Invalidations(u)]
    <3>2. new.pc = "authentication" /\ DOMAIN new = DOMAIN Idle
      BY DEF Idle
    <3> HIDE DEF new
    <3>3. task' = [task EXCEPT ![t] = new]
      BY <3>1 DEF Continue, new
    <3> QED
      BY <3>2, <3>3
  <2>4. CookiesOK' /\ OnlyTab(t)
    BY <1>1, <2>1, <2>3 DEF CookiesOK, OnlyTab
  <2>5. HandlerOK(t)'
    BY <1>1, <2>1, <2>3 DEF HandlerOK, CookiesOK
  <2> QED
    BY <1>1, <2>2, <2>4, <2>5, SameSessions, InvOfParts
<1> QED
  BY <1>2, <1>3

(* A login inserts a session that had no row, and its cookie replaces another. *)
LEMMA LoginDoneStep ==
    ASSUME TabInv, NEW t \in Task, LoginDone(t)
    PROVE  TabInv'
<1>1. SessionsOK /\ CookiesOK
  BY DEF TabInv
<1>2. LoginCommit(t) /\ Return(t) /\ \E fresh : Answer(t, 200, NextSession, fresh)
  BY DEF LoginDone, LoginCommit
<1>3. PICK s \in SessionId : \E row :
         /\ sessions[s].status = "absent" /\ sessions' = [sessions EXCEPT ![s] = row]
         /\ row.csrf = 0 /\ DOMAIN row = DOMAIN NoSession
  <2> DEFINE Row(c) ==
        [status     |-> "live",
         user       |-> task[t].user,
         epoch      |-> task[t].epoch,
         csrf       |-> 0,
         idle       |-> task[t].now + SessionIdleTtl,
         absolute   |-> task[t].now + SessionAbsoluteTtl,
         credential |-> c,
         began      |-> task[t].began]
  <2>1. PICK c \in CredentialId, s \in SessionId :
           complete_authentication(task[t].ceremony, c, s, Row(c), task[t].now)
    BY <1>2 DEF LoginCommit
  <2>2. Row(c).csrf = 0 /\ DOMAIN Row(c) = DOMAIN NoSession
    BY DEF NoSession
  <2> HIDE DEF Row
  <2> QED
    BY <2>1, <2>2 DEF complete_authentication
<1>4. NextSession \in SessionId
  BY <1>3 DEF NextSession
<1>5. SessionsOK' /\ SessionsStay
  BY <1>1, <1>3 DEF SessionsOK, SessionsStay
<1> QED
  BY <1>2, <1>4, <1>5, AnswerSteps

(* The token that a tab presents compares equal only if it was shown for    *)
(* the session of the cookie.                                               *)
LEMMA AuthenticateStep ==
    ASSUME TabInv, NEW t \in Task, Authenticate(t)
    PROVE  TabInv'
<1>1. PICK s : s = tab[t].cookie
  OBVIOUS
<1>2. SessionsOK /\ CookiesOK /\ task[t].pc = "idle" /\ tab[t].phase = "sent" /\ RefusedStatus(t) = 0
  BY DEF TabInv, Authenticate, Handles
<1>3. s \in SessionId
  <2>1. s = None => RefusedStatus(t) = 401
    BY <1>1 DEF RefusedStatus
  <2> QED
    BY <1>1, <1>2, <2>1 DEF CookiesOK
<1>4. PICK allowed, frame :
         /\ Authorize(t, s, Presented(t), clock, allowed, frame)
         /\ frame.pc \in {"operator", "logout"} /\ frame.user = sessions[s].user
         /\ DOMAIN frame = DOMAIN Idle
  <2> DEFINE out == [Idle EXCEPT !.pc = "logout", !.session = s, !.user = sessions[s].user]
             op == [Idle EXCEPT !.pc = "operator", !.user = sessions[s].user]
  <2>1. /\ out.pc = "logout" /\ out.user = sessions[s].user /\ DOMAIN out = DOMAIN Idle
        /\ op.pc = "operator" /\ op.user = sessions[s].user /\ DOMAIN op = DOMAIN Idle
    BY DEF Idle
  <2>2. \/ Authorize(t, s, Presented(t), clock, TRUE, out)
        \/ Authorize(t, s, Presented(t), clock, sessions[s].user \in Operators, op)
    BY <1>1 DEF Authenticate
  <2> HIDE DEF out, op
  <2> QED
    BY <2>1, <2>2
<1>5. session(s, clock, clock + SessionIdleTtl) /\ SessionValid(s, clock)
  BY <1>4 DEF Authorize, session
<1>6. SessionsOK' /\ SessionsStay
  BY <1>2, <1>3, <1>5, UpdatedSession DEF SessionValid
<1>7. CASE task' = task
  <2>1. Answer(t, 403, s, NoToken)
    BY <1>1, <1>7 DEF Authenticate
  <2> QED
    BY <1>2, <1>3, <1>6, <1>7, <2>1, AnswerSteps
<1>8. CASE task' # task
  <2>1. UNCHANGED <<jar, tab>>
    BY <1>8 DEF Authenticate
  <2>2. Presented(t) = sessions[s].csrf /\ task' = [task EXCEPT ![t] = frame]
    BY <1>4, <1>8 DEF Authorize, Continue
  <2>3. tab[t].csrf.session = s
    BY <1>1, <1>2, <1>3, <2>2 DEF Presented, SessionsOK
  <2>4. CookiesOK' /\ OnlyTab(t)
    BY <1>2, <1>4, <2>1, <2>2 DEF CookiesOK, OnlyTab
  <2>5. task'[t] = frame /\ tab'[t] = tab[t] /\ sessions[s].status # "absent"
    BY <1>2, <1>5, <2>1, <2>2 DEF CookiesOK, SessionValid
  <2>6. HandlerOK(t)'
    BY <1>1, <1>2, <1>3, <1>4, <1>6, <2>3, <2>5 DEF HandlerOK, SessionsStay
  <2> QED
    BY <1>6, <2>4, <2>6, InvOfParts
<1> QED
  BY <1>7, <1>8

(* The ends of the mutations, of a logout and of a login that came too late. *)
LEMMA EndSteps ==
    ASSUME TabInv, NEW t \in Task,
           LogoutDone(t) \/ MutationDone(t) \/ MutationConflict(t) \/ LoginOvertaken(t)
    PROVE  TabInv'
<1>1. SessionsOK /\ CookiesOK /\ tab[t].cookie \in SessionId \cup {None}
  BY DEF TabInv, CookiesOK
<1>2. Return(t) /\ \E status : \E cookie \in SessionId \cup {None} : Answer(t, status, cookie, NoToken)
  BY <1>1 DEF LogoutDone, MutationDone, MutationConflict, LoginOvertaken, LogoutCommit, ApproveUser
<1>3. SessionsOK' /\ SessionsStay
  <2>1. CASE LogoutDone(t)
    BY <1>1, <2>1, DeletedSession DEF LogoutDone, LogoutCommit
  <2>2. CASE MutationDone(t) \/ MutationConflict(t) \/ LoginOvertaken(t)
    BY <1>1, <2>2, SameSessions
    DEF MutationDone, MutationConflict, LoginOvertaken, ApproveUser, approve_user_with_setup, tables
  <2> QED
    BY <2>1, <2>2
<1> QED
  BY <1>2, <1>3, AnswerSteps

(* A handler that fails. *)
LEMMA FailStep ==
    ASSUME TabInv, NEW t \in Task, Fail(t)
    PROVE  TabInv'
<1>1. SessionsOK /\ CookiesOK
  BY DEF TabInv
<1>2. Return(t) /\ sessions' = sessions /\ jar' = jar
  BY DEF Fail, Abort, tables
<1>3. CookiesOK' /\ OnlyTab(t) /\ task'[t] = Idle
  BY <1>1, <1>2, Returned DEF Fail, CookiesOK, OnlyTab, TabFields
<1> QED
  BY <1>1, <1>2, <1>3, SameSessions, IdleHandler, InvOfParts

(* The clock, and nothing. *)
LEMMA TimeStep ==
    ASSUME TabInv, TimePasses \/ UNCHANGED browserVars
    PROVE  TabInv'
<1>1. sessions' = sessions /\ UNCHANGED <<task, tab, jar>>
  BY DEF TimePasses, Tick, tables, browserVars, vars
<1> QED
  BY <1>1 DEF TabInv, SessionsOK, CookiesOK, HandlerOK

(* No handler runs at the start. *)
LEMMA TabStart ==
    ASSUME BrowserInit
    PROVE  TabInv
<1>1. SessionsOK
  BY DEF BrowserInit, Init, SessionsOK, NoSession
<1>2. jar \in SessionId \cup {None}
  BY InitialAssumption DEF BrowserInit
<1>3. CookiesOK
  BY <1>2 DEF BrowserInit, Init, CookiesOK, TabFields
<1>4. \A t \in Task : HandlerOK(t)
  BY DEF BrowserInit, Init, HandlerOK, Idle
<1> QED
  BY <1>1, <1>3, <1>4 DEF TabInv

(* However the tabs share and replace the cookie, every authenticated       *)
(* handler runs for the session and the principal that its tab was shown,   *)
(* and the tab waits for it.                                                *)
THEOREM TabInvariant == BrowserSpec => []TabInv
<1>1. BrowserInit => TabInv
  BY TabStart
<1>2. TabInv /\ [BrowserNext]_browserVars => TabInv'
  <2> SUFFICES ASSUME TabInv, [BrowserNext]_browserVars
               PROVE  TabInv'
    OBVIOUS
  <2>1. CASE TimePasses \/ UNCHANGED browserVars
    BY <2>1, TimeStep
  <2>2. ASSUME NEW t \in Task,
               EagerSend(t) \/ OtherSend(t) \/ Receive(t) \/ Lose(t) \/ Handler(t) \/ Fail(t)
        PROVE  TabInv'
    BY <2>2, BrowserSteps, DiscoverStep, LoginSteps, LoginDoneStep, AuthenticateStep, EndSteps,
       FailStep DEF Handler
  <2> QED
    BY <2>1, <2>2 DEF BrowserNext
<1> QED
  BY <1>1, <1>2, PTL DEF BrowserSpec

(* A mutation or a logout that passes is on the session, and by the         *)
(* principal, that the tab got its CSRF token for.                          *)
THEOREM TabsActAsShown == BrowserSpec => []TabActsAsShown
<1>1. TabInv => TabActsAsShown
  BY DEF TabInv, HandlerOK, TabActsAsShown
<1> QED
  BY <1>1, TabInvariant, PTL

=============================================================================
