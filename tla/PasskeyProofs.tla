---------------------------- MODULE PasskeyProofs ----------------------------
(***************************************************************************)
(* Proofs about Passkeys: the sign counter, the responses that open        *)
(* sessions, and the authenticators a user registers.                      *)
(*                                                                         *)
(* Every step with the engine is a step of the service, so that what is    *)
(* proved of AuthService holds here as well.                               *)
(***************************************************************************)
EXTENDS Passkeys, AuthorityProofs

-----------------------------------------------------------------------------
(* Passkeys is AuthService with more state.                                 *)

(* The engine only restricts what the service does. *)
LEMMA PasskeyStepIsStep ==
    ASSUME [PasskeyNext]_passkeyVars
    PROVE  [Next]_vars
  BY DEF PasskeyNext, StartSetup, ReadExcluded, InsertSetup, CreatePasskey, FinishRegistration,
     CommitRegistration, StartLogin, Sign, FinishLogin, VerifyLogin, CommitLogin, EndEarly,
     Elsewhere, passkeyVars, Next, RequestStep

(* The service behaves as AuthService whatever the engine and the           *)
(* authenticators do, so its theorems apply.                                *)
THEOREM PasskeysImplementService == PasskeySpec => Spec
<1>1. PasskeyInit => Init
  BY DEF PasskeyInit
<1>2. [PasskeyNext]_passkeyVars => [Next]_vars
  BY PasskeyStepIsStep
<1> QED
  BY <1>1, <1>2, PTL DEF PasskeySpec, Spec

-----------------------------------------------------------------------------
(* The inductive invariant of logins.                                       *)

Response == [ceremony : CeremonyId, credential : CredentialId, counter : Nat]

Entry == [read : BOOLEAN, exclude : SUBSET CredentialId, authenticator : Authenticator \cup {None},
          response : Response \cup {NoResponse}, updated : Nat]

EngineTypeOK ==
    /\ home \in [CredentialId -> Authenticator \cup {None}]
    /\ counter \in [CredentialId -> Nat]
    /\ stored \in [CredentialId -> Nat]
    /\ excluded \in [CeremonyId -> SUBSET CredentialId]
    /\ created \subseteq [ceremony : CeremonyId, authenticator : Authenticator]
    /\ signed \subseteq Response
    /\ verifying \in [Task -> Entry]
    /\ opened \in [SessionId -> Response \cup {NoResponse}]

(* A login that was verified writes back the counter of its own response:   *)
(* the engine accepts no counter below the one it read.                     *)
Verified(frame, entry, responses) ==
    frame.pc = "authentication" =>
        /\ entry.response \in responses
        /\ frame.ceremony = entry.response.ceremony
        /\ entry.read => entry.updated = entry.response.counter

LoginsAreVerified == \A p \in Task : Verified(task[p], verifying[p], signed)

(* The response that opened a session is spent with its ceremony. *)
OpenedIsSpent ==
    \A s \in SessionId : opened[s] # NoResponse =>
        /\ ceremonies[opened[s].ceremony].status = "consumed"
        /\ sessions[s].status # "absent"

(* A stored counter came with a session. *)
StoredWasOpened ==
    \A c \in CredentialId : stored[c] # 0 =>
        \E s \in SessionId : opened[s].credential = c /\ opened[s].counter >= stored[c]

LoginInv ==
    /\ EngineTypeOK
    /\ LoginsAreVerified
    /\ OpenedIsSpent
    /\ StoredWasOpened
    /\ ResponseOpensOneSession

-----------------------------------------------------------------------------
(* Facts about rows and responses.                                          *)

(* No transaction changes what a ceremony is for, or opens it again. *)
CeremonyRowsKept ==
    \A m \in CeremonyId : ceremonies[m].status # "absent" =>
        /\ ceremonies'[m].status # "absent"
        /\ ceremonies'[m].kind = ceremonies[m].kind
        /\ ceremonies'[m].user = ceremonies[m].user
        /\ ceremonies'[m].capability = ceremonies[m].capability
        /\ ceremonies[m].status = "consumed" => ceremonies'[m].status = "consumed"

(* Every UPDATE of auth_ceremonies sets consumed_at only. *)
LEMMA CeremonyRowHistory ==
    ASSUME TablesTypeOK, Transaction
    PROVE  CeremonyRowsKept
<1>1. ASSUME NEW m \in CeremonyId, ceremonies' = [ceremonies EXCEPT ![m].status = "consumed"]
      PROVE  CeremonyRowsKept
  BY <1>1 DEF CeremonyRowsKept, TablesTypeOK, CeremonyRow
<1>2. ASSUME NEW m \in CeremonyId, NEW kind \in CeremonyKind, NEW u \in UserId \cup {None},
             NEW k \in CapabilityId \cup {None}, NEW expires \in Nat,
             insert_ceremony(m, kind, u, k, expires)
      PROVE  CeremonyRowsKept
  BY <1>2 DEF insert_ceremony, CeremonyRowsKept, TablesTypeOK
<1>3. ASSUME NEW u, ceremonies' = ConsumeCeremonies(u)
      PROVE  CeremonyRowsKept
  BY <1>3 DEF ConsumeCeremonies, CeremonyRowsKept, TablesTypeOK, CeremonyRow
<1>4. CASE rotate_all_auth_epochs
  BY <1>4 DEF rotate_all_auth_epochs, CeremonyRowsKept, TablesTypeOK, CeremonyRow
<1>5. ASSUME UNCHANGED ceremonies
      PROVE  CeremonyRowsKept
  BY <1>5 DEF CeremonyRowsKept
<1> QED
  BY <1>1, <1>2, <1>3, <1>4, <1>5 DEF Transaction, tables, insert_user,
     approve_user_with_setup, complete_registration, complete_authentication, SessionWrite,
     delete_session, create_recovery, approve_recovery, issue_recovery_setup, break_glass

LEMMA NoResponseIsNone ==
    /\ NoResponse \notin Response
    /\ NoResponse.ceremony = None /\ NoResponse.credential = None
    /\ None \notin CeremonyId /\ None \notin CredentialId
    /\ Nothing \in Entry
  BY NoneAssumption DEF NoResponse, Response, Nothing, Entry

(* What is accepted is stored. *)
LEMMA AcceptedIsStored ==
    ASSUME NEW old \in Nat, NEW reported \in Nat, Accepts(old, reported)
    PROVE  UpdatedCounter(old, reported) = reported
  BY DEF Accepts, UpdatedCounter

-----------------------------------------------------------------------------
(* Each step preserves the invariant of logins.                             *)

(* A request's entry is replaced. *)
LEMMA NotedType ==
    ASSUME EngineTypeOK, NEW p \in Task, NEW entry \in Entry, Note(p, entry)
    PROVE  verifying' \in [Task -> Entry]
  BY DEF EngineTypeOK, Note

(* The engine's state keeps its types. *)
LEMMA EngineTypes ==
    ASSUME EngineTypeOK, TypeOK, PasskeyNext
    PROVE  EngineTypeOK'
<1> USE NoResponseIsNone
<1>1. ASSUME NEW p \in Task, ReadExcluded(p)
      PROVE  EngineTypeOK'
  <2>1. [Nothing EXCEPT !.read = TRUE, !.exclude = CredentialsOf(task[p].user)] \in Entry
    BY DEF Nothing, Entry, CredentialsOf
  <2> QED
    BY <1>1, <2>1, NotedType DEF ReadExcluded, EngineTypeOK
<1>2. ASSUME NEW p \in Task, InsertSetup(p)
      PROVE  EngineTypeOK'
  BY <1>2, NotedType DEF InsertSetup, EngineTypeOK, Entry
<1>3. ASSUME NEW m \in CeremonyId, NEW a \in Authenticator, CreatePasskey(m, a)
      PROVE  EngineTypeOK'
  BY <1>3 DEF CreatePasskey, EngineTypeOK
<1>4. ASSUME NEW p \in Task, FinishRegistration(p)
      PROVE  EngineTypeOK'
  <2>1. PICK response \in created :
           /\ Note(p, [Nothing EXCEPT !.authenticator = response.authenticator])
           /\ UNCHANGED <<home, counter, stored, excluded, created, signed, opened>>
    BY <1>4 DEF FinishRegistration
  <2>2. [Nothing EXCEPT !.authenticator = response.authenticator] \in Entry
    BY DEF Nothing, Entry, EngineTypeOK
  <2> QED
    BY <2>1, <2>2, NotedType DEF EngineTypeOK
<1>5. ASSUME NEW p \in Task, CommitRegistration(p)
      PROVE  EngineTypeOK'
  <2>1. verifying[p].authenticator \in Authenticator \cup {None}
    BY DEF EngineTypeOK, Entry
  <2> QED
    BY <1>5, <2>1, NotedType DEF CommitRegistration, EngineTypeOK
<1>6. ASSUME NEW m \in CeremonyId, NEW c \in CredentialId, Sign(m, c)
      PROVE  EngineTypeOK'
  BY <1>6 DEF Sign, EngineTypeOK, Response
<1>7. ASSUME NEW p \in Task, FinishLogin(p)
      PROVE  EngineTypeOK'
  <2>1. PICK response \in signed :
           /\ Note(p, [Nothing EXCEPT !.response = response])
           /\ UNCHANGED <<home, counter, stored, excluded, created, signed, opened>>
    BY <1>7 DEF FinishLogin
  <2>2. [Nothing EXCEPT !.response = response] \in Entry
    BY DEF Nothing, Entry, EngineTypeOK
  <2> QED
    BY <2>1, <2>2, NotedType DEF EngineTypeOK
<1>8. ASSUME NEW p \in Task, VerifyLogin(p)
      PROVE  EngineTypeOK'
  <2> DEFINE response == verifying[p].response
             c == response.credential
  <2>1. c \in CredentialId /\ response \in Response \cup {NoResponse} /\ verifying[p] \in Entry
    BY <1>8 DEF VerifyLogin, CredentialsOf, EngineTypeOK, Entry
  <2>2. UpdatedCounter(stored[c], response.counter) \in Nat
    BY <2>1 DEF UpdatedCounter, EngineTypeOK, Response
  <2>3. [verifying[p] EXCEPT !.read = TRUE,
                             !.updated = UpdatedCounter(stored[c], response.counter)] \in Entry
    BY <2>1, <2>2 DEF Entry
  <2> QED
    BY <1>8, <2>3, NotedType DEF VerifyLogin, EngineTypeOK
<1>9. ASSUME NEW p \in Task, CommitLogin(p)
      PROVE  EngineTypeOK'
  <2>1. verifying[p].updated \in Nat /\ verifying[p].response \in Response \cup {NoResponse}
    BY DEF EngineTypeOK, Entry
  <2> QED
    BY <1>9, <2>1, NotedType DEF CommitLogin, EngineTypeOK
<1>10. ASSUME NEW p \in Task, EndEarly(p)
       PROVE  EngineTypeOK'
  BY <1>10, NotedType DEF EndEarly, EngineTypeOK
<1>11. ASSUME UNCHANGED engineVars
       PROVE  EngineTypeOK'
  BY <1>11 DEF engineVars, EngineTypeOK
<1> QED
  BY <1>1, <1>2, <1>3, <1>4, <1>5, <1>6, <1>7, <1>8, <1>9, <1>10, <1>11
  DEF PasskeyNext, StartSetup, StartLogin, Elsewhere

(* One request's frame and entry are replaced. *)
LEMMA FrameReplaced ==
    ASSUME TypeOK, EngineTypeOK, LoginsAreVerified, NEW p \in Task, NEW frame, NEW entry,
           task' = [task EXCEPT ![p] = frame], verifying' = [verifying EXCEPT ![p] = entry],
           signed \subseteq signed', Verified(frame, entry, signed')
    PROVE  LoginsAreVerified'
<1>1. ASSUME NEW q \in Task
      PROVE  Verified(task'[q], verifying'[q], signed')
  <2>1. CASE q = p
    BY <2>1 DEF TypeOK, EngineTypeOK
  <2>2. CASE q # p
    BY <2>2 DEF LoginsAreVerified, Verified, TypeOK, EngineTypeOK
  <2> QED
    BY <2>1, <2>2
<1> QED
  BY <1>1 DEF LoginsAreVerified

(* The same if the entry stays. *)
LEMMA FrameContinued ==
    ASSUME TypeOK, LoginsAreVerified, NEW p \in Task, NEW frame, frame.pc # "authentication",
           task' = [task EXCEPT ![p] = frame], UNCHANGED <<verifying, signed>>
    PROVE  LoginsAreVerified'
  BY DEF LoginsAreVerified, Verified, TypeOK

(* A login in flight keeps the response it presented, and what it will      *)
(* write to the counter is that of its response.                            *)
LEMMA LoginsStayVerified ==
    ASSUME TypeOK, EngineTypeOK, LoginsAreVerified, PasskeyNext
    PROVE  LoginsAreVerified'
<1>0. /\ Idle.pc = "idle" /\ \A p \in Task : task[p] \in Frame
      /\ DOMAIN task = Task /\ DOMAIN verifying = Task
      /\ \A p \in Task : task = [task EXCEPT ![p] = task[p]]
      /\ \A p \in Task : verifying = [verifying EXCEPT ![p] = verifying[p]]
  BY DEF Idle, TypeOK, EngineTypeOK
<1>1. ASSUME NEW p \in Task, StartSetup(p)
      PROVE  LoginsAreVerified'
  <2>1. PICK k \in CapabilityId, now \in Now :
           task' = [task EXCEPT ![p] = [Idle EXCEPT !.pc = "setup_insert", !.now = now,
                                        !.user = capabilities[k].user, !.capability = k]]
    BY <1>1 DEF StartSetup, SetupStart, Continue
  <2>2. [Idle EXCEPT !.pc = "setup_insert", !.now = now,
                     !.user = capabilities[k].user, !.capability = k].pc = "setup_insert"
    BY DEF Idle
  <2> QED
    BY <1>1, <2>1, <2>2, FrameContinued DEF StartSetup, engineVars
<1>2. ASSUME NEW p \in Task, ReadExcluded(p)
      PROVE  LoginsAreVerified'
  <2>1. /\ task[p].pc # "authentication" /\ UNCHANGED <<task, signed>>
        /\ Note(p, [Nothing EXCEPT !.read = TRUE, !.exclude = CredentialsOf(task[p].user)])
    BY <1>2 DEF ReadExcluded, vars
  <2> QED
    BY <1>0, <2>1, FrameReplaced DEF Note, Verified
<1>3. ASSUME NEW p \in Task, Return(p), Note(p, Nothing), UNCHANGED signed
      PROVE  LoginsAreVerified'
  BY <1>0, <1>3, FrameReplaced DEF Return, Note, Verified
<1>4. ASSUME NEW p \in Task, FinishRegistration(p)
      PROVE  LoginsAreVerified'
  <2>1. PICK response \in created :
           /\ RegistrationFinish(p)
           /\ Note(p, [Nothing EXCEPT !.authenticator = response.authenticator])
           /\ UNCHANGED signed
    BY <1>4 DEF FinishRegistration
  <2>2. PICK m \in CeremonyId, now \in Now :
           task' = [task EXCEPT ![p] = [Idle EXCEPT !.pc = "registration", !.now = now,
                              !.ceremony = m, !.capability = ceremonies[m].capability]]
    BY <2>1 DEF RegistrationFinish, Continue
  <2>3. [Idle EXCEPT !.pc = "registration", !.now = now,
                     !.ceremony = m, !.capability = ceremonies[m].capability].pc = "registration"
    BY DEF Idle
  <2> QED
    BY <2>1, <2>2, <2>3, FrameReplaced DEF Note, Verified
<1>5. ASSUME NEW p \in Task, FinishLogin(p)
      PROVE  LoginsAreVerified'
  <2>1. PICK response \in signed :
           /\ LoginFinish(p) /\ task'[p].ceremony = response.ceremony
           /\ Note(p, [Nothing EXCEPT !.response = response])
           /\ UNCHANGED signed
    BY <1>5 DEF FinishLogin
  <2>2. PICK frame : task' = [task EXCEPT ![p] = frame]
    BY <2>1 DEF LoginFinish, Continue
  <2>3. frame.ceremony = response.ceremony
    BY <1>0, <2>1, <2>2
  <2>4. PICK entry : entry = [Nothing EXCEPT !.response = response]
    OBVIOUS
  <2>5. entry.response = response /\ ~entry.read
    BY <2>4 DEF Nothing
  <2>6. Verified(frame, entry, signed)
    BY <2>3, <2>5 DEF Verified
  <2> QED
    BY <2>1, <2>2, <2>4, <2>6, FrameReplaced DEF Note
<1>6. ASSUME NEW p \in Task, VerifyLogin(p)
      PROVE  LoginsAreVerified'
  <2> DEFINE response == verifying[p].response
             c == response.credential
             updated == UpdatedCounter(stored[c], response.counter)
             entry == [verifying[p] EXCEPT !.read = TRUE, !.updated = updated]
  <2>1. /\ task[p].pc = "authentication" /\ c \in CredentialId
        /\ Accepts(stored[c], response.counter)
        /\ Note(p, entry) /\ UNCHANGED <<task, signed>>
    BY <1>6 DEF VerifyLogin, CredentialsOf, vars
  <2>2. /\ response \in signed /\ task[p].ceremony = response.ceremony /\ verifying[p] \in Entry
    BY <2>1 DEF LoginsAreVerified, Verified, EngineTypeOK
  <2>3. response.counter \in Nat /\ stored[c] \in Nat
    BY <2>1, <2>2 DEF EngineTypeOK, Response
  <2>4. updated = response.counter
    BY <2>1, <2>3, AcceptedIsStored
  <2>5. entry.response = response /\ entry.updated = response.counter
    BY <2>2, <2>4 DEF Entry
  <2>6. Verified(task[p], entry, signed)
    BY <2>2, <2>5 DEF Verified
  <2> HIDE DEF entry
  <2> QED
    BY <1>0, <2>1, <2>6, FrameReplaced DEF Note
<1>7. ASSUME UNCHANGED <<task, verifying>>, signed \subseteq signed'
      PROVE  LoginsAreVerified'
  BY <1>7 DEF LoginsAreVerified, Verified
<1>8. ASSUME NEW p \in Task, OperatorRequest(p), UNCHANGED engineVars
      PROVE  LoginsAreVerified'
  <2>1. PICK s \in SessionId :
           \/ UNCHANGED task
           \/ task' = [task EXCEPT ![p] = [Idle EXCEPT !.pc = "operator", !.user = sessions[s].user]]
    BY <1>8 DEF OperatorRequest, Authorize, Continue
  <2>2. [Idle EXCEPT !.pc = "operator", !.user = sessions[s].user].pc = "operator"
    BY DEF Idle
  <2> QED
    BY <1>7, <1>8, <2>1, <2>2, FrameContinued DEF engineVars
<1>9. ASSUME NEW p \in Task, ApproveRecovery(p) \/ IssueRecoverySetup(p) \/ ApproveUser(p),
             UNCHANGED engineVars
      PROVE  LoginsAreVerified'
  <2>1. task' = [task EXCEPT ![p] = Idle]
    BY <1>9 DEF ApproveRecovery, IssueRecoverySetup, ApproveUser, Return
  <2> QED
    BY <1>0, <1>9, <2>1, FrameContinued DEF engineVars
<1>10. ASSUME RecoveryRequest \/ BreakGlass \/ Tick \/ LoginStart, UNCHANGED engineVars
       PROVE  LoginsAreVerified'
  BY <1>7, <1>10 DEF RecoveryRequest, BreakGlass, Tick, LoginStart, engineVars
<1>11. ASSUME NEW p \in Task, InsertSetup(p) \/ CommitRegistration(p) \/ CommitLogin(p) \/ EndEarly(p)
       PROVE  LoginsAreVerified'
  BY <1>3, <1>11 DEF InsertSetup, SetupInsert, CommitRegistration, RegistrationCommit, CommitLogin,
     LoginCommit, EndEarly, Abort
<1>12. ASSUME NEW m, NEW c, CreatePasskey(m, c) \/ Sign(m, c)
       PROVE  LoginsAreVerified'
  BY <1>7, <1>12 DEF CreatePasskey, Sign, vars
<1> QED
  BY <1>1, <1>2, <1>4, <1>5, <1>6, <1>8, <1>9, <1>10, <1>11, <1>12
  DEF PasskeyNext, Elsewhere, StartLogin

(* A step that writes neither a counter nor the history of sessions. *)
LEMMA OpenedStays ==
    ASSUME LoginInv, CeremonyRowsKept, SessionsKeep, UNCHANGED <<stored, opened>>
    PROVE  OpenedIsSpent' /\ StoredWasOpened' /\ ResponseOpensOneSession'
<1>1. \A s \in SessionId : opened[s] # NoResponse => opened[s].ceremony \in CeremonyId
  BY DEF LoginInv, EngineTypeOK, Response
<1>2. OpenedIsSpent'
  <2> SUFFICES ASSUME NEW s \in SessionId, opened[s] # NoResponse
               PROVE  /\ ceremonies'[opened[s].ceremony].status = "consumed"
                      /\ sessions'[s].status # "absent"
    BY DEF OpenedIsSpent
  <2>1. ceremonies[opened[s].ceremony].status = "consumed" /\ sessions[s].status # "absent"
    BY DEF LoginInv, OpenedIsSpent
  <2> QED
    BY <1>1, <2>1 DEF CeremonyRowsKept, SessionsKeep
<1> QED
  BY <1>2 DEF LoginInv, StoredWasOpened, ResponseOpensOneSession

(* A login spends its response, and stores the counter that came with it. *)
LEMMA CommitLoginOpens ==
    ASSUME SessionInv, LoginInv, CeremonyRowsKept, SessionsKeep, NEW p \in Task, CommitLogin(p)
    PROVE  OpenedIsSpent' /\ StoredWasOpened' /\ ResponseOpensOneSession'
<1> DEFINE r == verifying[p].response
           m == r.ceremony
           c == r.credential
<1>1. /\ verifying[p].read /\ LoginCommit(p) /\ stored' = [stored EXCEPT ![c] = verifying[p].updated]
  BY DEF CommitLogin
<1>2. task[p].pc = "authentication" /\ task[p].ceremony = m /\ r \in signed
      /\ verifying[p].updated = r.counter
  BY <1>1 DEF LoginCommit, LoginInv, LoginsAreVerified, Verified
<1>3. r \in Response /\ m \in CeremonyId /\ c \in CredentialId /\ r.counter \in Nat
  BY <1>2 DEF LoginInv, EngineTypeOK, Response
<1>4. /\ ceremonies[m].status = "open" /\ ceremonies'[m].status = "consumed"
      /\ \E t \in SessionId : /\ sessions[t].status = "absent"
                              /\ \A q \in SessionId : q # t => sessions'[q] = sessions[q]
  BY <1>1, <1>2, <1>3 DEF LoginCommit, complete_authentication, CeremonyOpen, SessionInv,
     RegistrationInv, TypeOK, TablesTypeOK, CeremonyRow
<1>5. PICK s \in SessionId : sessions'[s] # sessions[s] /\ opened' = [opened EXCEPT ![s] = r]
  BY DEF CommitLogin
<1>6. opened[s] = NoResponse /\ sessions'[s].status # "absent"
  BY <1>4, <1>5 DEF LoginInv, OpenedIsSpent, SessionsKeep
<1> HIDE DEF r
<1>7. /\ opened'[s] = r /\ \A q \in SessionId : q # s => opened'[q] = opened[q]
      /\ stored'[c] = r.counter
      /\ \A d \in CredentialId : d # c => stored'[d] = stored[d]
  BY <1>1, <1>2, <1>3, <1>5 DEF LoginInv, EngineTypeOK
<1>8. ASSUME NEW q \in SessionId, q # s, opened[q] # NoResponse
      PROVE  /\ opened[q].ceremony \in CeremonyId /\ opened[q].ceremony # m
             /\ ceremonies'[opened[q].ceremony].status = "consumed"
             /\ sessions'[q].status # "absent"
  <2>1. opened[q].ceremony \in CeremonyId
    BY <1>8 DEF LoginInv, EngineTypeOK, Response
  <2>2. ceremonies[opened[q].ceremony].status = "consumed" /\ sessions[q].status # "absent"
    BY <1>8 DEF LoginInv, OpenedIsSpent
  <2> QED
    BY <1>4, <2>1, <2>2 DEF CeremonyRowsKept, SessionsKeep
<1>9. OpenedIsSpent'
  BY <1>4, <1>6, <1>7, <1>8 DEF OpenedIsSpent
<1>10. ASSUME NEW d \in CredentialId, stored'[d] # 0
       PROVE  \E q \in SessionId : opened'[q].credential = d /\ opened'[q].counter >= stored'[d]
  <2>1. CASE d = c
    BY <1>3, <1>7, <2>1
  <2>2. CASE d # c
    <3>1. PICK q \in SessionId : opened[q].credential = d /\ opened[q].counter >= stored[d]
      BY <1>7, <1>10, <2>2 DEF LoginInv, StoredWasOpened
    <3>2. q # s
      BY <1>6, <3>1, NoResponseIsNone
    <3> QED
      BY <1>7, <2>2, <3>1, <3>2
  <2> QED
    BY <2>1, <2>2
<1>11. ASSUME NEW q \in SessionId, NEW t \in SessionId, q # t, opened'[q] # NoResponse
       PROVE  opened'[q].ceremony # opened'[t].ceremony
  <2>1. opened[t] = NoResponse => opened[t].ceremony \notin CeremonyId
    BY NoResponseIsNone
  <2>2. opened[q] # NoResponse => opened[q].ceremony # opened[t].ceremony
    BY <1>11 DEF LoginInv, ResponseOpensOneSession
  <2>3. CASE q = s
    BY <1>3, <1>7, <1>8, <1>11, <2>1, <2>3
  <2>4. CASE q # s
    BY <1>3, <1>7, <1>8, <1>11, <2>2, <2>4
  <2> QED
    BY <2>3, <2>4
<1> QED
  BY <1>9, <1>10, <1>11 DEF StoredWasOpened, ResponseOpensOneSession

(* Every step preserves the invariant of logins. *)
LEMMA LoginNext ==
    SessionInv /\ LoginInv /\ [PasskeyNext]_passkeyVars => LoginInv'
<1> SUFFICES ASSUME SessionInv, LoginInv, [PasskeyNext]_passkeyVars
             PROVE  LoginInv'
  OBVIOUS
<1>1. TypeOK /\ TablesTypeOK /\ CeremonyRowsKept /\ SessionsKeep
  BY PasskeyStepIsStep, StepIsTransaction, CeremonyRowHistory, SessionHistory
  DEF SessionInv, RegistrationInv, TypeOK
<1>2. CASE PasskeyNext
  <2>1. EngineTypeOK' /\ LoginsAreVerified'
    BY <1>1, <1>2, EngineTypes, LoginsStayVerified DEF LoginInv
  <2>2. (\E p \in Task : CommitLogin(p)) \/ UNCHANGED <<stored, opened>>
    BY <1>2 DEF PasskeyNext, StartSetup, ReadExcluded, InsertSetup, CreatePasskey,
       FinishRegistration, CommitRegistration, StartLogin, Sign, FinishLogin, VerifyLogin,
       EndEarly, Elsewhere, engineVars
  <2>3. OpenedIsSpent' /\ StoredWasOpened' /\ ResponseOpensOneSession'
    BY <1>1, <2>2, OpenedStays, CommitLoginOpens
  <2> QED
    BY <2>1, <2>3 DEF LoginInv
<1>3. CASE UNCHANGED passkeyVars
  <2>1. OpenedIsSpent' /\ StoredWasOpened' /\ ResponseOpensOneSession'
    BY <1>1, <1>3, OpenedStays DEF passkeyVars, engineVars
  <2> QED
    BY <1>3, <2>1 DEF passkeyVars, engineVars, vars, LoginInv, EngineTypeOK, LoginsAreVerified
<1> QED
  BY <1>2, <1>3

(* Nobody has signed in with the engine yet. *)
LEMMA LoginInit == PasskeyInit => LoginInv
<1> SUFFICES ASSUME PasskeyInit PROVE LoginInv
  OBVIOUS
<1>1. EngineTypeOK
  BY NoResponseIsNone, PasskeyAssumption, InitialAssumption DEF PasskeyInit, EngineTypeOK
<1>2. LoginsAreVerified
  BY DEF PasskeyInit, Init, Idle, LoginsAreVerified, Verified
<1>3. OpenedIsSpent /\ StoredWasOpened /\ ResponseOpensOneSession
  BY DEF PasskeyInit, OpenedIsSpent, StoredWasOpened, ResponseOpensOneSession
<1> QED
  BY <1>1, <1>2, <1>3 DEF LoginInv

(* A login in flight holds one response and its counter, and whatever       *)
(* opened a session is spent.                                               *)
THEOREM LoginInvariant == PasskeySpec => []LoginInv
  BY LoginInit, LoginNext, PasskeysImplementService, SessionInvariant, PTL DEF PasskeySpec

(* A response opens one session at most, although the stored counter, which *)
(* concurrent logins overwrite, would accept it twice: its ceremony is      *)
(* consumed by the transaction that inserts the session.                    *)
THEOREM ResponsesOpenOneSession == PasskeySpec => []ResponseOpensOneSession
<1>1. LoginInv => ResponseOpensOneSession
  BY DEF LoginInv
<1> QED
  BY <1>1, LoginInvariant, PTL

(* A response is refused for its counter only after a login with a later    *)
(* one: whatever concurrent logins wrote came with a session of theirs.     *)
THEOREM RefusedWereOvertaken == PasskeySpec => []RefusedOnlyIfOvertaken
<1>1. ASSUME LoginInv PROVE RefusedOnlyIfOvertaken
  <2> SUFFICES ASSUME NEW r \in signed, ~Accepts(stored[r.credential], r.counter)
               PROVE  \E s \in SessionId : /\ opened[s].credential = r.credential
                                           /\ opened[s].counter >= r.counter
    BY DEF RefusedOnlyIfOvertaken
  <2>1. /\ r.credential \in CredentialId /\ r.counter \in Nat
        /\ stored[r.credential] \in Nat
    BY <1>1 DEF LoginInv, EngineTypeOK, Response
  <2>2. stored[r.credential] # 0 /\ r.counter <= stored[r.credential]
    BY <2>1 DEF Accepts
  <2>3. PICK s \in SessionId : /\ opened[s].credential = r.credential
                               /\ opened[s].counter >= stored[r.credential]
    BY <1>1, <2>1, <2>2 DEF LoginInv, StoredWasOpened
  <2>4. opened[s].counter \in Nat
    BY <1>1, <2>1, <2>3, NoResponseIsNone DEF LoginInv, EngineTypeOK, Response
  <2> QED
    BY <2>1, <2>2, <2>3, <2>4
<1> QED
  BY <1>1, LoginInvariant, PTL

-----------------------------------------------------------------------------
(* Tokens of users: which can be open at the same time.                     *)

(* A setup token is issued in the first epoch of its user, a recovery token *)
(* in a later one.                                                          *)
TokensHaveEpochs ==
    \A k \in CapabilityId : capabilities[k].status # "absent" =>
        /\ capabilities[k].user \in Users
        /\ capabilities[k].user \notin Operators =>
              \/ capabilities[k].purpose = "setup" /\ capabilities[k].epoch = 1
              \/ capabilities[k].purpose = "recovery_setup" /\ capabilities[k].epoch > 1

OneSetupPerUser ==
    \A j, k \in CapabilityId :
        (/\ capabilities[j].status # "absent" /\ capabilities[k].status # "absent"
         /\ capabilities[j].purpose = "setup" /\ capabilities[k].purpose = "setup"
         /\ capabilities[j].user = capabilities[k].user)
        => j = k

(* An approval advances the epoch, which is at least 1. *)
ApprovalsAdvance ==
    \A r \in RecoveryId : recoveries[r].stage \notin {"absent", "pending"} => recoveries[r].epoch > 1

(* Only break-glass revokes a passkey, and only an operator's. *)
RevokedAreOperators ==
    \A c \in CredentialId : credentials[c].status = "revoked" => credentials[c].user \in Operators

TokenTablesInv ==
    /\ TokensHaveEpochs
    /\ OneSetupPerUser
    /\ ApprovalsAdvance
    /\ RevokedAreOperators

RolesKeep ==
    \A u \in UserId : users[u].role # "absent" => users'[u].role = users[u].role

(* No transaction writes the role of a user that exists. *)
LEMMA RoleHistory ==
    ASSUME TablesInv, Transaction
    PROVE  RolesKeep
<1>0. TablesTypeOK
  BY DEF TablesInv
<1>1. ASSUME NEW u \in UserId, users' = AdvanceEpoch(u)
      PROVE  RolesKeep
  BY <1>0, <1>1, AdvancedUsers DEF RolesKeep
<1>2. ASSUME NEW r \in RecoveryId, approve_recovery(r)
      PROVE  RolesKeep
  <2>1. recoveries[r].user \in UserId
    BY <1>2 DEF approve_recovery, TablesInv, LiveRowsHaveUsers, Users
  <2> QED
    BY <1>1, <1>2, <2>1 DEF approve_recovery
<1>3. CASE rotate_all_auth_epochs
  BY <1>0, <1>3, RotatedRows DEF RolesKeep
<1>4. ASSUME NEW u \in UserId, NEW row, users[u].role = "absent", users' = [users EXCEPT ![u] = row]
      PROVE  RolesKeep
  BY <1>0, <1>4 DEF RolesKeep, TablesTypeOK
<1>5. ASSUME UNCHANGED users
      PROVE  RolesKeep
  BY <1>5 DEF RolesKeep
<1> QED
  BY <1>1, <1>2, <1>3, <1>4, <1>5 DEF Transaction, tables, insert_user, approve_user_with_setup,
     insert_ceremony, complete_registration, complete_authentication, SessionWrite,
     delete_session, create_recovery, issue_recovery_setup, break_glass

(* The insertions of a capability under k. *)
InsertsSetup(k) ==
    \E u \in UserId :
        /\ users[u].role = "absent" /\ users'[u].role = "user"
        /\ capabilities'[k].user = u /\ capabilities'[k].purpose = "setup"
        /\ capabilities'[k].epoch = 1
        /\ \A j \in CapabilityId : j # k => capabilities'[j] = capabilities[j]

InsertsRecoverySetup(k) ==
    \E r \in RecoveryId :
        /\ recoveries[r].stage = "approved"
        /\ capabilities'[k].user = recoveries[r].user /\ capabilities'[k].purpose = "recovery_setup"
        /\ capabilities'[k].epoch = users[recoveries[r].user].epoch

InsertsWindow(k) ==
    /\ capabilities'[k].user \in Operators
    /\ capabilities'[k].purpose = "operator_recovery"

(* A capability that exists is at most consumed. *)
LEMMA CapabilityChanges ==
    ASSUME TablesInv, Transaction, NEW k \in CapabilityId
    PROVE  \/ capabilities'[k].status = capabilities[k].status
           \/ capabilities[k].status # "absent" /\ capabilities'[k].status = "consumed"
           \/ /\ capabilities[k].status = "absent"
              /\ InsertsSetup(k) \/ InsertsRecoverySetup(k) \/ InsertsWindow(k)
<1> DEFINE Kept == \/ capabilities'[k].status = capabilities[k].status
                   \/ capabilities[k].status # "absent" /\ capabilities'[k].status = "consumed"
<1>0. TablesTypeOK
  BY DEF TablesInv
<1>1. ASSUME NEW u \in UserId, NEW j \in CapabilityId, NEW expires \in Nat, NEW now \in Nat,
             NEW time \in Nat, approve_user_with_setup(u, j, expires, now, time)
      PROVE  Kept \/ (capabilities[k].status = "absent" /\ InsertsSetup(k))
  BY <1>0, <1>1 DEF approve_user_with_setup, InsertCapability, InsertsSetup, TablesTypeOK
<1>2. ASSUME NEW r \in RecoveryId, NEW u \in UserId, NEW j \in CapabilityId,
             NEW expires \in Nat, NEW time \in Nat, issue_recovery_setup(r, j, u, expires, time)
      PROVE  Kept \/ (capabilities[k].status = "absent" /\ InsertsRecoverySetup(k))
  BY <1>0, <1>2 DEF issue_recovery_setup, InsertCapability, InsertsRecoverySetup, TablesTypeOK
<1>3. ASSUME NEW c \in CredentialId, NEW u \in UserId, NEW j \in CapabilityId,
             NEW expires \in Nat, NEW time \in Nat, break_glass(c, u, j, expires, time)
      PROVE  Kept \/ (capabilities[k].status = "absent" /\ InsertsWindow(k))
  <2> DEFINE table == ConsumeCapabilities(u)
             row == [status |-> "open", user |-> u, purpose |-> "operator_recovery",
                     expires |-> expires, created |-> time, epoch |-> users[u].epoch + 1]
  <2>1. table \in [CapabilityId -> CapabilityRow]
    BY <1>0, InvalidationTypes
  <2>2. /\ table[k].status = capabilities[k].status
              \/ (capabilities[k].status # "absent" /\ table[k].status = "consumed")
    BY <1>0, ConsumedCapabilityRows
  <2>3. /\ capabilities' = [table EXCEPT ![j] = row] /\ capabilities[j].status = "absent"
        /\ row.user = u /\ row.purpose = "operator_recovery"
    BY <1>3 DEF break_glass, InsertCapability
  <2>4. u \in Operators
    BY <1>3 DEF break_glass, LiveOperatorCredentials, CredentialsOf
  <2> HIDE DEF table, row
  <2> QED
    BY <2>1, <2>2, <2>3, <2>4 DEF InsertsWindow
<1>4. ASSUME NEW r \in RecoveryId, approve_recovery(r)
      PROVE  Kept
  BY <1>0, <1>4, ConsumedCapabilityRows DEF approve_recovery
<1>5. ASSUME rotate_all_auth_epochs
      PROVE  Kept
  BY <1>0, <1>5 DEF rotate_all_auth_epochs, TablesTypeOK, CapabilityRow
<1>6. ASSUME NEW m \in CeremonyId, NEW c \in CredentialId, NEW now \in Nat,
             complete_registration(m, ceremonies[m].capability, c, now)
      PROVE  Kept
  <2> DEFINE j == ceremonies[m].capability
  <2>1. /\ j \in CapabilityId \cup {None}
        /\ j # None => capabilities[j].status = "open"
        /\ capabilities' = IF j = None THEN capabilities
                           ELSE [capabilities EXCEPT ![j].status = "consumed"]
    BY <1>0, <1>6 DEF complete_registration, RegistrationCommits, CapabilityOpen, TablesTypeOK,
       CeremonyRow
  <2> HIDE DEF j
  <2> QED
    BY <1>0, <2>1 DEF TablesTypeOK, CapabilityRow
<1>7. ASSUME UNCHANGED capabilities
      PROVE  Kept
  BY <1>7
<1> QED
  BY <1>1, <1>2, <1>3, <1>4, <1>5, <1>6, <1>7 DEF Transaction, tables, insert_user,
     insert_ceremony, complete_authentication, SessionWrite, delete_session, create_recovery

(* An approval establishes an epoch of at least 2, which its recovery keeps. *)
LEMMA ApprovalsStay ==
    ASSUME TablesInv, SessionTablesInv, ApprovalsAdvance, Transaction
    PROVE  ApprovalsAdvance'
<1>0. TablesTypeOK
  BY DEF TablesInv
<1>1. ASSUME NEW r \in RecoveryId, approve_recovery(r)
      PROVE  ApprovalsAdvance'
  <2>1. recoveries[r].user \in Users
    BY <1>1 DEF approve_recovery, TablesInv, LiveRowsHaveUsers
  <2>2. users[recoveries[r].user].epoch \in Nat \ {0}
    BY <1>0, <2>1, InvalidationsType DEF SessionTablesInv, EpochCountsInvalidations, Users
  <2>3. recoveries' = [recoveries EXCEPT ![r].stage = "approved",
                                         ![r].epoch = users[recoveries[r].user].epoch + 1]
    BY <1>1 DEF approve_recovery
  <2> QED
    BY <1>0, <2>2, <2>3 DEF ApprovalsAdvance, TablesTypeOK, RecoveryRow
<1>2. ASSUME NEW r \in RecoveryId, recoveries[r].stage = "approved",
             recoveries' = [recoveries EXCEPT ![r].stage = "issued"]
      PROVE  ApprovalsAdvance'
  BY <1>0, <1>2 DEF ApprovalsAdvance, TablesTypeOK, RecoveryRow
<1>3. ASSUME NEW m \in CeremonyId, NEW c \in CredentialId, NEW now \in Nat,
             complete_registration(m, ceremonies[m].capability, c, now)
      PROVE  ApprovalsAdvance'
  BY <1>0, <1>3 DEF complete_registration, ApprovalsAdvance, TablesTypeOK, RecoveryRow
<1>4. ASSUME NEW r \in RecoveryId, NEW u \in UserId, create_recovery(r, u)
      PROVE  ApprovalsAdvance'
  BY <1>0, <1>4 DEF create_recovery, ApprovalsAdvance, TablesTypeOK
<1>5. ASSUME UNCHANGED recoveries
      PROVE  ApprovalsAdvance'
  BY <1>5 DEF ApprovalsAdvance
<1> QED
  BY <1>1, <1>2, <1>3, <1>4, <1>5 DEF Transaction, tables, insert_user, approve_user_with_setup,
     insert_ceremony, complete_authentication, SessionWrite, delete_session, issue_recovery_setup,
     break_glass, rotate_all_auth_epochs

(* Nobody but break-glass revokes. *)
LEMMA RevokedStayOperators ==
    ASSUME TablesInv, RevokedAreOperators, RolesKeep, Transaction
    PROVE  RevokedAreOperators'
<1>0. TablesTypeOK
  BY DEF TablesInv
<1>1. Operators \subseteq Operators'
  BY DEF Operators, RolesKeep
<1>2. ASSUME NEW m \in CeremonyId, NEW c \in CredentialId, NEW now \in Nat,
             complete_registration(m, ceremonies[m].capability, c, now)
      PROVE  RevokedAreOperators'
  BY <1>0, <1>1, <1>2 DEF complete_registration, RevokedAreOperators, TablesTypeOK
<1>3. ASSUME NEW c \in CredentialId, NEW u \in UserId, NEW k \in CapabilityId,
             NEW expires \in Nat, NEW time \in Nat, break_glass(c, u, k, expires, time)
      PROVE  RevokedAreOperators'
  <2>1. credentials[c].user \in Operators
    BY <1>3 DEF break_glass, LiveOperatorCredentials, CredentialsOf
  <2>2. credentials' = [credentials EXCEPT ![c].status = "revoked"]
    BY <1>3 DEF break_glass
  <2> QED
    BY <1>0, <1>1, <2>1, <2>2 DEF RevokedAreOperators, TablesTypeOK, CredentialRow
<1>4. ASSUME UNCHANGED credentials
      PROVE  RevokedAreOperators'
  BY <1>1, <1>4 DEF RevokedAreOperators
<1> QED
  BY <1>2, <1>3, <1>4 DEF Transaction, tables, insert_user, approve_user_with_setup,
     insert_ceremony, complete_authentication, SessionWrite, delete_session, create_recovery,
     approve_recovery, issue_recovery_setup, rotate_all_auth_epochs

(* Every transaction preserves what tokens say of their epochs. *)
LEMMA TokenTablesNext ==
    ASSUME SessionInv, RegistrationTablesInv, TokenTablesInv, Transaction
    PROVE  TokenTablesInv'
<1>0. TablesInv /\ TablesTypeOK /\ SessionTablesInv
  BY DEF SessionInv, RegistrationInv, TablesInv
<1>1. RolesKeep /\ CapabilitiesKeep
  BY <1>0, RoleHistory, CapabilityHistory
<1>2. Users \subseteq Users' /\ Operators \subseteq Operators'
  BY <1>1 DEF Users, Operators, RolesKeep
<1>3. ASSUME NEW k \in CapabilityId, capabilities[k].status = "absent",
             capabilities'[k].status # "absent"
      PROVE  InsertsSetup(k) \/ InsertsRecoverySetup(k) \/ InsertsWindow(k)
  BY <1>0, <1>3, CapabilityChanges
<1>4. ASSUME NEW k \in CapabilityId, capabilities'[k].status # "absent"
      PROVE  /\ capabilities'[k].user \in Users'
             /\ capabilities'[k].user \notin Operators' =>
                   \/ capabilities'[k].purpose = "setup" /\ capabilities'[k].epoch = 1
                   \/ capabilities'[k].purpose = "recovery_setup" /\ capabilities'[k].epoch > 1
  <2>1. CASE capabilities[k].status # "absent"
    BY <1>1, <1>2, <2>1 DEF CapabilitiesKeep, TokenTablesInv, TokensHaveEpochs
  <2>2. CASE capabilities[k].status = "absent" /\ InsertsSetup(k)
    BY <2>2 DEF InsertsSetup, Users
  <2>3. CASE capabilities[k].status = "absent" /\ InsertsRecoverySetup(k)
    <3>1. PICK r \in RecoveryId :
             /\ recoveries[r].stage = "approved" /\ capabilities'[k].user = recoveries[r].user
             /\ capabilities'[k].purpose = "recovery_setup"
             /\ capabilities'[k].epoch = users[recoveries[r].user].epoch
      BY <2>3 DEF InsertsRecoverySetup
    <3>2. recoveries[r].user \in Users
      BY <1>0, <3>1 DEF TablesInv, LiveRowsHaveUsers
    <3>3. recoveries[r].epoch > 1 /\ recoveries[r].epoch <= users[recoveries[r].user].epoch
      BY <3>1 DEF TokenTablesInv, ApprovalsAdvance, RegistrationTablesInv, RecoveriesAreCurrent
    <3>4. recoveries[r].epoch \in Nat /\ users[recoveries[r].user].epoch \in Nat
      BY <1>0, <3>2 DEF TablesTypeOK, RecoveryRow, UserRow, Users
    <3> QED
      BY <1>2, <3>1, <3>2, <3>3, <3>4
  <2>4. CASE capabilities[k].status = "absent" /\ InsertsWindow(k)
    BY <1>2, <2>4 DEF InsertsWindow, Users, Operators
  <2> QED
    BY <1>3, <1>4, <2>1, <2>2, <2>3, <2>4
<1>5. ASSUME NEW j \in CapabilityId, NEW k \in CapabilityId, j # k,
             capabilities[k].status = "absent", capabilities'[k].status # "absent",
             capabilities'[k].purpose = "setup",
             capabilities'[j].status # "absent", capabilities'[j].purpose = "setup"
      PROVE  capabilities'[j].user # capabilities'[k].user
  <2>1. InsertsSetup(k)
    BY <1>3, <1>5 DEF InsertsRecoverySetup, InsertsWindow
  <2>2. PICK u \in UserId : /\ users[u].role = "absent" /\ capabilities'[k].user = u
                            /\ capabilities'[j] = capabilities[j]
    BY <1>5, <2>1 DEF InsertsSetup
  <2>3. capabilities[j].user \in Users
    BY <1>5, <2>2 DEF TokenTablesInv, TokensHaveEpochs
  <2> QED
    BY <2>2, <2>3 DEF Users
<1>6. TokensHaveEpochs'
  BY <1>4 DEF TokensHaveEpochs
<1>7. OneSetupPerUser'
  <2> SUFFICES ASSUME NEW j \in CapabilityId, NEW k \in CapabilityId, j # k,
                      capabilities'[j].status # "absent", capabilities'[k].status # "absent",
                      capabilities'[j].purpose = "setup", capabilities'[k].purpose = "setup"
               PROVE  capabilities'[j].user # capabilities'[k].user
    BY DEF OneSetupPerUser
  <2>1. CASE capabilities[j].status = "absent" \/ capabilities[k].status = "absent"
    BY <1>5, <2>1
  <2>2. CASE capabilities[j].status # "absent" /\ capabilities[k].status # "absent"
    BY <1>1, <2>2 DEF CapabilitiesKeep, TokenTablesInv, OneSetupPerUser
  <2> QED
    BY <2>1, <2>2
<1>8. ApprovalsAdvance' /\ RevokedAreOperators'
  BY <1>0, <1>1, ApprovalsStay, RevokedStayOperators DEF TokenTablesInv
<1> QED
  BY <1>6, <1>7, <1>8 DEF TokenTablesInv

(* Two tokens of a user who is not an operator are open together only if    *)
(* both are recovery tokens.                                                *)
LEMMA OpenTokensAreRecoveries ==
    ASSUME SessionInv, TokenTablesInv, NEW j \in CapabilityId, NEW k \in CapabilityId, j # k,
           capabilities[j].status = "open", capabilities[k].status = "open",
           capabilities[j].user = capabilities[k].user, capabilities[k].user \notin Operators
    PROVE  capabilities[j].purpose = "recovery_setup" /\ capabilities[k].purpose = "recovery_setup"
<1>1. capabilities[j].epoch = capabilities[k].epoch
  BY DEF SessionInv, RegistrationInv, TablesInv, OpenCapabilityIsCurrent
<1>2. /\ \/ capabilities[j].purpose = "setup" /\ capabilities[j].epoch = 1
         \/ capabilities[j].purpose = "recovery_setup" /\ capabilities[j].epoch > 1
      /\ \/ capabilities[k].purpose = "setup" /\ capabilities[k].epoch = 1
         \/ capabilities[k].purpose = "recovery_setup" /\ capabilities[k].epoch > 1
  BY DEF TokenTablesInv, TokensHaveEpochs
<1>3. ~(capabilities[j].purpose = "setup" /\ capabilities[k].purpose = "setup")
  BY DEF TokenTablesInv, OneSetupPerUser
<1> QED
  BY <1>1, <1>2, <1>3

-----------------------------------------------------------------------------
(* The inductive invariant of registrations.                                *)

(* Of the passkeys of u, an exclude list E misses only those registered     *)
(* with another recovery token of the present epoch, as long as the token k *)
(* of its challenge is open.                                                *)
MissesOnlyCurrent(E, k, u) ==
    (capabilities[k].status = "open" /\ u \notin Operators) =>
        \A c \in CredentialId :
            (credentials[c].status # "absent" /\ credentials[c].user = u /\ c \notin E) =>
                /\ credentials[c].epoch = users[u].epoch
                /\ RegisteredByRecovery(c)
                /\ capabilities[k].purpose = "recovery_setup"

(* There is no bootstrap here: a registration has a token. *)
CeremoniesHaveTokens ==
    \A m \in CeremonyId :
        (ceremonies[m].status # "absent" /\ ceremonies[m].kind # "authentication")
            => ceremonies[m].capability # None

(* Homes and exclude lists are of passkeys that exist. *)
ListsAreOfPasskeys ==
    /\ \A c \in CredentialId : home[c] # None => credentials[c].status # "absent"
    /\ \A m \in CeremonyId : \A c \in excluded[m] : credentials[c].status # "absent"

CreatedObeysList ==
    \A response \in created :
        /\ ceremonies[response.ceremony].status # "absent"
        /\ \A c \in excluded[response.ceremony] : home[c] # response.authenticator

ListsMissOnlyCurrent ==
    \A m \in CeremonyId, E \in SUBSET CredentialId, k \in CapabilityId, u \in UserId :
        (/\ ceremonies[m].status # "absent" /\ ceremonies[m].kind # "authentication"
         /\ excluded[m] = E /\ ceremonies[m].capability = k /\ ceremonies[m].user = u)
        => MissesOnlyCurrent(E, k, u)

(* A request that has read an exclude list, or verified a new passkey. *)
Prepared(frame, entry) ==
    /\ entry.read => frame.pc \in {"setup_insert", "authentication"}
    /\ frame.pc = "setup_insert" =>
          /\ frame.capability # None
          /\ entry.read => MissesOnlyCurrent(entry.exclude, frame.capability, frame.user)
    /\ frame.pc = "registration" =>
          [ceremony |-> frame.ceremony, authenticator |-> entry.authenticator] \in created
    /\ \A c \in entry.exclude : credentials[c].status # "absent"

FramesArePrepared ==
    \A p \in Task, frame \in Frame, entry \in Entry :
        (task[p] = frame /\ verifying[p] = entry) => Prepared(frame, entry)

AuthenticatorInv ==
    /\ TokenTablesInv
    /\ CeremoniesHaveTokens
    /\ ListsAreOfPasskeys
    /\ CreatedObeysList
    /\ ListsMissOnlyCurrent
    /\ FramesArePrepared
    /\ OneEpochPerAuthenticator

-----------------------------------------------------------------------------
(* What transactions do to lists.                                           *)

(* A passkey is registered by an open ceremony, whose token it consumes. *)
LEMMA NewPasskey ==
    ASSUME TablesInv, Transaction, NEW c \in CredentialId,
           credentials[c].status = "absent", credentials'[c].status # "absent"
    PROVE  \E m \in CeremonyId :
              /\ ceremonies[m].status = "open" /\ ceremonies[m].kind # "authentication"
              /\ credentials'[c].ceremony = m /\ credentials'[c].user = ceremonies[m].user
              /\ credentials'[c].epoch = users[ceremonies[m].user].epoch /\ users' = users
              /\ \A d \in CredentialId : d # c => credentials'[d] = credentials[d]
              /\ ceremonies[m].capability # None =>
                    /\ ceremonies[m].capability \in CapabilityId
                    /\ capabilities[ceremonies[m].capability].status = "open"
                    /\ capabilities'[ceremonies[m].capability].status = "consumed"
<1>0. TablesTypeOK
  BY DEF TablesInv
<1>1. \E m \in CeremonyId, d \in CredentialId, now \in Nat :
         /\ ceremonies[m].kind # "authentication"
         /\ complete_registration(m, ceremonies[m].capability, d, now)
  <2>1. ASSUME NEW d \in CredentialId, NEW u \in UserId, NEW k \in CapabilityId,
               NEW expires \in Nat, NEW time \in Nat, break_glass(d, u, k, expires, time)
        PROVE  FALSE
    <3>1. credentials[d].status = "live" /\ credentials' = [credentials EXCEPT ![d].status = "revoked"]
      BY <2>1 DEF break_glass, LiveOperatorCredentials, CredentialsOf
    <3> QED
      BY <1>0, <3>1 DEF TablesTypeOK
  <2> QED
    BY <2>1 DEF Transaction, tables, insert_user, approve_user_with_setup, insert_ceremony,
       complete_authentication, SessionWrite, delete_session, create_recovery, approve_recovery,
       issue_recovery_setup, rotate_all_auth_epochs
<1>2. PICK m \in CeremonyId, d \in CredentialId, now \in Nat :
         /\ ceremonies[m].kind # "authentication"
         /\ complete_registration(m, ceremonies[m].capability, d, now)
  BY <1>1
<1>3. /\ ceremonies[m].status = "open" /\ users' = users
      /\ credentials' = [credentials EXCEPT ![d] =
            [status |-> "live", user |-> ceremonies[m].user, ceremony |-> m,
             epoch |-> users[ceremonies[m].user].epoch]]
  BY <1>2 DEF complete_registration, RegistrationCommits, CeremonyOpen
<1>4. d = c
  BY <1>0, <1>3 DEF TablesTypeOK
<1>5. ceremonies[m].capability # None =>
         /\ ceremonies[m].capability \in CapabilityId
         /\ capabilities[ceremonies[m].capability].status = "open"
         /\ capabilities'[ceremonies[m].capability].status = "consumed"
  <2> DEFINE k == ceremonies[m].capability
  <2>1. /\ k \in CapabilityId \cup {None}
        /\ k # None => capabilities[k].status = "open"
        /\ capabilities' = IF k = None THEN capabilities
                           ELSE [capabilities EXCEPT ![k].status = "consumed"]
    BY <1>0, <1>2 DEF complete_registration, RegistrationCommits, CapabilityOpen, TablesTypeOK,
       CeremonyRow
  <2> HIDE DEF k
  <2>2. k # None => k \in CapabilityId /\ capabilities[k].status = "open"
                    /\ capabilities'[k].status = "consumed"
    BY <1>0, <2>1 DEF TablesTypeOK, CapabilityRow
  <2> QED
    BY <2>2 DEF k
<1> QED
  BY <1>0, <1>2, <1>3, <1>4, <1>5 DEF TablesTypeOK

(* What registered a passkey stays what it was. *)
LEMMA ByRecoveryStays ==
    ASSUME SessionInv, Transaction, NEW c \in CredentialId, credentials[c].status # "absent",
           RegisteredByRecovery(c)
    PROVE  RegisteredByRecovery(c)'
<1>1. TablesInv /\ TablesTypeOK /\ CeremonyServesCapability
  BY DEF SessionInv, RegistrationInv, TablesInv
<1>2. PICK k : k = CapabilityOf(c)
  OBVIOUS
<1>3. CapabilityOf(c)' = k
  BY <1>1, <1>2, CapabilityKept
<1>4. k # None /\ k \in CapabilityId /\ capabilities[k].purpose = "recovery_setup"
      /\ capabilities[k].status # "absent"
  BY <1>1, <1>2 DEF RegisteredByRecovery, CapabilityOf, TablesInv, TablesTypeOK, CredentialRow,
     CeremonyRow, PasskeysAreSpent
<1>5. capabilities'[k].purpose = "recovery_setup"
  BY <1>1, <1>4, CapabilityHistory DEF CapabilitiesKeep
<1> QED
  BY <1>3, <1>4, <1>5 DEF RegisteredByRecovery

(* As long as its token is open, a list comes to miss only what another     *)
(* open token registered: a recovery token, in the same epoch.              *)
LEMMA MissesStays ==
    ASSUME SessionInv, SessionInv', TokenTablesInv, CeremoniesHaveTokens, Transaction,
           NEW E, NEW k \in CapabilityId, NEW u \in UserId,
           capabilities[k].status # "absent", capabilities[k].user = u,
           MissesOnlyCurrent(E, k, u)
    PROVE  MissesOnlyCurrent(E, k, u)'
<1> SUFFICES ASSUME capabilities'[k].status = "open", u \notin Operators',
                    NEW c \in CredentialId, credentials'[c].status # "absent",
                    credentials'[c].user = u, c \notin E
             PROVE  /\ credentials'[c].epoch = users'[u].epoch
                    /\ RegisteredByRecovery(c)'
                    /\ capabilities'[k].purpose = "recovery_setup"
  BY DEF MissesOnlyCurrent
<1>0. TablesInv /\ TablesTypeOK /\ CeremonyServesCapability
  BY DEF SessionInv, RegistrationInv, TablesInv
<1>1. RolesKeep /\ CapabilitiesKeep /\ CredentialsKeep /\ CeremonyRowsKept
  BY <1>0, RoleHistory, CapabilityHistory, CredentialHistory, CeremonyRowHistory
<1>2. /\ capabilities[k].status = "open" /\ capabilities'[k].user = u
      /\ capabilities'[k].purpose = capabilities[k].purpose
      /\ capabilities'[k].epoch = capabilities[k].epoch
  BY <1>0, <1>1, CapabilityChanges DEF CapabilitiesKeep
<1>3. u \notin Operators
  BY <1>1 DEF RolesKeep, Operators
<1>4. capabilities[k].epoch = users[u].epoch /\ capabilities'[k].epoch = users'[u].epoch
  BY <1>2 DEF SessionInv, RegistrationInv, TablesInv, OpenCapabilityIsCurrent
<1>5. CASE credentials[c].status # "absent"
  <2>1. credentials[c].user = u /\ credentials'[c].epoch = credentials[c].epoch
    BY <1>1, <1>5 DEF CredentialsKeep
  <2>2. /\ credentials[c].epoch = users[u].epoch /\ RegisteredByRecovery(c)
        /\ capabilities[k].purpose = "recovery_setup"
    BY <1>2, <1>3, <1>5, <2>1 DEF MissesOnlyCurrent
  <2> QED
    BY <1>2, <1>4, <1>5, <2>1, <2>2, ByRecoveryStays
<1>6. CASE credentials[c].status = "absent"
  <2>1. PICK m \in CeremonyId :
           /\ ceremonies[m].status = "open" /\ ceremonies[m].kind # "authentication"
           /\ credentials'[c].ceremony = m /\ credentials'[c].user = ceremonies[m].user
           /\ credentials'[c].epoch = users[ceremonies[m].user].epoch
           /\ ceremonies[m].capability # None =>
                 /\ ceremonies[m].capability \in CapabilityId
                 /\ capabilities[ceremonies[m].capability].status = "open"
                 /\ capabilities'[ceremonies[m].capability].status = "consumed"
    BY <1>0, <1>6, NewPasskey
  <2>2. PICK j : j = ceremonies[m].capability
    OBVIOUS
  <2>3. /\ j # None /\ j \in CapabilityId /\ capabilities[j].status = "open"
        /\ capabilities'[j].status = "consumed" /\ capabilities[j].user = u
    BY <1>0, <2>1, <2>2 DEF CeremoniesHaveTokens, CeremonyServesCapability
  <2>4. j # k
    BY <2>3
  <2>5. capabilities[j].purpose = "recovery_setup" /\ capabilities[k].purpose = "recovery_setup"
    BY <1>2, <1>3, <2>3, <2>4, OpenTokensAreRecoveries
  <2>6. ceremonies'[m].capability = j /\ capabilities'[j].purpose = "recovery_setup" /\ m # None
    BY <1>1, <2>1, <2>2, <2>3, <2>5, NoneAssumption DEF CeremonyRowsKept, CapabilitiesKeep
  <2>7. RegisteredByRecovery(c)'
    BY <2>1, <2>3, <2>6 DEF RegisteredByRecovery, CapabilityOf
  <2> QED
    BY <1>2, <1>4, <2>1, <2>5, <2>7
<1> QED
  BY <1>5, <1>6

-----------------------------------------------------------------------------
(* Each step preserves the invariant of registrations.                      *)

(* A step of the engine, with what is known before it. *)
EngineStep ==
    /\ SessionInv /\ SessionInv'
    /\ EngineTypeOK
    /\ AuthenticatorInv
    /\ PasskeyNext
    /\ Transaction

(* What an engine step keeps of the tables. *)
LEMMA EngineStepKeeps ==
    ASSUME EngineStep
    PROVE  /\ TablesInv /\ TablesTypeOK /\ TypeOK /\ TypeOK' /\ CeremonyServesCapability
           /\ RolesKeep /\ CapabilitiesKeep /\ CredentialsKeep /\ CeremonyRowsKept
           /\ Operators \subseteq Operators'
<1>1. TablesInv /\ TablesTypeOK /\ TypeOK /\ TypeOK' /\ CeremonyServesCapability /\ Transaction
  BY DEF EngineStep, SessionInv, RegistrationInv, TablesInv
<1>2. RolesKeep /\ CapabilitiesKeep /\ CredentialsKeep /\ CeremonyRowsKept
  BY <1>1, RoleHistory, CapabilityHistory, CredentialHistory, CeremonyRowHistory
<1>3. Operators \subseteq Operators'
  BY <1>2 DEF RolesKeep, Operators
<1> QED
  BY <1>1, <1>2, <1>3

(* A frame and an entry that do not change stay prepared. *)
LEMMA PreparedStays ==
    ASSUME EngineStep, created \subseteq created', NEW frame \in Frame, NEW entry \in Entry,
           FrameAgrees(frame), Prepared(frame, entry)
    PROVE  Prepared(frame, entry)'
<1>1. CredentialsKeep
  BY EngineStepKeeps
<1>2. \A c \in entry.exclude : credentials'[c].status # "absent"
  BY <1>1 DEF Prepared, Entry, CredentialsKeep
<1>3. ASSUME frame.pc = "setup_insert", entry.read
      PROVE  MissesOnlyCurrent(entry.exclude, frame.capability, frame.user)'
  <2>1. PICK E, k, u : E = entry.exclude /\ k = frame.capability /\ u = frame.user
    OBVIOUS
  <2>2. /\ k \in CapabilityId /\ u \in UserId /\ capabilities[k].status # "absent"
        /\ capabilities[k].user = u /\ MissesOnlyCurrent(E, k, u)
    BY <1>3, <2>1 DEF Prepared, FrameAgrees, Frame
  <2>3. MissesOnlyCurrent(E, k, u)'
    BY <2>2, MissesStays DEF EngineStep, AuthenticatorInv
  <2> QED
    BY <2>1, <2>3
<1> QED
  BY <1>2, <1>3 DEF Prepared

(* A step of the request p leaves the others prepared. *)
LEMMA OthersStayPrepared ==
    ASSUME EngineStep, created \subseteq created', NEW p \in Task,
           \A q \in Task : q # p => task'[q] = task[q] /\ verifying'[q] = verifying[q],
           \A frame \in Frame, entry \in Entry :
              (task'[p] = frame /\ verifying'[p] = entry) => Prepared(frame, entry)'
    PROVE  FramesArePrepared'
<1>1. ASSUME NEW q \in Task, NEW frame \in Frame, NEW entry \in Entry,
             task'[q] = frame, verifying'[q] = entry, q # p
      PROVE  Prepared(frame, entry)'
  <2>1. task[q] = frame /\ verifying[q] = entry
    BY <1>1
  <2>2. Prepared(frame, entry) /\ FrameAgrees(frame)
    BY <2>1 DEF EngineStep, AuthenticatorInv, FramesArePrepared, SessionInv, RegistrationInv
  <2> QED
    BY <2>2, PreparedStays
<1> QED
  BY <1>1 DEF FramesArePrepared

(* A step that changes no frame. *)
LEMMA AllStayPrepared ==
    ASSUME EngineStep, created \subseteq created', UNCHANGED <<task, verifying>>
    PROVE  FramesArePrepared'
<1>1. ASSUME NEW q \in Task, NEW frame \in Frame, NEW entry \in Entry,
             task'[q] = frame, verifying'[q] = entry
      PROVE  Prepared(frame, entry)'
  <2>2. Prepared(frame, entry) /\ FrameAgrees(frame)
    BY <1>1 DEF EngineStep, AuthenticatorInv, FramesArePrepared, SessionInv, RegistrationInv
  <2> QED
    BY <2>2, PreparedStays
<1> QED
  BY <1>1 DEF FramesArePrepared

(* A request that returns forgets what it read. *)
LEMMA ReturnedIsPrepared ==
    ASSUME EngineStep, NEW p \in Task, Return(p), Note(p, Nothing), UNCHANGED created
    PROVE  FramesArePrepared'
<1>1. /\ task'[p] = Idle /\ verifying'[p] = Nothing
      /\ \A q \in Task : q # p => task'[q] = task[q] /\ verifying'[q] = verifying[q]
  BY EngineStepKeeps DEF Return, Note, TypeOK, EngineStep, EngineTypeOK
<1>2. Idle.pc = "idle" /\ ~Nothing.read /\ Nothing.exclude = {}
  BY DEF Idle, Nothing
<1> QED
  BY <1>1, <1>2, OthersStayPrepared DEF Prepared

(* A request whose frame changes while its entry stays, with nothing read. *)
LEMMA ContinuedIsPrepared ==
    ASSUME EngineStep, NEW p \in Task, NEW new, task' = [task EXCEPT ![p] = new],
           task[p].pc \notin {"setup_insert", "authentication"},
           new.pc # "registration", new.pc = "setup_insert" => new.capability # None,
           UNCHANGED <<verifying, created>>
    PROVE  FramesArePrepared'
<1>1. /\ task'[p] = new /\ task[p] \in Frame /\ verifying[p] \in Entry
      /\ \A q \in Task : q # p => task'[q] = task[q] /\ verifying'[q] = verifying[q]
  BY EngineStepKeeps DEF TypeOK, EngineStep, EngineTypeOK
<1>2. Prepared(task[p], verifying[p])
  BY <1>1 DEF EngineStep, AuthenticatorInv, FramesArePrepared
<1>3. ~verifying[p].read /\ \A c \in verifying[p].exclude : credentials'[c].status # "absent"
  BY <1>1, <1>2, EngineStepKeeps DEF Prepared, Entry, CredentialsKeep
<1> QED
  BY <1>1, <1>3, OthersStayPrepared DEF Prepared

(* An exclude list that is being read misses nothing. *)
LEMMA ReadIsPrepared ==
    ASSUME EngineStep, NEW p \in Task, ReadExcluded(p)
    PROVE  FramesArePrepared'
<1>1. /\ task[p].pc = "setup_insert" /\ UNCHANGED <<vars, created>>
      /\ Note(p, [Nothing EXCEPT !.read = TRUE, !.exclude = CredentialsOf(task[p].user)])
  BY DEF ReadExcluded
<1>2. PICK frame, new : /\ frame = task[p]
                       /\ new = [Nothing EXCEPT !.read = TRUE, !.exclude = CredentialsOf(frame.user)]
  OBVIOUS
<1>3. /\ task'[p] = frame /\ verifying'[p] = new /\ UNCHANGED tables
      /\ \A q \in Task : q # p => task'[q] = task[q] /\ verifying'[q] = verifying[q]
  BY <1>1, <1>2 DEF Note, EngineStep, EngineTypeOK, vars, tables
<1>4. frame \in Frame /\ frame.pc = "setup_insert" /\ frame.capability # None
  <2>1. task[p] \in Frame /\ verifying[p] \in Entry
    BY EngineStepKeeps DEF TypeOK, EngineStep, EngineTypeOK
  <2>2. Prepared(task[p], verifying[p])
    BY <2>1 DEF EngineStep, AuthenticatorInv, FramesArePrepared
  <2> QED
    BY <1>1, <1>2, <2>1, <2>2 DEF Prepared
<1>5. PICK E, k, u : E = CredentialsOf(frame.user) /\ k = frame.capability /\ u = frame.user
  OBVIOUS
<1>6. MissesOnlyCurrent(E, k, u)'
  <2> SUFFICES ASSUME u \notin Operators', NEW c \in CredentialId,
                      credentials'[c].status # "absent", credentials'[c].user = u, c \notin E
               PROVE  FALSE
    BY DEF MissesOnlyCurrent
  <2>1. credentials[c].status # "absent" /\ credentials[c].user = u /\ u \notin Operators
    BY <1>3, EngineStepKeeps DEF tables
  <2>2. credentials[c].status # "live"
    BY <1>5, <2>1 DEF CredentialsOf
  <2>3. credentials[c].status = "revoked"
    BY <2>1, <2>2, EngineStepKeeps DEF TablesTypeOK, CredentialRow
  <2> QED
    BY <2>1, <2>3 DEF EngineStep, AuthenticatorInv, TokenTablesInv, RevokedAreOperators
<1>7. new.exclude = E /\ \A c \in E : credentials'[c].status # "absent"
  BY <1>2, <1>3, <1>5 DEF Nothing, CredentialsOf, tables
<1>8. Prepared(frame, new)'
  BY <1>4, <1>5, <1>6, <1>7 DEF Prepared
<1> QED
  BY <1>1, <1>3, <1>8, OthersStayPrepared

(* Every step leaves the requests prepared. *)
LEMMA FramesStayPrepared ==
    ASSUME EngineStep
    PROVE  FramesArePrepared'
<1>0. /\ PasskeyNext /\ TypeOK /\ Idle.pc = "idle"
      /\ \A p \in Task : task[p] \in Frame /\ verifying[p] \in Entry
      /\ DOMAIN task = Task /\ DOMAIN verifying = Task
  BY EngineStepKeeps DEF EngineStep, TypeOK, EngineTypeOK, Idle
<1>1. ASSUME NEW p \in Task, StartSetup(p)
      PROVE  FramesArePrepared'
  <2>1. PICK k \in CapabilityId, now \in Now :
           Continue(p, [Idle EXCEPT !.pc = "setup_insert", !.now = now,
                                    !.user = capabilities[k].user, !.capability = k])
    BY <1>1 DEF StartSetup, SetupStart
  <2>2. PICK new : new = [Idle EXCEPT !.pc = "setup_insert", !.now = now,
                                      !.user = capabilities[k].user, !.capability = k]
    OBVIOUS
  <2>3. new.pc = "setup_insert" /\ new.capability # None
    BY <2>2, NoneAssumption DEF Idle
  <2> QED
    BY <1>1, <2>1, <2>2, <2>3, ContinuedIsPrepared DEF Continue, StartSetup, engineVars
<1>2. ASSUME NEW p \in Task, InsertSetup(p) \/ CommitRegistration(p) \/ CommitLogin(p) \/ EndEarly(p)
      PROVE  FramesArePrepared'
  BY <1>2, ReturnedIsPrepared DEF InsertSetup, SetupInsert, CommitRegistration,
     RegistrationCommit, CommitLogin, LoginCommit, EndEarly, Abort
<1>3. ASSUME NEW p \in Task, FinishRegistration(p)
      PROVE  FramesArePrepared'
  <2>1. PICK response \in created :
           /\ RegistrationFinish(p) /\ task'[p].ceremony = response.ceremony
           /\ Note(p, [Nothing EXCEPT !.authenticator = response.authenticator])
           /\ UNCHANGED created
    BY <1>3 DEF FinishRegistration
  <2>2. PICK frame : task' = [task EXCEPT ![p] = frame] /\ frame.pc = "registration"
    <3>1. PICK m \in CeremonyId, now \in Now :
             Continue(p, [Idle EXCEPT !.pc = "registration", !.now = now, !.ceremony = m,
                                      !.capability = ceremonies[m].capability])
      BY <2>1 DEF RegistrationFinish
    <3>2. PICK new : new = [Idle EXCEPT !.pc = "registration", !.now = now, !.ceremony = m,
                                        !.capability = ceremonies[m].capability]
      OBVIOUS
    <3>3. new.pc = "registration"
      BY <3>2 DEF Idle
    <3> QED
      BY <3>1, <3>2, <3>3 DEF Continue
  <2>3. PICK new : new = [Nothing EXCEPT !.authenticator = response.authenticator]
    OBVIOUS
  <2>4. /\ task'[p] = frame /\ verifying'[p] = new
        /\ \A q \in Task : q # p => task'[q] = task[q] /\ verifying'[q] = verifying[q]
    BY <1>0, <2>1, <2>2, <2>3 DEF Note
  <2>5. new.exclude = {} /\ ~new.read /\ new.authenticator = response.authenticator
    BY <2>3 DEF Nothing
  <2>6. [ceremony |-> frame.ceremony, authenticator |-> new.authenticator] \in created'
    BY <2>1, <2>4, <2>5 DEF EngineStep, EngineTypeOK
  <2> QED
    BY <2>1, <2>2, <2>4, <2>5, <2>6, OthersStayPrepared DEF Prepared
<1>4. ASSUME NEW p \in Task, FinishLogin(p)
      PROVE  FramesArePrepared'
  <2>1. PICK response \in signed :
           LoginFinish(p) /\ Note(p, [Nothing EXCEPT !.response = response]) /\ UNCHANGED created
    BY <1>4 DEF FinishLogin
  <2>2. PICK frame : task' = [task EXCEPT ![p] = frame] /\ frame.pc = "authentication"
    <3>1. PICK m \in CeremonyId, u \in Users, now \in Now :
             Continue(p, [Idle EXCEPT !.pc = "authentication", !.now = now, !.ceremony = m,
                                      !.user = u, !.epoch = users[u].epoch,
                                      !.began = Invalidations(u)])
      BY <2>1 DEF LoginFinish
    <3>2. PICK new : new = [Idle EXCEPT !.pc = "authentication", !.now = now, !.ceremony = m,
                                        !.user = u, !.epoch = users[u].epoch,
                                        !.began = Invalidations(u)]
      OBVIOUS
    <3>3. new.pc = "authentication"
      BY <3>2 DEF Idle
    <3> QED
      BY <3>1, <3>2, <3>3 DEF Continue
  <2>3. PICK new : new = [Nothing EXCEPT !.response = response]
    OBVIOUS
  <2>4. /\ task'[p] = frame /\ verifying'[p] = new
        /\ \A q \in Task : q # p => task'[q] = task[q] /\ verifying'[q] = verifying[q]
    BY <1>0, <2>1, <2>2, <2>3 DEF Note
  <2>5. new.exclude = {} /\ ~new.read
    BY <2>3 DEF Nothing
  <2> QED
    BY <2>1, <2>2, <2>4, <2>5, OthersStayPrepared DEF Prepared
<1>5. ASSUME NEW p \in Task, VerifyLogin(p)
      PROVE  FramesArePrepared'
  <2>1. PICK x : /\ task[p].pc = "authentication" /\ UNCHANGED <<vars, created>>
                 /\ Note(p, [verifying[p] EXCEPT !.read = TRUE, !.updated = x])
    BY <1>5 DEF VerifyLogin
  <2>2. PICK new : new = [verifying[p] EXCEPT !.read = TRUE, !.updated = x]
    OBVIOUS
  <2>3. /\ task'[p] = task[p] /\ verifying'[p] = new /\ UNCHANGED credentials
        /\ \A q \in Task : q # p => task'[q] = task[q] /\ verifying'[q] = verifying[q]
    BY <1>0, <2>1, <2>2 DEF Note, vars
  <2>4. new.exclude = verifying[p].exclude
    BY <1>0, <2>2 DEF Entry
  <2>5. \A c \in new.exclude : credentials'[c].status # "absent"
    BY <1>0, <2>3, <2>4 DEF EngineStep, AuthenticatorInv, FramesArePrepared, Prepared
  <2> QED
    BY <2>1, <2>3, <2>5, OthersStayPrepared DEF Prepared
<1>6. ASSUME NEW p \in Task, OperatorRequest(p), UNCHANGED engineVars
      PROVE  FramesArePrepared'
  <2>1. PICK s \in SessionId :
           \/ UNCHANGED task
           \/ Continue(p, [Idle EXCEPT !.pc = "operator", !.user = sessions[s].user])
    BY <1>6 DEF OperatorRequest, Authorize
  <2>2. PICK new : new = [Idle EXCEPT !.pc = "operator", !.user = sessions[s].user]
    OBVIOUS
  <2>3. new.pc = "operator"
    BY <2>2 DEF Idle
  <2> QED
    BY <1>6, <2>1, <2>2, <2>3, ContinuedIsPrepared, AllStayPrepared DEF Continue, engineVars
<1>7. ASSUME NEW p \in Task, ApproveRecovery(p) \/ IssueRecoverySetup(p) \/ ApproveUser(p),
             UNCHANGED engineVars
      PROVE  FramesArePrepared'
  <2>1. task' = [task EXCEPT ![p] = Idle] /\ task[p].pc = "operator"
    BY <1>7 DEF ApproveRecovery, IssueRecoverySetup, ApproveUser, Return
  <2> QED
    BY <1>0, <1>7, <2>1, ContinuedIsPrepared DEF engineVars
<1>8. ASSUME RecoveryRequest \/ BreakGlass \/ Tick \/ LoginStart, UNCHANGED engineVars
      PROVE  FramesArePrepared'
  BY <1>8, AllStayPrepared DEF RecoveryRequest, BreakGlass, Tick, LoginStart, engineVars
<1>9. ASSUME NEW m, NEW c, CreatePasskey(m, c) \/ Sign(m, c)
      PROVE  FramesArePrepared'
  BY <1>9, AllStayPrepared DEF CreatePasskey, Sign, vars
<1> QED
  BY <1>0, <1>1, <1>2, <1>3, <1>4, <1>5, <1>6, <1>7, <1>8, <1>9, ReadIsPrepared
  DEF PasskeyNext, Elsewhere, StartLogin

-----------------------------------------------------------------------------
(* What each step does to ceremonies, lists and homes.                      *)

(* The ceremony that InsertSetup inserts has the list that was read. *)
LEMMA InsertedList ==
    ASSUME EngineStep, NEW p \in Task, InsertSetup(p)
    PROVE  \E m \in CeremonyId, k \in CapabilityId, u \in UserId, E \in SUBSET CredentialId :
              /\ ceremonies[m].status = "absent" /\ ceremonies'[m].user = u
              /\ ceremonies'[m].capability = k /\ excluded'[m] = E
              /\ \A n \in CeremonyId : n # m =>
                    ceremonies'[n] = ceremonies[n] /\ excluded'[n] = excluded[n]
              /\ capabilities[k].status # "absent" /\ capabilities[k].user = u
              /\ MissesOnlyCurrent(E, k, u)
              /\ \A c \in E : credentials[c].status # "absent"
              /\ UNCHANGED <<credentials, home, created>>
<1>1. PICK frame, entry : frame = task[p] /\ entry = verifying[p]
  OBVIOUS
<1>2. /\ TablesTypeOK /\ frame \in Frame /\ entry \in Entry
      /\ Prepared(frame, entry) /\ FrameAgrees(frame)
  BY <1>1, EngineStepKeeps DEF EngineStep, TypeOK, EngineTypeOK, AuthenticatorInv,
     FramesArePrepared, SessionInv, RegistrationInv
<1>3. PICK m \in CeremonyId : insert_ceremony(m, "registration", frame.user, frame.capability,
                                              frame.now + CeremonyTtl)
  BY <1>1 DEF InsertSetup, SetupInsert
<1>4. /\ frame.pc = "setup_insert" /\ entry.read
      /\ excluded' = [n \in CeremonyId |-> IF ceremonies'[n] # ceremonies[n]
                                           THEN entry.exclude ELSE excluded[n]]
      /\ UNCHANGED <<home, created>>
  BY <1>1 DEF InsertSetup, SetupInsert
<1>5. /\ ceremonies[m].status = "absent" /\ ceremonies'[m].status = "open"
      /\ ceremonies'[m].user = frame.user /\ ceremonies'[m].capability = frame.capability
      /\ \A n \in CeremonyId : n # m => ceremonies'[n] = ceremonies[n]
      /\ UNCHANGED credentials
  BY <1>2, <1>3 DEF insert_ceremony, TablesTypeOK
<1>6. /\ excluded'[m] = entry.exclude
      /\ \A n \in CeremonyId : n # m => excluded'[n] = excluded[n]
  BY <1>4, <1>5
<1>7. /\ frame.capability \in CapabilityId /\ frame.user \in UserId
      /\ capabilities[frame.capability].status # "absent"
      /\ capabilities[frame.capability].user = frame.user
      /\ MissesOnlyCurrent(entry.exclude, frame.capability, frame.user)
      /\ entry.exclude \in SUBSET CredentialId
      /\ \A c \in entry.exclude : credentials[c].status # "absent"
  BY <1>2, <1>4 DEF Prepared, FrameAgrees, Frame, Entry
<1> QED
  BY <1>4, <1>5, <1>6, <1>7

(* The passkey that CommitRegistration inserts is held by the authenticator *)
(* that answered the challenge.                                             *)
LEMMA CommittedHome ==
    ASSUME EngineStep, NEW p \in Task, CommitRegistration(p)
    PROVE  \E m \in CeremonyId, c \in CredentialId, a \in Authenticator :
              /\ credentials[c].status = "absent" /\ credentials'[c].ceremony = m
              /\ credentials'[c].status # "absent"
              /\ [ceremony |-> m, authenticator |-> a] \in created
              /\ home'[c] = a
              /\ \A d \in CredentialId : d # c =>
                    credentials'[d] = credentials[d] /\ home'[d] = home[d]
              /\ UNCHANGED <<excluded, created>>
<1>1. PICK frame, entry : frame = task[p] /\ entry = verifying[p]
  OBVIOUS
<1>2. /\ TablesTypeOK /\ frame \in Frame /\ entry \in Entry
      /\ Prepared(frame, entry)
      /\ created \subseteq [ceremony : CeremonyId, authenticator : Authenticator]
  BY <1>1, EngineStepKeeps DEF EngineStep, TypeOK, EngineTypeOK, AuthenticatorInv,
     FramesArePrepared
<1>3. PICK c \in CredentialId : complete_registration(frame.ceremony, frame.capability, c, frame.now)
  BY <1>1 DEF CommitRegistration, RegistrationCommit
<1>4. /\ frame.pc = "registration"
      /\ home' = [d \in CredentialId |-> IF credentials'[d] # credentials[d]
                                         THEN entry.authenticator ELSE home[d]]
      /\ UNCHANGED <<excluded, created>>
  BY <1>1 DEF CommitRegistration, RegistrationCommit
<1>5. [ceremony |-> frame.ceremony, authenticator |-> entry.authenticator] \in created
  BY <1>2, <1>4 DEF Prepared
<1>6. frame.ceremony \in CeremonyId /\ entry.authenticator \in Authenticator
  BY <1>2, <1>5
<1>7. /\ credentials[c].status = "absent" /\ credentials'[c].ceremony = frame.ceremony
      /\ credentials'[c].status = "live"
      /\ \A d \in CredentialId : d # c => credentials'[d] = credentials[d]
  BY <1>2, <1>3 DEF complete_registration, TablesTypeOK
<1>8. home'[c] = entry.authenticator /\ \A d \in CredentialId : d # c => home'[d] = home[d]
  BY <1>4, <1>7
<1> QED
  BY <1>4, <1>5, <1>6, <1>7, <1>8

(* Only InsertSetup inserts a ceremony to register with. *)
LEMMA OthersInsertLogins ==
    ASSUME EngineStep, ~\E p \in Task : InsertSetup(p)
    PROVE  \A m \in CeremonyId :
              (ceremonies[m].status = "absent" /\ ceremonies'[m].status # "absent")
                 => ceremonies'[m].kind = "authentication"
<1>0. TablesTypeOK /\ PasskeyNext /\ TablesInv
  BY EngineStepKeeps DEF EngineStep
<1>1. ASSUME LoginStart
      PROVE  \A m \in CeremonyId :
                (ceremonies[m].status = "absent" /\ ceremonies'[m].status # "absent")
                   => ceremonies'[m].kind = "authentication"
  BY <1>0, <1>1 DEF LoginStart, insert_ceremony, TablesTypeOK
<1>2. ASSUME NEW m, ceremonies' = [ceremonies EXCEPT ![m].status = "consumed"],
             m \in CeremonyId => ceremonies[m].status = "open"
      PROVE  NoNewCeremony
  BY <1>0, <1>2 DEF NoNewCeremony, TablesTypeOK
<1>3. ASSUME NEW p \in Task, CommitRegistration(p) \/ CommitLogin(p)
      PROVE  NoNewCeremony
  BY <1>2, <1>3 DEF CommitRegistration, RegistrationCommit, complete_registration,
     RegistrationCommits, CommitLogin, LoginCommit, complete_authentication, CeremonyOpen
<1>4. ASSUME NEW p \in Task, ApproveRecovery(p)
      PROVE  NoNewCeremony
  BY <1>0, <1>4, approve_recovery_Keeps DEF ApproveRecovery
<1>5. ASSUME BreakGlass
      PROVE  NoNewCeremony
  BY <1>0, <1>5, break_glass_Keeps DEF BreakGlass
<1>6. ASSUME UNCHANGED ceremonies
      PROVE  NoNewCeremony
  BY <1>6 DEF NoNewCeremony
<1>7. LoginStart \/ NoNewCeremony
  BY <1>0, <1>3, <1>4, <1>5, <1>6 DEF PasskeyNext, StartSetup, SetupStart, ReadExcluded, CreatePasskey,
     FinishRegistration, RegistrationFinish, StartLogin, Sign, FinishLogin, LoginFinish,
     VerifyLogin, EndEarly, Abort, Elsewhere, RecoveryRequest, create_recovery, Tick, OperatorRequest,
     Authorize, session, IssueRecoverySetup, issue_recovery_setup, ApproveUser, approve_user_with_setup,
     vars, tables
<1> QED
  BY <1>1, <1>7 DEF NoNewCeremony

(* The steps that write lists, homes or responses. *)
LEMMA StepKinds ==
    ASSUME EngineStep
    PROVE  \/ \E p \in Task : InsertSetup(p)
           \/ \E p \in Task : CommitRegistration(p)
           \/ \E m \in CeremonyId, a \in Authenticator : CreatePasskey(m, a)
           \/ UNCHANGED <<home, excluded, created>>
<1>1. PasskeyNext
  BY DEF EngineStep
<1> QED
  BY <1>1 DEF PasskeyNext, StartSetup, ReadExcluded, FinishRegistration, StartLogin, Sign,
     FinishLogin, VerifyLogin, CommitLogin, EndEarly, Elsewhere, engineVars

(* A ceremony keeps the list it was inserted with. *)
LEMMA ListsAreKept ==
    ASSUME EngineStep, NEW m \in CeremonyId, ceremonies[m].status # "absent"
    PROVE  excluded'[m] = excluded[m]
<1>1. ASSUME NEW p \in Task, InsertSetup(p)
      PROVE  excluded'[m] = excluded[m]
  <2>1. PICK n \in CeremonyId :
           /\ ceremonies[n].status = "absent"
           /\ \A o \in CeremonyId : o # n => excluded'[o] = excluded[o]
    BY <1>1, InsertedList
  <2> QED
    BY <2>1
<1>2. CASE \E p \in Task : CommitRegistration(p)
  BY <1>2 DEF CommitRegistration
<1>3. CASE \E n \in CeremonyId, a \in Authenticator : CreatePasskey(n, a)
  BY <1>3 DEF CreatePasskey
<1> QED
  BY <1>1, <1>2, <1>3, StepKinds

(* A registration still has a token. *)
LEMMA CeremoniesKeepTokens ==
    ASSUME EngineStep
    PROVE  CeremoniesHaveTokens'
<1>0. CeremonyRowsKept /\ CeremoniesHaveTokens
  BY EngineStepKeeps DEF EngineStep, AuthenticatorInv
<1>1. CASE \E p \in Task : InsertSetup(p)
  <2>1. PICK p \in Task : InsertSetup(p)
    BY <1>1
  <2>2. PICK m \in CeremonyId, k \in CapabilityId :
           /\ ceremonies'[m].capability = k
           /\ \A n \in CeremonyId : n # m => ceremonies'[n] = ceremonies[n]
    BY <2>1, InsertedList
  <2> QED
    BY <1>0, <2>2, NoneAssumption DEF CeremoniesHaveTokens
<1>2. CASE ~\E p \in Task : InsertSetup(p)
  BY <1>0, <1>2, OthersInsertLogins DEF CeremoniesHaveTokens, CeremonyRowsKept
<1> QED
  BY <1>1, <1>2

(* Homes and lists still name passkeys that exist. *)
LEMMA ListsStayOfPasskeys ==
    ASSUME EngineStep
    PROVE  ListsAreOfPasskeys'
<1>0. CredentialsKeep /\ ListsAreOfPasskeys /\ EngineTypeOK
  BY EngineStepKeeps DEF EngineStep, AuthenticatorInv
<1>1. CASE \E p \in Task : InsertSetup(p)
  <2>1. PICK p \in Task : InsertSetup(p)
    BY <1>1
  <2>2. PICK m \in CeremonyId, E \in SUBSET CredentialId :
           /\ excluded'[m] = E /\ \A n \in CeremonyId : n # m => excluded'[n] = excluded[n]
           /\ \A c \in E : credentials[c].status # "absent"
           /\ UNCHANGED <<credentials, home>>
    BY <2>1, InsertedList
  <2> QED
    BY <1>0, <2>2 DEF ListsAreOfPasskeys
<1>2. CASE \E p \in Task : CommitRegistration(p)
  <2>1. PICK p \in Task : CommitRegistration(p)
    BY <1>2
  <2>2. PICK c \in CredentialId :
           /\ credentials'[c].status # "absent" /\ UNCHANGED excluded
           /\ \A d \in CredentialId : d # c => home'[d] = home[d]
    BY <2>1, CommittedHome
  <2> QED
    BY <1>0, <2>2 DEF ListsAreOfPasskeys, CredentialsKeep, EngineTypeOK
<1>3. CASE UNCHANGED <<home, excluded>>
  BY <1>0, <1>3 DEF ListsAreOfPasskeys, CredentialsKeep, EngineTypeOK
<1> QED
  BY <1>1, <1>2, <1>3, StepKinds DEF CreatePasskey

(* An authenticator obeyed the list when it answered, and a list holds no   *)
(* passkey that is registered later.                                        *)
LEMMA ResponsesStayObedient ==
    ASSUME EngineStep
    PROVE  CreatedObeysList'
<1>0. /\ CeremonyRowsKept /\ CreatedObeysList /\ ListsAreOfPasskeys /\ EngineTypeOK
  BY EngineStepKeeps DEF EngineStep, AuthenticatorInv
<1>1. ASSUME NEW response \in created
      PROVE  /\ ceremonies'[response.ceremony].status # "absent"
             /\ \A c \in excluded'[response.ceremony] : home'[c] # response.authenticator
  <2>1. PICK m : m = response.ceremony
    OBVIOUS
  <2>2. /\ m \in CeremonyId /\ ceremonies[m].status # "absent"
        /\ \A c \in excluded[m] : home[c] # response.authenticator
    BY <1>0, <1>1, <2>1 DEF CreatedObeysList, EngineTypeOK
  <2>3. ceremonies'[m].status # "absent" /\ excluded'[m] = excluded[m]
    BY <1>0, <2>2, ListsAreKept DEF CeremonyRowsKept
  <2>4. \A c \in excluded[m] : home'[c] = home[c]
    <3>1. ASSUME NEW p \in Task, CommitRegistration(p)
          PROVE  \A c \in excluded[m] : home'[c] = home[c]
      <4>1. PICK d \in CredentialId :
               /\ credentials[d].status = "absent"
               /\ \A c \in CredentialId : c # d => home'[c] = home[c]
        BY <3>1, CommittedHome
      <4>2. \A c \in excluded[m] : c \in CredentialId /\ credentials[c].status # "absent"
        BY <1>0, <2>2 DEF ListsAreOfPasskeys, EngineTypeOK
      <4> QED
        BY <4>1, <4>2
    <3> QED
      BY <3>1, StepKinds DEF InsertSetup, CreatePasskey
  <2> QED
    BY <2>1, <2>2, <2>3, <2>4
<1>2. ASSUME NEW m \in CeremonyId, NEW a \in Authenticator, CreatePasskey(m, a)
      PROVE  CreatedObeysList'
  <2>1. /\ ceremonies[m].status # "absent" /\ UNCHANGED <<ceremonies, excluded, home>>
        /\ \A c \in excluded[m] : home[c] # a
        /\ created' = created \cup {[ceremony |-> m, authenticator |-> a]}
    BY <1>2 DEF CreatePasskey, vars, tables
  <2> QED
    BY <1>1, <2>1 DEF CreatedObeysList
<1>3. CASE UNCHANGED created
  BY <1>1, <1>3 DEF CreatedObeysList
<1> QED
  BY <1>2, <1>3, StepKinds DEF InsertSetup, CommitRegistration

(* Lists go on to miss only passkeys of the present epoch. *)
LEMMA ListsStayCurrent ==
    ASSUME EngineStep
    PROVE  ListsMissOnlyCurrent'
<1>0. /\ CeremonyRowsKept /\ CeremonyServesCapability /\ ListsMissOnlyCurrent
      /\ CeremoniesHaveTokens /\ SessionInv /\ SessionInv' /\ TokenTablesInv /\ Transaction
  BY EngineStepKeeps DEF EngineStep, AuthenticatorInv
<1> SUFFICES ASSUME NEW m \in CeremonyId, NEW E \in SUBSET CredentialId, NEW k \in CapabilityId,
                    NEW u \in UserId,
                    ceremonies'[m].status # "absent", ceremonies'[m].kind # "authentication",
                    excluded'[m] = E, ceremonies'[m].capability = k, ceremonies'[m].user = u
             PROVE  MissesOnlyCurrent(E, k, u)'
  BY DEF ListsMissOnlyCurrent
<1>1. CASE ceremonies[m].status # "absent"
  <2>1. /\ ceremonies[m].kind # "authentication" /\ ceremonies[m].capability = k
        /\ ceremonies[m].user = u /\ excluded[m] = E
    BY <1>0, <1>1, ListsAreKept DEF CeremonyRowsKept
  <2>2. MissesOnlyCurrent(E, k, u)
    BY <1>0, <1>1, <2>1 DEF ListsMissOnlyCurrent
  <2>3. capabilities[k].status # "absent" /\ capabilities[k].user = u
    BY <1>0, <1>1, <2>1, NoneAssumption DEF CeremonyServesCapability
  <2> QED
    BY <1>0, <2>2, <2>3, MissesStays
<1>2. CASE ceremonies[m].status = "absent"
  <2>1. PICK p \in Task : InsertSetup(p)
    BY <1>2, OthersInsertLogins
  <2>2. PICK n \in CeremonyId, j \in CapabilityId, v \in UserId, F \in SUBSET CredentialId :
           /\ ceremonies'[n].user = v /\ ceremonies'[n].capability = j /\ excluded'[n] = F
           /\ \A o \in CeremonyId : o # n => ceremonies'[o] = ceremonies[o]
           /\ capabilities[j].status # "absent" /\ capabilities[j].user = v
           /\ MissesOnlyCurrent(F, j, v)
    BY <2>1, InsertedList
  <2>3. n = m
    BY <1>2, <2>2
  <2>4. MissesOnlyCurrent(F, j, v)'
    BY <1>0, <2>2, MissesStays
  <2>5. F = E /\ j = k /\ v = u
    BY <2>2, <2>3
  <2> QED
    BY <2>4, <2>5
<1> QED
  BY <1>1, <1>2

(* A passkey with a home already was registered in the same epoch as any    *)
(* that its authenticator is given again: the list did not name it.         *)
LEMMA CommittedIsCurrent ==
    ASSUME EngineStep, NEW m \in CeremonyId, NEW c \in CredentialId, NEW d \in CredentialId,
           c # d, credentials[c].status = "absent", credentials'[c].status # "absent",
           credentials'[c].ceremony = m,
           home[d] # None, [ceremony |-> m, authenticator |-> home[d]] \in created,
           credentials'[c].user = credentials[d].user, credentials[d].user \notin Operators
    PROVE  /\ credentials'[c].epoch = credentials[d].epoch
           /\ RegisteredByRecovery(c)' /\ RegisteredByRecovery(d)
<1>0. /\ TablesInv /\ TablesTypeOK /\ Transaction /\ CeremonyRowsKept /\ CapabilitiesKeep
      /\ EngineTypeOK /\ CeremoniesHaveTokens /\ ListsAreOfPasskeys /\ CreatedObeysList
      /\ ListsMissOnlyCurrent
  BY EngineStepKeeps DEF EngineStep, AuthenticatorInv
<1>1. PICK E, k, u : E = excluded[m] /\ k = ceremonies[m].capability /\ u = ceremonies[m].user
  OBVIOUS
<1>2. /\ ceremonies[m].status = "open" /\ ceremonies[m].kind # "authentication"
      /\ credentials'[c].user = u /\ credentials'[c].epoch = users[u].epoch
      /\ k # None => k \in CapabilityId /\ capabilities[k].status = "open"
  BY <1>0, <1>1, NewPasskey
<1>3. k # None /\ k \in CapabilityId /\ capabilities[k].status = "open"
  BY <1>0, <1>1, <1>2 DEF CeremoniesHaveTokens
<1>4. credentials[d].status # "absent" /\ d \notin E
  BY <1>0, <1>1 DEF ListsAreOfPasskeys, CreatedObeysList
<1>5. u \in UserId /\ E \in SUBSET CredentialId
  BY <1>0, <1>1, <1>2, <1>4 DEF TablesInv, LiveRowsHaveUsers, Users, EngineTypeOK
<1>6. MissesOnlyCurrent(E, k, u)
  BY <1>0, <1>1, <1>2, <1>3, <1>5 DEF ListsMissOnlyCurrent
<1>7. /\ credentials[d].epoch = users[u].epoch /\ RegisteredByRecovery(d)
      /\ capabilities[k].purpose = "recovery_setup"
  BY <1>2, <1>3, <1>4, <1>6 DEF MissesOnlyCurrent
<1>8. ceremonies'[m].capability = k /\ capabilities'[k].purpose = "recovery_setup" /\ m # None
  BY <1>0, <1>1, <1>2, <1>3, <1>7, NoneAssumption DEF CeremonyRowsKept, CapabilitiesKeep
<1>9. RegisteredByRecovery(c)'
  BY <1>3, <1>8 DEF RegisteredByRecovery, CapabilityOf
<1> QED
  BY <1>2, <1>7, <1>9

(* Two passkeys that exist stay of one epoch, if they are. *)
LEMMA EpochsStay ==
    ASSUME EngineStep, NEW c \in CredentialId, NEW d \in CredentialId, c # d,
           home[c] # None, home[c] = home[d],
           credentials'[c].user = credentials'[d].user, credentials'[c].user \notin Operators'
    PROVE  /\ credentials'[c].epoch = credentials'[d].epoch
           /\ RegisteredByRecovery(c)' /\ RegisteredByRecovery(d)'
<1>1. /\ CredentialsKeep /\ Operators \subseteq Operators' /\ SessionInv /\ Transaction
      /\ ListsAreOfPasskeys /\ OneEpochPerAuthenticator
  BY EngineStepKeeps DEF EngineStep, AuthenticatorInv
<1>2. credentials[c].status # "absent" /\ credentials[d].status # "absent"
  BY <1>1 DEF ListsAreOfPasskeys
<1>3. /\ credentials'[c].user = credentials[c].user /\ credentials'[d].user = credentials[d].user
      /\ credentials'[c].epoch = credentials[c].epoch
      /\ credentials'[d].epoch = credentials[d].epoch
  BY <1>1, <1>2 DEF CredentialsKeep
<1>4. /\ credentials[c].epoch = credentials[d].epoch
      /\ RegisteredByRecovery(c) /\ RegisteredByRecovery(d)
  BY <1>1, <1>3 DEF OneEpochPerAuthenticator
<1> QED
  BY <1>1, <1>2, <1>3, <1>4, ByRecoveryStays

(* No step gives an authenticator passkeys of two epochs. *)
LEMMA EpochsStayOne ==
    ASSUME EngineStep
    PROVE  OneEpochPerAuthenticator'
<1> DEFINE Agree(c, d) ==
              (/\ home'[c] # None /\ home'[c] = home'[d]
               /\ credentials'[c].user = credentials'[d].user
               /\ credentials'[c].user \notin Operators')
              => /\ credentials'[c].epoch = credentials'[d].epoch
                 /\ RegisteredByRecovery(c)' /\ RegisteredByRecovery(d)'
<1>1. ASSUME NEW c \in CredentialId, NEW d \in CredentialId, c # d,
             home'[c] = home[c], home'[d] = home[d]
      PROVE  Agree(c, d)
  BY <1>1, EpochsStay
<1>2. ASSUME NEW p \in Task, CommitRegistration(p),
             NEW c \in CredentialId, NEW d \in CredentialId, c # d
      PROVE  Agree(c, d)
  <2>1. PICK m \in CeremonyId, x \in CredentialId, a \in Authenticator :
           /\ credentials[x].status = "absent" /\ credentials'[x].ceremony = m
           /\ credentials'[x].status # "absent"
           /\ [ceremony |-> m, authenticator |-> a] \in created /\ home'[x] = a
           /\ \A y \in CredentialId : y # x =>
                 credentials'[y] = credentials[y] /\ home'[y] = home[y]
    BY <1>2, CommittedHome
  <2>2. ASSUME NEW y \in CredentialId, y # x, home'[x] # None, home'[x] = home'[y],
               credentials'[x].user = credentials'[y].user, credentials'[x].user \notin Operators'
        PROVE  /\ credentials'[x].epoch = credentials'[y].epoch
               /\ RegisteredByRecovery(x)' /\ RegisteredByRecovery(y)'
    <3>1. /\ Operators \subseteq Operators' /\ SessionInv /\ Transaction /\ ListsAreOfPasskeys
      BY EngineStepKeeps DEF EngineStep, AuthenticatorInv
    <3>2. /\ credentials'[y] = credentials[y] /\ home[y] = a /\ home[y] # None
          /\ credentials[y].user \notin Operators
      BY <2>1, <2>2, <3>1
    <3>3. /\ credentials'[x].epoch = credentials[y].epoch
          /\ RegisteredByRecovery(x)' /\ RegisteredByRecovery(y)
      BY <2>1, <2>2, <3>2, CommittedIsCurrent
    <3>4. RegisteredByRecovery(y)'
      BY <3>1, <3>2, <3>3, ByRecoveryStays DEF ListsAreOfPasskeys
    <3> QED
      BY <3>2, <3>3, <3>4
  <2>3. CASE c = x
    BY <1>2, <2>2, <2>3
  <2>4. CASE d = x
    BY <1>2, <2>2, <2>4
  <2>5. CASE c # x /\ d # x
    BY <1>1, <1>2, <2>1, <2>5
  <2> QED
    BY <2>3, <2>4, <2>5
<1>3. ASSUME UNCHANGED home, NEW c \in CredentialId, NEW d \in CredentialId, c # d
      PROVE  Agree(c, d)
  BY <1>1, <1>3
<1>4. \A c, d \in CredentialId : c # d => Agree(c, d)
  BY <1>2, <1>3, StepKinds DEF InsertSetup, CreatePasskey
<1> QED
  BY <1>4 DEF OneEpochPerAuthenticator

(* Every step preserves the invariant of registrations. *)
LEMMA AuthenticatorNext ==
    ASSUME SessionInv, SessionInv', RegistrationTablesInv, LoginInv, AuthenticatorInv,
           [PasskeyNext]_passkeyVars
    PROVE  AuthenticatorInv'
<1>1. Transaction
  BY PasskeyStepIsStep, StepIsTransaction DEF SessionInv
<1>2. TokenTablesInv'
  BY <1>1, TokenTablesNext DEF AuthenticatorInv
<1>3. CASE PasskeyNext
  <2>1. EngineStep
    BY <1>1, <1>3 DEF EngineStep, LoginInv
  <2>2. CeremoniesHaveTokens' /\ ListsAreOfPasskeys' /\ CreatedObeysList'
    BY <2>1, CeremoniesKeepTokens, ListsStayOfPasskeys, ResponsesStayObedient
  <2>3. ListsMissOnlyCurrent' /\ FramesArePrepared' /\ OneEpochPerAuthenticator'
    BY <2>1, ListsStayCurrent, FramesStayPrepared, EpochsStayOne
  <2> QED
    BY <1>2, <2>2, <2>3 DEF AuthenticatorInv
<1>4. CASE UNCHANGED passkeyVars
  <2>1. UNCHANGED <<users, credentials, capabilities, ceremonies, task, home, excluded, created,
                    verifying>>
    BY <1>4 DEF passkeyVars, engineVars, vars, tables
  <2>2. CeremoniesHaveTokens' /\ ListsAreOfPasskeys' /\ CreatedObeysList'
    BY <2>1 DEF AuthenticatorInv, CeremoniesHaveTokens, ListsAreOfPasskeys, CreatedObeysList
  <2>3. ListsMissOnlyCurrent' /\ FramesArePrepared' /\ OneEpochPerAuthenticator'
    BY <2>1 DEF AuthenticatorInv, ListsMissOnlyCurrent, FramesArePrepared, Prepared,
       MissesOnlyCurrent, OneEpochPerAuthenticator, RegisteredByRecovery, CapabilityOf, Operators
  <2> QED
    BY <1>2, <2>2, <2>3 DEF AuthenticatorInv
<1> QED
  BY <1>3, <1>4

(* No token is issued yet, and no authenticator holds two passkeys of a     *)
(* user who is not an operator.                                             *)
LEMMA AuthenticatorInit == PasskeyInit => AuthenticatorInv
<1> SUFFICES ASSUME PasskeyInit PROVE AuthenticatorInv
  OBVIOUS
<1>1. /\ \A k \in CapabilityId : capabilities[k].status = "absent"
      /\ \A r \in RecoveryId : recoveries[r].stage = "absent"
      /\ \A m \in CeremonyId : ceremonies[m].status = "absent"
      /\ \A c \in CredentialId : credentials[c].status # "revoked"
  BY DEF PasskeyInit, Init, NoCapability, NoRecovery, NoCeremony, NoCredential
<1>2. TokenTablesInv
  BY <1>1 DEF TokenTablesInv, TokensHaveEpochs, OneSetupPerUser, ApprovalsAdvance,
     RevokedAreOperators
<1>3. CeremoniesHaveTokens /\ CreatedObeysList /\ ListsMissOnlyCurrent
  BY <1>1 DEF CeremoniesHaveTokens, CreatedObeysList, ListsMissOnlyCurrent, PasskeyInit
<1>4. ListsAreOfPasskeys
  BY DEF PasskeyInit, Init, ListsAreOfPasskeys
<1>5. FramesArePrepared
  <2>1. Idle.pc = "idle" /\ ~Nothing.read /\ Nothing.exclude = {}
    BY DEF Idle, Nothing
  <2>2. \A p \in Task : task[p] = Idle /\ verifying[p] = Nothing
    BY DEF PasskeyInit, Init
  <2> QED
    BY <2>1, <2>2 DEF FramesArePrepared, Prepared
<1>6. OneEpochPerAuthenticator
  <2> SUFFICES ASSUME NEW c \in CredentialId, NEW d \in CredentialId, c # d, home[c] # None,
                      home[c] = home[d], credentials[c].user = credentials[d].user,
                      credentials[c].user \notin Operators
               PROVE  FALSE
    BY DEF OneEpochPerAuthenticator
  <2>1. c \in DOMAIN Enrolled /\ d \in DOMAIN Enrolled /\ Keeper[c] = Keeper[d]
    BY DEF PasskeyInit
  <2>2. /\ credentials[c].user = Enrolled[c] /\ credentials[d].user = Enrolled[d]
    BY <2>1 DEF PasskeyInit, Init
  <2>3. Enrolled[c] \notin InitialOperators
    <3>1. users = [u \in UserId |->
                     IF u \in InitialUsers
                     THEN [role    |-> IF u \in InitialOperators THEN "operator" ELSE "user",
                           epoch   |-> 1, created |-> 0]
                     ELSE NoUser]
      BY DEF PasskeyInit, Init
    <3>2. Enrolled[c] \in UserId /\ Enrolled[c] \in InitialUsers
      BY <2>1, InitialAssumption DEF InitialUsers
    <3> QED
      BY <2>2, <3>1, <3>2 DEF Operators
  <2> QED
    BY <2>1, <2>2, <2>3, PasskeyAssumption
<1> QED
  BY <1>2, <1>3, <1>4, <1>5, <1>6 DEF AuthenticatorInv

(* What every challenge in flight excludes, and what every list may miss. *)
THEOREM AuthenticatorInvariant == PasskeySpec => []AuthenticatorInv
  BY AuthenticatorInit, AuthenticatorNext, LoginInvariant, PasskeysImplementService,
     SessionInvariant, RegistrationTablesInvariant, PTL DEF PasskeySpec

(* An authenticator that a user registered twice was registered both times  *)
(* with recovery tokens of one epoch, although the exclude list that should *)
(* prevent it is read a request before the challenge and obeyed at any time *)
(* after it: whatever an old list misses was registered after an approval   *)
(* that consumed its token, or with another token open at the same time.    *)
THEOREM AuthenticatorsRepeatInOneEpoch == PasskeySpec => []OneEpochPerAuthenticator
<1>1. AuthenticatorInv => OneEpochPerAuthenticator
  BY DEF AuthenticatorInv
<1> QED
  BY <1>1, AuthenticatorInvariant, PTL

=============================================================================
