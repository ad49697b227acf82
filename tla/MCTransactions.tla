---------------------------- MODULE MCTransactions ----------------------------
(* Small instances of StoreTransactions for TLC.                            *)
EXTENDS StoreTransactions

CONSTANTS op, u, c, s, l, k, m1, m2, b1, b2, r1, r2

NoCall == [method |-> "session", user |-> op, ceremony |-> None, source |-> None,
           session |-> None, recovery |-> None]

RowOf(table, status, user, source) ==
    [table |-> table, status |-> status, user |-> user, epoch |-> 1, source |-> source]

(* An operator with a passkey and a session, a login under way and a        *)
(* recovery request to approve.                                             *)
SignedInRows ==
    op :> RowOf("users", "open", None, None)
    @@ u :> RowOf("users", "open", None, None)
    @@ c :> RowOf("credentials", "open", op, None)
    @@ s :> RowOf("sessions", "open", op, c)
    @@ l :> RowOf("ceremonies", "open", None, None)
    @@ r2 :> RowOf("recoveries", "pending", op, None)

SessionCalls ==
    {[NoCall EXCEPT !.method = "complete_authentication", !.ceremony = l, !.source = c],
     [NoCall EXCEPT !.method = "delete_session", !.session = s],
     [NoCall EXCEPT !.method = "approve_recovery", !.recovery = r2],
     [NoCall EXCEPT !.method = "break_glass", !.source = c],
     [NoCall EXCEPT !.method = "rotate_all_auth_epochs", !.user = None]}
    \cup {[NoCall EXCEPT !.method = "session", !.session = x] : x \in {s} \cup Tx}

(* An operator without passkey: two bootstrap ceremonies, a recovery token  *)
(* with two ceremonies and an approved recovery.                            *)
EnrollingRows ==
    op :> RowOf("users", "open", None, None)
    @@ u :> RowOf("users", "open", None, None)
    @@ k :> RowOf("capabilities", "open", op, None)
    @@ m1 :> RowOf("ceremonies", "open", op, k)
    @@ m2 :> RowOf("ceremonies", "open", op, k)
    @@ b1 :> RowOf("ceremonies", "open", op, None)
    @@ b2 :> RowOf("ceremonies", "open", op, None)
    @@ r1 :> RowOf("recoveries", "approved", op, None)

RegistrationCalls ==
    {[NoCall EXCEPT !.method = "complete_registration", !.ceremony = m, !.source = k] : m \in {m1, m2}}
    \cup {[NoCall EXCEPT !.method = "complete_registration", !.ceremony = m] : m \in {b1, b2}}
    \cup {[NoCall EXCEPT !.method = "issue_recovery_setup", !.recovery = r1],
          [NoCall EXCEPT !.method = "insert_ceremony", !.source = k],
          [NoCall EXCEPT !.method = "rotate_all_auth_epochs", !.user = None]}

(* Calls name rows that exist, so each database gets the calls about it.   *)
Starts == {SignedInRows, EnrollingRows}
AllCalls == SessionCalls \cup RegistrationCalls

TxSymmetry == Permutations(Tx)

=============================================================================
