-------------------------- MODULE TransactionProofs --------------------------
(***************************************************************************)
(* Proofs about StoreTransactions: what the methods of the store keep when *)
(* their statements interleave, for every set of transactions, calls and   *)
(* initial rows.                                                           *)
(***************************************************************************)
EXTENDS StoreTransactions, FiniteSetTheorems, TLAPS

-----------------------------------------------------------------------------
(* The statements, and the order a statement visits its rows in.            *)

(* The part of a WHERE clause that stays true of a row once it was true. *)
Candidate(statement, call, r, row) ==
    \/ statement = "use_ceremony" /\ r = call.ceremony
    \/ statement \in {"use_capability", "use_credential", "revoke_credential"} /\ r = call.source
    \/ statement \in {"revoke_session", "select_session", "extend_session"} /\ r = call.session
    \/ statement \in {"approve", "issue"} /\ r = call.recovery
    \/ statement = "advance_epoch" /\ row.table = "users" /\ OfUser(call, r)
    \/ statement = "revoke_sessions" /\ row.table = "sessions" /\ OfUser(call, row.user)
    \/ statement = "consume_ceremonies" /\ row.table = "ceremonies" /\ OfUser(call, row.user)
    \/ statement = "consume_capabilities" /\ row.table = "capabilities" /\ OfUser(call, row.user)
    \/ /\ statement = "complete_recoveries" /\ row.table = "recoveries" /\ row.user = call.user
       /\ row.status \in {"issued", "completed"}

(* The part about the status. *)
Ready(statement, row) ==
    IF statement = "approve" THEN row.status = "pending"
    ELSE IF statement = "issue" THEN row.status = "approved"
    ELSE IF statement = "complete_recoveries" THEN row.status = "issued"
    ELSE statement # "extend_session" => row.status = "open"

(* What a WHERE clause says, whatever its snapshot holds. *)
LEMMA Clauses ==
    ASSUME NEW statement, NEW call, NEW seen, NEW r, NEW row,
           Where(statement, call, seen, r, row)
    PROVE  Candidate(statement, call, r, row) /\ Ready(statement, row)
<1>1. SelectSession(call, seen, r, row) => r = call.session /\ row.status = "open"
  BY DEF SelectSession
<1>2. CASE statement = "use_ceremony"
  BY <1>2, Zenon DEF Where, Candidate, Ready
<1>3. CASE statement = "use_capability"
  BY <1>3, Zenon DEF Where, Candidate, Ready
<1>4. CASE statement = "use_credential"
  BY <1>4, Zenon DEF Where, Candidate, Ready
<1>5. CASE statement = "revoke_credential"
  BY <1>5, Zenon DEF Where, Candidate, Ready
<1>6. CASE statement = "revoke_session"
  BY <1>6, Zenon DEF Where, Candidate, Ready
<1>7. CASE statement = "extend_session"
  BY <1>7, Zenon DEF Where, Candidate, Ready
<1>8. CASE statement = "select_session"
  BY <1>8, <1>1, Zenon DEF Where, Candidate, Ready
<1>9. CASE statement = "approve"
  BY <1>9, Zenon DEF Where, Candidate, Ready
<1>10. CASE statement = "issue"
  BY <1>10, Zenon DEF Where, Candidate, Ready
<1>11. CASE statement = "advance_epoch"
  BY <1>11, Zenon DEF Where, Candidate, Ready
<1>12. CASE statement = "revoke_sessions"
  BY <1>12, Zenon DEF Where, Candidate, Ready
<1>13. CASE statement = "consume_ceremonies"
  BY <1>13, Zenon DEF Where, Candidate, Ready
<1>14. CASE statement = "consume_capabilities"
  BY <1>14, Zenon DEF Where, Candidate, Ready
<1>15. CASE statement = "complete_recoveries"
  BY <1>15, Zenon DEF Where, Candidate, Ready
<1>16. CASE statement \notin {"use_ceremony", "use_capability", "use_credential", "revoke_credential", "revoke_session", "extend_session",
             "select_session", "approve", "issue", "advance_epoch", "revoke_sessions", "consume_ceremonies",
             "consume_capabilities", "complete_recoveries"}
  BY <1>16, Zenon DEF Where, Candidate, Ready
<1> QED
  BY <1>2, <1>3, <1>4, <1>5, <1>6, <1>7, <1>8, <1>9, <1>10, <1>11, <1>12, <1>13, <1>14, <1>15, <1>16, Zenon

(* The clauses that a sweep or a lookup is sure to match. *)
LEMMA SweepClauses ==
    ASSUME NEW call, NEW seen, NEW r, NEW row, row.status = "open"
    PROVE  /\ row.table = "users" /\ OfUser(call, r) => Where("advance_epoch", call, seen, r, row)
           /\ row.table = "sessions" /\ OfUser(call, row.user)
                => Where("revoke_sessions", call, seen, r, row)
           /\ row.table = "ceremonies" /\ OfUser(call, row.user)
                => Where("consume_ceremonies", call, seen, r, row)
           /\ row.table = "capabilities" /\ OfUser(call, row.user)
                => Where("consume_capabilities", call, seen, r, row)
  BY Zenon DEF Where

(* The SET clauses. *)
LEMMA Updates ==
    ASSUME NEW t, NEW statement, NEW r, NEW row
    PROVE  Set(t, statement, r, row) =
             IF statement = "advance_epoch" THEN [row EXCEPT !.epoch = row.epoch + 1]
             ELSE IF statement \in {"use_credential", "extend_session", "select_session"} THEN row
             ELSE [row EXCEPT !.status =
                     IF statement = "approve" THEN "approved"
                     ELSE IF statement = "issue" THEN "issued"
                     ELSE IF statement = "complete_recoveries" THEN "completed"
                     ELSE "closed"]
<1>1. CASE statement = "advance_epoch"
  BY <1>1, Zenon DEF Set, NextEpoch
<1>2. CASE statement \in {"use_credential", "extend_session", "select_session"}
  BY <1>2, Zenon DEF Set
<1>3. CASE statement = "approve"
  BY <1>3, Zenon DEF Set
<1>4. CASE statement = "issue"
  BY <1>4, Zenon DEF Set
<1>5. CASE statement = "complete_recoveries"
  BY <1>5, Zenon DEF Set
<1>6. CASE statement \notin {"advance_epoch", "use_credential", "extend_session",
                             "select_session", "approve", "issue", "complete_recoveries"}
  BY <1>6, Zenon DEF Set
<1> QED
  BY <1>1, <1>2, <1>3, <1>4, <1>5, <1>6

(* The statements that transaction t has finished. *)
Done(t) == {Statements(tx[t].call)[i] : i \in 1 .. tx[t].step - 1}

(* The statements of a call, one after the other. *)
Program(call, s, n) ==
    Len(Statements(call)) = n /\ \A i \in 1 .. n : Statements(call)[i] = s[i]

(* The statements of each method, in order. *)
LEMMA Programs ==
    ASSUME NEW call \in Calls
    PROVE  /\ call.method = "complete_registration" =>
                Program(call, <<"advisory_lock", "use_ceremony",
                                IF call.source = None THEN "count_operator_credentials"
                                ELSE "use_capability",
                                "insert", "complete_recoveries">>, 5)
           /\ call.method = "complete_authentication" =>
                Program(call, <<"use_ceremony", "use_credential", "insert">>, 3)
           /\ call.method = "session" => Program(call, <<"select_session", "extend_session">>, 2)
           /\ call.method = "delete_session" => Program(call, <<"revoke_session">>, 1)
           /\ call.method = "insert_ceremony" => Program(call, <<"insert">>, 1)
           /\ call.method = "approve_recovery" =>
                Program(call, <<"approve", "advance_epoch", "revoke_sessions",
                                "consume_ceremonies", "consume_capabilities">>, 5)
           /\ call.method = "issue_recovery_setup" => Program(call, <<"issue", "insert">>, 2)
           /\ call.method = "break_glass" =>
                Program(call, <<"revoke_credential", "advance_epoch", "revoke_sessions",
                                "consume_ceremonies", "consume_capabilities", "insert">>, 6)
           /\ call.method = "rotate_all_auth_epochs" =>
                Program(call, <<"advance_epoch", "revoke_sessions",
                                "consume_ceremonies", "consume_capabilities">>, 4)
<1>1. CASE call.method = "complete_registration"
  <2>1. Statements(call) = complete_registration(call.source)
    BY <1>1, Zenon DEF Statements
  <2> QED
    BY <1>1, <2>1 DEF complete_registration, Program
<1>2. CASE call.method = "complete_authentication"
  <2>1. Statements(call) = <<"use_ceremony", "use_credential", "insert">>
    BY <1>2, Zenon DEF Statements
  <2> QED
    BY <1>2, <2>1 DEF Program
<1>3. CASE call.method = "session"
  <2>1. Statements(call) = <<"select_session", "extend_session">>
    BY <1>3, Zenon DEF Statements
  <2> QED
    BY <1>3, <2>1 DEF Program
<1>4. CASE call.method = "delete_session"
  <2>1. Statements(call) = <<"revoke_session">>
    BY <1>4, Zenon DEF Statements
  <2> QED
    BY <1>4, <2>1 DEF Program
<1>5. CASE call.method = "insert_ceremony"
  <2>1. Statements(call) = <<"insert">>
    BY <1>5, Zenon DEF Statements
  <2> QED
    BY <1>5, <2>1 DEF Program
<1>6. CASE call.method = "approve_recovery"
  <2>1. Statements(call) = <<"approve">> \o invalidate_user_auth
    BY <1>6, Zenon DEF Statements
  <2> QED
    BY <1>6, <2>1 DEF Program, invalidate_user_auth
<1>7. CASE call.method = "issue_recovery_setup"
  <2>1. Statements(call) = <<"issue", "insert">>
    BY <1>7, Zenon DEF Statements
  <2> QED
    BY <1>7, <2>1 DEF Program
<1>8. CASE call.method = "break_glass"
  <2>1. Statements(call) = <<"revoke_credential">> \o invalidate_user_auth \o <<"insert">>
    BY <1>8, Zenon DEF Statements
  <2> QED
    BY <1>8, <2>1 DEF Program, invalidate_user_auth
<1>9. CASE call.method = "rotate_all_auth_epochs"
  <2>1. Statements(call) = invalidate_user_auth
    BY <1>9, Zenon DEF Statements
  <2> QED
    BY <1>9, <2>1 DEF Program, invalidate_user_auth
<1> QED
  BY <1>1, <1>2, <1>3, <1>4, <1>5, <1>6, <1>7, <1>8, <1>9, Zenon

(* Where a transaction is in its program, and what it has finished. *)
InProgram(t) == tx[t].call \in Calls /\ tx[t].step \in 1 .. Len(Statements(tx[t].call)) + 1

(* Where a transaction is in its method, and what it has finished by then. *)
LEMMA Stages ==
    ASSUME NEW t \in Tx, InProgram(t)
    PROVE  LET At(statement, done) == ~AtEnd(t) /\ Statement(t) = statement /\ Done(t) = done
               method == tx[t].call.method
           IN
           \/ /\ method = "complete_registration" /\ tx[t].call.source = None
              /\ \/ At("advisory_lock", {})
                 \/ At("use_ceremony", {"advisory_lock"})
                 \/ At("count_operator_credentials", {"advisory_lock", "use_ceremony"})
                 \/ At("insert", {"advisory_lock", "use_ceremony", "count_operator_credentials"})
                 \/ At("complete_recoveries",
                       {"advisory_lock", "use_ceremony", "count_operator_credentials", "insert"})
                 \/ AtEnd(t) /\ Done(t) = {"advisory_lock", "use_ceremony",
                                           "count_operator_credentials", "insert", "complete_recoveries"}
           \/ /\ method = "complete_registration" /\ tx[t].call.source # None
              /\ \/ At("advisory_lock", {})
                 \/ At("use_ceremony", {"advisory_lock"})
                 \/ At("use_capability", {"advisory_lock", "use_ceremony"})
                 \/ At("insert", {"advisory_lock", "use_ceremony", "use_capability"})
                 \/ At("complete_recoveries",
                       {"advisory_lock", "use_ceremony", "use_capability", "insert"})
                 \/ AtEnd(t) /\ Done(t) = {"advisory_lock", "use_ceremony",
                                           "use_capability", "insert", "complete_recoveries"}
           \/ /\ method = "complete_authentication"
              /\ \/ At("use_ceremony", {})
                 \/ At("use_credential", {"use_ceremony"})
                 \/ At("insert", {"use_ceremony", "use_credential"})
                 \/ AtEnd(t) /\ Done(t) = {"use_ceremony", "use_credential", "insert"}
           \/ /\ method = "session"
              /\ \/ At("select_session", {})
                 \/ At("extend_session", {"select_session"})
                 \/ AtEnd(t) /\ Done(t) = {"select_session", "extend_session"}
           \/ /\ method = "delete_session"
              /\ \/ At("revoke_session", {})
                 \/ AtEnd(t) /\ Done(t) = {"revoke_session"}
           \/ /\ method = "insert_ceremony"
              /\ \/ At("insert", {})
                 \/ AtEnd(t) /\ Done(t) = {"insert"}
           \/ /\ method = "approve_recovery"
              /\ \/ At("approve", {})
                 \/ At("advance_epoch", {"approve"})
                 \/ At("revoke_sessions", {"approve", "advance_epoch"})
                 \/ At("consume_ceremonies", {"approve", "advance_epoch", "revoke_sessions"})
                 \/ At("consume_capabilities",
                       {"approve", "advance_epoch", "revoke_sessions", "consume_ceremonies"})
                 \/ AtEnd(t) /\ Done(t) = {"approve", "advance_epoch", "revoke_sessions",
                                           "consume_ceremonies", "consume_capabilities"}
           \/ /\ method = "issue_recovery_setup"
              /\ \/ At("issue", {})
                 \/ At("insert", {"issue"})
                 \/ AtEnd(t) /\ Done(t) = {"issue", "insert"}
           \/ /\ method = "break_glass"
              /\ \/ At("revoke_credential", {})
                 \/ At("advance_epoch", {"revoke_credential"})
                 \/ At("revoke_sessions", {"revoke_credential", "advance_epoch"})
                 \/ At("consume_ceremonies", {"revoke_credential", "advance_epoch", "revoke_sessions"})
                 \/ At("consume_capabilities",
                       {"revoke_credential", "advance_epoch", "revoke_sessions", "consume_ceremonies"})
                 \/ At("insert", {"revoke_credential", "advance_epoch", "revoke_sessions",
                                  "consume_ceremonies", "consume_capabilities"})
                 \/ AtEnd(t) /\ Done(t) = {"revoke_credential", "advance_epoch", "revoke_sessions",
                                           "consume_ceremonies", "consume_capabilities", "insert"}
           \/ /\ method = "rotate_all_auth_epochs"
              /\ \/ At("advance_epoch", {})
                 \/ At("revoke_sessions", {"advance_epoch"})
                 \/ At("consume_ceremonies", {"advance_epoch", "revoke_sessions"})
                 \/ At("consume_capabilities",
                       {"advance_epoch", "revoke_sessions", "consume_ceremonies"})
                 \/ AtEnd(t) /\ Done(t) = {"advance_epoch", "revoke_sessions",
                                           "consume_ceremonies", "consume_capabilities"}
<1> DEFINE call == tx[t].call
           n == Len(Statements(call))
<1>1. call \in Calls /\ tx[t].step \in 1 .. n + 1 /\ call.method \in Method
  BY CallsAssumption DEF InProgram
<1>2. CASE call.method = "complete_registration"
  <2>1. Program(call, <<"advisory_lock", "use_ceremony",
                       IF call.source = None THEN "count_operator_credentials"
                       ELSE "use_capability", "insert", "complete_recoveries">>, 5)
    BY <1>1, <1>2, Programs
  <2> QED
    BY <1>1, <1>2, <2>1 DEF Program, Done, AtEnd, Statement
<1>3. CASE call.method = "complete_authentication"
  <2>1. Program(call, <<"use_ceremony", "use_credential", "insert">>, 3)
    BY <1>1, <1>3, Programs
  <2> QED
    BY <1>1, <1>3, <2>1 DEF Program, Done, AtEnd, Statement
<1>4. CASE call.method = "session"
  <2>1. Program(call, <<"select_session", "extend_session">>, 2)
    BY <1>1, <1>4, Programs
  <2> QED
    BY <1>1, <1>4, <2>1 DEF Program, Done, AtEnd, Statement
<1>5. CASE call.method = "delete_session"
  <2>1. Program(call, <<"revoke_session">>, 1)
    BY <1>1, <1>5, Programs
  <2> QED
    BY <1>1, <1>5, <2>1 DEF Program, Done, AtEnd, Statement
<1>6. CASE call.method = "insert_ceremony"
  <2>1. Program(call, <<"insert">>, 1)
    BY <1>1, <1>6, Programs
  <2> QED
    BY <1>1, <1>6, <2>1 DEF Program, Done, AtEnd, Statement
<1>7. CASE call.method = "approve_recovery"
  <2>1. Program(call, <<"approve", "advance_epoch", "revoke_sessions",
                       "consume_ceremonies", "consume_capabilities">>, 5)
    BY <1>1, <1>7, Programs
  <2> QED
    BY <1>1, <1>7, <2>1 DEF Program, Done, AtEnd, Statement
<1>8. CASE call.method = "issue_recovery_setup"
  <2>1. Program(call, <<"issue", "insert">>, 2)
    BY <1>1, <1>8, Programs
  <2> QED
    BY <1>1, <1>8, <2>1 DEF Program, Done, AtEnd, Statement
<1>9. CASE call.method = "break_glass"
  <2>1. Program(call, <<"revoke_credential", "advance_epoch", "revoke_sessions",
                       "consume_ceremonies", "consume_capabilities", "insert">>, 6)
    BY <1>1, <1>9, Programs
  <2> QED
    BY <1>1, <1>9, <2>1 DEF Program, Done, AtEnd, Statement
<1>10. CASE call.method = "rotate_all_auth_epochs"
  <2>1. Program(call, <<"advance_epoch", "revoke_sessions",
                       "consume_ceremonies", "consume_capabilities">>, 4)
    BY <1>1, <1>10, Programs
  <2> QED
    BY <1>1, <1>10, <2>1 DEF Program, Done, AtEnd, Statement
<1> QED
  BY <1>1, <1>2, <1>3, <1>4, <1>5, <1>6, <1>7, <1>8, <1>9, <1>10 DEF Method

-----------------------------------------------------------------------------
(* The invariant of statements and locks.                                   *)

(* What a row of the database looks like. *)
RowOK(r, row) ==
    /\ row \in RowType
    /\ row.status = "absent" => row = Absent
    /\ r \in UserRows <=> row.table = "users" /\ row.status # "absent"
    /\ row.table = "users" => row.status \in {"open", "absent"}
    /\ row.table \in {"credentials", "sessions", "ceremonies", "capabilities"} =>
          row.status \in {"open", "closed"}
    /\ row.table = "recoveries" => row.status \in {"pending", "approved", "issued", "completed"}
    /\ row.table # "users" => row.user \in UserRows \/ (row.table = "ceremonies" /\ row.user = None)

(* A row as it was, and as it is now. *)
Older(row, now) ==
    /\ now.table = row.table /\ now.user = row.user /\ now.source = row.source
    /\ row.epoch <= now.epoch /\ (row.table # "users" => now.epoch = row.epoch)
    /\ row.status # "absent" => now.status # "absent"
    /\ row.status = "closed" => now.status = "closed"
    /\ row.status \in {"issued", "completed"} => now.status \in {"issued", "completed"}

(* A transaction is at a statement of its program, with rows still to visit *)
(* if the statement runs.  Its arguments remain what they were.             *)
FrameOK(t) ==
    /\ InProgram(t)
    /\ DOMAIN tx[t] = DOMAIN Idle
    /\ Arguments(tx[t].call)
    /\ tx[t].running \in BOOLEAN /\ tx[t].hit \in BOOLEAN
    /\ tx[t].running => ~AtEnd(t) /\ Statement(t) \notin Control
    /\ ~tx[t].running => tx[t].todo = <<>> /\ ~tx[t].hit
    /\ tx[t].todo \in Seq(Key)
    /\ \A i, j \in 1 .. Len(tx[t].todo) : tx[t].todo[i] = tx[t].todo[j] => i = j
    /\ DOMAIN tx[t].writes \subseteq Key
    /\ tx[t].writes = [r \in DOMAIN tx[t].writes |-> tx[t].writes[r]]
    /\ tx[t].epoch \in Nat
    /\ tx[t].call.user # None => tx[t].epoch <= db[tx[t].call.user].epoch
    /\ tx[t].before \subseteq Key
    /\ \A r \in tx[t].before : db[r].status # "absent"

Reached(t) == Done(t) \cup (IF tx[t].running THEN {Statement(t)} ELSE {})

(* Every uncommitted version comes from a row that the transaction locked,  *)
(* by one of its statements, or is the row it inserts.                      *)
WritesOK(t) ==
    \A r \in DOMAIN tx[t].writes :
        \/ r = t /\ "insert" \in Done(t) /\ tx[t].writes[r] = Inserted(t)
        \/ /\ db[r].status # "absent"
           /\ \E statement \in Reached(t) :
                 /\ Candidate(statement, tx[t].call, r, db[r]) /\ Ready(statement, db[r])
                 /\ tx[t].writes[r] = Set(t, statement, r, db[r])

(* The rows still to visit are committed ones.  No statement visits a row   *)
(* twice, and only session() writes a row that it has already locked.       *)
ToVisit(t) == {tx[t].todo[i] : i \in 1 .. Len(tx[t].todo)}

TodoOK(t) ==
    \A r \in ToVisit(t) :
        /\ db[r].status # "absent"
        /\ Candidate(Statement(t), tx[t].call, r, db[r])
        /\ r \in DOMAIN tx[t].writes => Statement(t) = "extend_session"

(* The row that a method cannot do without. *)
Needed(statement, call) ==
    IF statement = "use_ceremony" THEN call.ceremony
    ELSE IF statement = "select_session" THEN call.session
    ELSE IF statement \in {"approve", "issue"} THEN call.recovery
    ELSE call.source

(* What a finished statement had to affect is locked, and what had to be    *)
(* inserted is.                                                             *)
NeededAreLocked(t) ==
    /\ \A statement \in Reached(t) \cap MustAffect :
          (statement \in Done(t) \/ tx[t].hit) =>
              Needed(statement, tx[t].call) \in DOMAIN tx[t].writes
    /\ "insert" \in Done(t) => t \in DOMAIN tx[t].writes

LocksExclude ==
    \A t, other \in Tx :
        Active(t) /\ Active(other) /\ t # other => DOMAIN tx[t].writes \cap DOMAIN tx[other].writes = {}

LockInv ==
    /\ db \in [Key -> RowType]
    /\ \A r \in Key : RowOK(r, db[r])
    /\ DOMAIN tx = Tx
    /\ \A t \in Tx : tx[t].state \in {"idle", "active", "committed", "failed"}
    /\ \A t \in Tx : tx[t].state # "committed" => db[t].status = "absent"
    /\ \A t \in Tx : Active(t) => FrameOK(t) /\ WritesOK(t) /\ TodoOK(t) /\ NeededAreLocked(t)
    /\ LocksExclude


(* Every row that there is only grows older. *)
RowsAge == \A r \in Key : db[r].status # "absent" => Older(db[r], db'[r])

(* The arguments of a call name rows of its user, also later. *)
LEMMA ArgumentsStay ==
    ASSUME RowsAge, NEW call \in Calls, Arguments(call)
    PROVE  Arguments(call)'
<1>1. ASSUME NEW user, NEW r \in Key \cup {None}, NEW table, Owns(user, r, table)
      PROVE  Owns(user, r, table)'
  BY <1>1 DEF RowsAge, Owns, IsRow, Older
<1>2. /\ call.user \in Key \cup {None} /\ call.ceremony \in Key \cup {None}
      /\ call.source \in Key \cup {None} /\ call.session \in Key \cup {None}
      /\ call.recovery \in Key \cup {None}
  BY CallsAssumption
<1>3. ASSUME call.user # None, IsRow(call.user, "users")
      PROVE  IsRow(call.user, "users")'
  BY <1>2, <1>3 DEF RowsAge, IsRow, Older
<1>4. ASSUME Owns(call.user, call.ceremony, "ceremonies")
      PROVE  db'[call.ceremony].source = db[call.ceremony].source
  BY <1>2, <1>4 DEF RowsAge, Owns, IsRow, Older
<1> QED
  BY <1>1, <1>2, <1>3, <1>4 DEF Arguments

(* What the arguments are, by method. *)
LEMMA ArgumentRows ==
    ASSUME NEW call \in Calls, Arguments(call), \A r \in Key : RowOK(r, db[r])
    PROVE  /\ call.user = None \/ call.user \in UserRows
           /\ call.method = "rotate_all_auth_epochs" => call.user = None
           /\ call.user = None => call.method \in {"rotate_all_auth_epochs", "insert_ceremony"}
           /\ call.method = "complete_registration" =>
                 /\ call.ceremony \in Key /\ IsRow(call.ceremony, "ceremonies")
                 /\ db[call.ceremony].user = call.user
                 /\ IF call.source = None THEN call.user \in Operators
                    ELSE /\ call.source \in Key /\ IsRow(call.source, "capabilities")
                         /\ db[call.source].user = call.user
           /\ call.method = "complete_authentication" =>
                 /\ call.ceremony \in Key /\ IsRow(call.ceremony, "ceremonies")
                 /\ db[call.ceremony].user = None
                 /\ call.source \in Key /\ IsRow(call.source, "credentials")
                 /\ db[call.source].user = call.user
           /\ call.method = "break_glass" =>
                 /\ call.source \in Key /\ IsRow(call.source, "credentials")
                 /\ db[call.source].user = call.user
           /\ call.method \in {"session", "delete_session"} =>
                 /\ call.session \in Key /\ IsRow(call.session, "sessions")
                 /\ db[call.session].user = call.user
           /\ call.method \in {"approve_recovery", "issue_recovery_setup"} =>
                 /\ call.recovery \in Key /\ IsRow(call.recovery, "recoveries")
                 /\ db[call.recovery].user = call.user
<1>1. /\ call.user \in Key \cup {None} /\ call.ceremony \in Key \cup {None}
      /\ call.source \in Key \cup {None} /\ call.session \in Key \cup {None}
      /\ call.recovery \in Key \cup {None}
  BY CallsAssumption
<1> QED
  BY <1>1 DEF Arguments, Owns, IsRow, RowOK

(* The table that a statement is about. *)
TableOf(statement) ==
    IF statement \in {"use_ceremony", "consume_ceremonies"} THEN "ceremonies"
    ELSE IF statement \in {"use_capability", "consume_capabilities"} THEN "capabilities"
    ELSE IF statement \in {"use_credential", "revoke_credential"} THEN "credentials"
    ELSE IF statement = "advance_epoch" THEN "users"
    ELSE IF statement \in {"approve", "issue", "complete_recoveries"} THEN "recoveries"
    ELSE "sessions"

(* A statement is about the rows of one table. *)
LEMMA CandidateTables ==
    ASSUME NEW t \in Tx, FrameOK(t), \A r \in Key : RowOK(r, db[r]),
           NEW statement, statement \in Done(t) \/ (~AtEnd(t) /\ statement = Statement(t)),
           NEW r \in Key, Candidate(statement, tx[t].call, r, db[r]), db[r].status # "absent"
    PROVE  db[r].table = TableOf(statement)
<1>1. InProgram(t) /\ tx[t].call \in Calls /\ Arguments(tx[t].call)
  BY DEF FrameOK, InProgram
<1> QED
  BY <1>1, Stages, ArgumentRows DEF Candidate, TableOf, IsRow

(* The row that a transaction inserts. *)
LEMMA InsertedRow ==
    ASSUME NEW t \in Tx, FrameOK(t), \A r \in Key : RowOK(r, db[r]),
           "insert" \in Done(t) \/ (~AtEnd(t) /\ Statement(t) = "insert")
    PROVE  /\ RowOK(t, Inserted(t)) /\ Inserted(t).status = "open"
           /\ Inserted(t).user = tx[t].call.user /\ Inserted(t).epoch = tx[t].epoch
           /\ tx[t].call.method = "complete_registration" =>
                 Inserted(t).table = "credentials" /\ Inserted(t).source = tx[t].call.source
           /\ tx[t].call.method = "complete_authentication" =>
                 Inserted(t).table = "sessions" /\ Inserted(t).source = tx[t].call.source
           /\ tx[t].call.method = "insert_ceremony" => Inserted(t).table = "ceremonies"
           /\ tx[t].call.method \in {"issue_recovery_setup", "break_glass"} =>
                 Inserted(t).table = "capabilities"
<1>1. InProgram(t) /\ tx[t].call \in Calls /\ Arguments(tx[t].call)
  BY DEF FrameOK, InProgram
<1>2. tx[t].call.method \in {"complete_registration", "complete_authentication",
                             "insert_ceremony", "issue_recovery_setup", "break_glass"}
  BY <1>1, Stages
<1>3. /\ tx[t].call.method = "complete_registration" => InsertedTable[tx[t].call.method] = "credentials"
      /\ tx[t].call.method = "complete_authentication" => InsertedTable[tx[t].call.method] = "sessions"
      /\ tx[t].call.method = "insert_ceremony" => InsertedTable[tx[t].call.method] = "ceremonies"
      /\ tx[t].call.method \in {"issue_recovery_setup", "break_glass"} =>
            InsertedTable[tx[t].call.method] = "capabilities"
  BY DEF InsertedTable
<1>4. t \in Key /\ t \notin UserRows
  BY RowAssumption DEF Key, UserRows, InitiallyIn
<1>5. tx[t].epoch \in Nat /\ tx[t].call.source \in Key \cup {None} /\ tx[t].call.user \in Key \cup {None}
  BY <1>1, CallsAssumption DEF FrameOK
<1>6. tx[t].call.user = None => tx[t].call.method = "insert_ceremony"
  BY <1>1, <1>2, ArgumentRows
<1>7. tx[t].call.user = None \/ tx[t].call.user \in UserRows
  BY <1>1, ArgumentRows
<1>8. PICK row : row = Inserted(t)
  OBVIOUS
<1>9. /\ row.status = "open" /\ row.user = tx[t].call.user /\ row.epoch = tx[t].epoch
      /\ row.table = InsertedTable[tx[t].call.method]
      /\ row.source \in Key \cup {None} 
      /\ tx[t].call.method \notin {"issue_recovery_setup", "break_glass"} => row.source = tx[t].call.source
  BY <1>5, <1>8 DEF Inserted
<1>10. row \in RowType
  <2>1. /\ row = [table |-> row.table, status |-> row.status, user |-> row.user,
                  epoch |-> row.epoch, source |-> row.source]
    BY <1>8 DEF Inserted
  <2>2. row.table \in Table
    BY <1>2, <1>3, <1>9 DEF Table
  <2> QED
    BY <1>5, <1>9, <2>1, <2>2 DEF RowType
<1>11. RowOK(t, row)
  BY <1>2, <1>3, <1>4, <1>6, <1>7, <1>9, <1>10 DEF RowOK
<1> QED
  BY <1>2, <1>3, <1>8, <1>9, <1>11


(* A statement takes a row to a later version of it. *)
LEMMA UpdatedRow ==
    ASSUME NEW t \in Tx, FrameOK(t), \A r \in Key : RowOK(r, db[r]),
           NEW statement, statement \in Done(t) \/ (~AtEnd(t) /\ statement = Statement(t)),
           NEW r \in Key, db[r].status # "absent",
           Candidate(statement, tx[t].call, r, db[r]), Ready(statement, db[r])
    PROVE  LET row == Set(t, statement, r, db[r]) IN
           /\ RowOK(r, row) /\ Older(db[r], row) /\ row.status # "absent"
           /\ statement = "advance_epoch" => row.epoch = db[r].epoch + 1 /\ row.status = db[r].status
           /\ statement # "advance_epoch" => row.epoch = db[r].epoch
           /\ statement \in {"revoke_session", "revoke_sessions", "consume_ceremonies",
                             "consume_capabilities", "use_ceremony", "use_capability",
                             "revoke_credential"} => row.status = "closed"
           /\ statement \in {"use_credential", "extend_session", "select_session"} => row = db[r]
<1>1. db[r].table = TableOf(statement) /\ db[r] \in RowType /\ RowOK(r, db[r])
  BY CandidateTables DEF RowOK
<1>2. statement # "insert" /\ statement \notin Control
  BY DEF Candidate, Control
<1>3. PICK row : row = Set(t, statement, r, db[r])
  OBVIOUS
<1>4. CASE statement = "advance_epoch"
  <2>1. row = [db[r] EXCEPT !.epoch = db[r].epoch + 1]
    BY <1>3, <1>4, Updates
  <2>2. row \in RowType
    BY <1>1, <2>1 DEF RowType
  <2> QED
    BY <1>1, <1>3, <1>4, <2>1, <2>2 DEF RowOK, Older, RowType, TableOf
<1>5. CASE statement \in {"use_credential", "extend_session", "select_session"}
  <2>1. row = db[r]
    BY <1>3, <1>5, Updates
  <2> QED
    BY <1>1, <1>3, <1>5, <2>1 DEF Older, RowType
<1>6. CASE statement \notin {"advance_epoch", "use_credential", "extend_session", "select_session"}
  <2>1. PICK status : status = IF statement = "approve" THEN "approved"
                               ELSE IF statement = "issue" THEN "issued"
                               ELSE IF statement = "complete_recoveries" THEN "completed"
                               ELSE "closed"
    OBVIOUS
  <2>2. row = [db[r] EXCEPT !.status = status]
    BY <1>3, <1>6, <2>1, Updates
  <2>3. row \in RowType
    BY <1>1, <2>1, <2>2 DEF RowType
  <2>4. row.status = status /\ row.table = db[r].table /\ row.user = db[r].user
        /\ row.source = db[r].source /\ row.epoch = db[r].epoch
    BY <1>1, <2>2 DEF RowType
  <2>5. \/ statement = "approve" /\ status = "approved" /\ db[r].status = "pending"
        \/ statement = "issue" /\ status = "issued" /\ db[r].status = "approved"
        \/ statement = "complete_recoveries" /\ status = "completed" /\ db[r].status = "issued"
        \/ /\ statement \in {"use_ceremony", "consume_ceremonies", "use_capability",
                             "consume_capabilities", "revoke_credential", "revoke_session",
                             "revoke_sessions"}
           /\ status = "closed" /\ db[r].status = "open"
    BY <1>6, <2>1 DEF Candidate, Ready
  <2>6. RowOK(r, row)
    BY <1>1, <1>6, <2>3, <2>4, <2>5 DEF RowOK, TableOf
  <2>7. db[r].epoch \in Nat
    BY <1>1 DEF RowType
  <2> QED
    BY <1>1, <1>3, <1>6, <2>4, <2>5, <2>6, <2>7 DEF Older
<1> QED
  BY <1>4, <1>5, <1>6

(* What a transaction has written of a row that was there. *)
LEMMA WrittenRow ==
    ASSUME LockInv, NEW t \in Tx, Active(t), NEW r \in DOMAIN tx[t].writes
    PROVE  /\ r \in Key /\ RowOK(r, tx[t].writes[r]) /\ tx[t].writes[r].status # "absent"
           /\ db[r].status # "absent" => Older(db[r], tx[t].writes[r])
           /\ db[r].status = "absent" <=> r = t
           /\ r = t => "insert" \in Done(t) /\ tx[t].writes[r] = Inserted(t)
           /\ r # t => \E statement \in Reached(t) :
                          /\ Candidate(statement, tx[t].call, r, db[r]) /\ Ready(statement, db[r])
                          /\ tx[t].writes[r] = Set(t, statement, r, db[r])
<1>1. /\ FrameOK(t) /\ WritesOK(t) /\ \A k \in Key : RowOK(k, db[k])
      /\ r \in Key /\ db[t].status = "absent"
  BY DEF LockInv, FrameOK, Active
<1>2. CASE r = t
  BY <1>1, <1>2, InsertedRow DEF WritesOK
<1>3. CASE r # t
  <2>1. PICK statement \in Reached(t) :
           /\ db[r].status # "absent"
           /\ Candidate(statement, tx[t].call, r, db[r]) /\ Ready(statement, db[r])
           /\ tx[t].writes[r] = Set(t, statement, r, db[r])
    BY <1>1, <1>3 DEF WritesOK
  <2>2. statement \in Done(t) \/ (~AtEnd(t) /\ statement = Statement(t))
    BY <1>1, <2>1 DEF Reached, FrameOK
  <2> QED
    BY <1>1, <1>3, <2>1, <2>2, UpdatedRow
<1> QED
  BY <1>2, <1>3

(* Nothing that is asked of a transaction is disturbed by the others. *)
LEMMA OtherStays ==
    ASSUME LockInv, RowsAge, NEW t \in Tx, Active(t), tx'[t] = tx[t],
           db' \in [Key -> RowType],
           \A r \in DOMAIN tx[t].writes : db'[r] = db[r]
    PROVE  FrameOK(t)' /\ WritesOK(t)' /\ TodoOK(t)' /\ NeededAreLocked(t)'
<1>1. FrameOK(t) /\ WritesOK(t) /\ TodoOK(t) /\ NeededAreLocked(t) /\ db \in [Key -> RowType]
  BY DEF LockInv
<1>2. /\ Done(t)' = Done(t) /\ Reached(t)' = Reached(t) /\ AtEnd(t)' = AtEnd(t)
      /\ Statement(t)' = Statement(t) /\ ToVisit(t)' = ToVisit(t) /\ Inserted(t)' = Inserted(t)
      /\ InProgram(t)' = InProgram(t)
  BY DEF Done, Reached, AtEnd, Statement, ToVisit, Inserted, InProgram
<1>3. tx[t].call \in Calls /\ Arguments(tx[t].call) /\ tx[t].call.user \in Key \cup {None}
  BY <1>1, CallsAssumption DEF FrameOK, InProgram
<1>4. Arguments(tx[t].call)'
  BY <1>3, ArgumentsStay
<1>5. FrameOK(t)'
  <2>1. ASSUME tx[t].call.user # None
        PROVE  tx[t].epoch <= db'[tx[t].call.user].epoch
    <3>1. db[tx[t].call.user].status # "absent"
      BY <1>3, <2>1 DEF Arguments, IsRow
    <3>2. Older(db[tx[t].call.user], db'[tx[t].call.user]) /\ tx[t].call.user \in Key
      BY <1>3, <2>1, <3>1 DEF RowsAge
    <3>3. db[tx[t].call.user].epoch \in Nat /\ db'[tx[t].call.user].epoch \in Nat /\ tx[t].epoch \in Nat
      BY <1>1, <3>2 DEF FrameOK, RowType
    <3> QED
      BY <1>1, <2>1, <3>2, <3>3 DEF Older, FrameOK
  <2>2. ASSUME NEW r \in tx[t].before
        PROVE  db'[r].status # "absent"
    BY <1>1, <2>2 DEF FrameOK, RowsAge, Older
  <2> QED
    BY <1>1, <1>2, <1>4, <2>1, <2>2 DEF FrameOK
<1>6. WritesOK(t)'
  <2> SUFFICES ASSUME NEW r \in DOMAIN tx[t].writes
               PROVE  \/ r = t /\ "insert" \in Done(t) /\ tx[t].writes[r] = Inserted(t)
                      \/ /\ db[r].status # "absent"
                         /\ \E statement \in Reached(t) :
                               /\ Candidate(statement, tx[t].call, r, db[r]) /\ Ready(statement, db[r])
                               /\ tx[t].writes[r] = Set(t, statement, r, db[r])'
    BY <1>2 DEF WritesOK
  <2>1. \A statement : Set(t, statement, r, db[r])' = Set(t, statement, r, db[r])
    <3>1. db'[r] = db[r]
      OBVIOUS
    <3> QED
      BY <3>1, Zenon DEF Set, NextEpoch
  <2> QED
    BY <1>1, <2>1 DEF WritesOK
<1>7. TodoOK(t)'
  <2>1. ToVisit(t) \subseteq Key
    BY <1>1 DEF ToVisit, FrameOK
  <2>2. ASSUME NEW r \in Key, db[r].status # "absent", Candidate(Statement(t), tx[t].call, r, db[r])
        PROVE  Candidate(Statement(t), tx[t].call, r, db'[r]) /\ db'[r].status # "absent"
    BY <2>2 DEF RowsAge, Older, Candidate
  <2> QED
    BY <1>1, <1>2, <2>1, <2>2 DEF TodoOK
<1>8. NeededAreLocked(t)'
  BY <1>1, <1>2 DEF NeededAreLocked
<1> QED
  BY <1>5, <1>6, <1>7, <1>8


(* The rows still to visit, when the first has been visited. *)
LEMMA TailVisits ==
    ASSUME NEW todo \in Seq(Key), todo # <<>>,
           \A i, j \in 1 .. Len(todo) : todo[i] = todo[j] => i = j
    PROVE  /\ Head(todo) \in {todo[i] : i \in 1 .. Len(todo)}
           /\ Tail(todo) \in Seq(Key)
           /\ \A i, j \in 1 .. Len(Tail(todo)) : Tail(todo)[i] = Tail(todo)[j] => i = j
           /\ {Tail(todo)[i] : i \in 1 .. Len(Tail(todo))} =
                 {todo[i] : i \in 1 .. Len(todo)} \ {Head(todo)}
<1>1. /\ Len(todo) \in Nat \ {0} /\ Head(todo) = todo[1] /\ Tail(todo) \in Seq(Key)
      /\ Len(Tail(todo)) = Len(todo) - 1
      /\ \A i \in 1 .. Len(Tail(todo)) : Tail(todo)[i] = todo[i + 1]
  OBVIOUS
<1>2. \A i, j \in 1 .. Len(Tail(todo)) : Tail(todo)[i] = Tail(todo)[j] => i = j
  <2> TAKE i, j \in 1 .. Len(Tail(todo))
  <2>1. i + 1 \in 1 .. Len(todo) /\ j + 1 \in 1 .. Len(todo)
    BY <1>1
  <2>2. todo[i + 1] = todo[j + 1] => i + 1 = j + 1
    BY <2>1
  <2> QED
    BY <1>1, <2>2
<1>3. ASSUME NEW i \in 1 .. Len(Tail(todo))
      PROVE  Tail(todo)[i] \in {todo[j] : j \in 1 .. Len(todo)} \ {Head(todo)}
  <2>1. i + 1 \in 1 .. Len(todo) /\ 1 \in 1 .. Len(todo) /\ i + 1 # 1
    BY <1>1
  <2>2. todo[i + 1] # todo[1]
    BY <2>1
  <2> QED
    BY <1>1, <2>1, <2>2
<1>4. ASSUME NEW j \in 1 .. Len(todo), todo[j] # Head(todo)
      PROVE  todo[j] \in {Tail(todo)[i] : i \in 1 .. Len(Tail(todo))}
  <2>1. j - 1 \in 1 .. Len(Tail(todo)) /\ (j - 1) + 1 = j
    BY <1>1, <1>4
  <2>2. Tail(todo)[j - 1] = todo[j]
    BY <1>1, <2>1
  <2> QED
    BY <2>1, <2>2
<1>5. Head(todo) \in {todo[i] : i \in 1 .. Len(todo)}
  BY <1>1
<1> QED
  BY <1>1, <1>2, <1>3, <1>4, <1>5

(* A statement visits each row that it matches once, in some order. *)
LEMMA Orders ==
    ASSUME NEW matching \in SUBSET Key, NEW order \in SetToSeqs(matching)
    PROVE  /\ order \in Seq(Key)
           /\ \A i, j \in 1 .. Len(order) : order[i] = order[j] => i = j
           /\ {order[i] : i \in 1 .. Len(order)} = matching
<1>1. IsFiniteSet(Key)
  BY RowAssumption, FS_Union DEF Key
<1>2. IsFiniteSet(matching) /\ Cardinality(matching) \in Nat
  BY <1>1, FS_Subset, FS_CardinalityType
<1>3. PICK n \in Nat : n = Cardinality(matching)
  BY <1>2
<1>4. order \in [1 .. n -> matching] /\ \A i, j \in 1 .. n : i # j => order[i] # order[j]
  BY <1>3 DEF SetToSeqs
<1>5. order \in Seq(Key) /\ Len(order) = n
  BY <1>4
<1>6. Cardinality(1 .. n) = n
  BY FS_Interval
<1>7. order \in Injection(1 .. n, matching)
  BY <1>4 DEF Injection, IsInjective
<1>8. order \in Surjection(1 .. n, matching)
  BY <1>2, <1>3, <1>6, <1>7, FS_Injection
<1>9. \A r \in matching : \E i \in 1 .. n : order[i] = r
  BY <1>8 DEF Surjection
<1> QED
  BY <1>4, <1>5, <1>9

(* What is asked of the rows and of the transactions other than t. *)
Undisturbed(t) ==
    /\ tx' = [tx EXCEPT ![t] = tx'[t]]
    /\ RowsAge /\ db' \in [Key -> RowType] /\ \A r \in Key : RowOK(r, db'[r])
    /\ \A other \in Tx \ {t} :
          /\ db[other].status = "absent" => db'[other].status = "absent"
          /\ Active(other) => \A r \in DOMAIN tx[other].writes : db'[r] = db[r]

(* A step of one transaction keeps the invariant if it keeps its own part. *)
LEMMA OwnStep ==
    ASSUME LockInv, NEW t \in Tx, Undisturbed(t),
           tx'[t].state \in {"active", "committed", "failed"},
           tx'[t].state # "committed" => db'[t].status = "absent",
           tx'[t].state = "active" =>
              /\ FrameOK(t)' /\ WritesOK(t)' /\ TodoOK(t)' /\ NeededAreLocked(t)'
              /\ \A other \in Tx \ {t} :
                    Active(other) => DOMAIN tx'[t].writes \cap DOMAIN tx[other].writes = {}
    PROVE  LockInv'
<1>1. DOMAIN tx' = Tx /\ \A other \in Tx \ {t} : tx'[other] = tx[other]
  BY DEF LockInv, Undisturbed
<1>2. \A other \in Tx \ {t} : Active(other) =>
         FrameOK(other)' /\ WritesOK(other)' /\ TodoOK(other)' /\ NeededAreLocked(other)'
  BY <1>1, OtherStays DEF Undisturbed
<1>3. \A other \in Tx : Active(other)' =>
         FrameOK(other)' /\ WritesOK(other)' /\ TodoOK(other)' /\ NeededAreLocked(other)'
  BY <1>1, <1>2 DEF Active
<1>4. LocksExclude'
  BY <1>1 DEF LockInv, LocksExclude, Active
<1>5. \A other \in Tx : /\ tx'[other].state \in {"idle", "active", "committed", "failed"}
                        /\ tx'[other].state # "committed" => db'[other].status = "absent"
  BY <1>1 DEF LockInv, Undisturbed
<1> QED
  BY <1>1, <1>3, <1>4, <1>5 DEF LockInv, Undisturbed

(* A step that commits nothing. *)
LEMMA QuietStep ==
    ASSUME LockInv, NEW t \in Tx, tx' = [tx EXCEPT ![t] = tx'[t]], UNCHANGED db
    PROVE  Undisturbed(t) /\ (tx[t].state # "committed" => db'[t].status = "absent")
<1>1. RowsAge
  BY DEF RowsAge, Older, LockInv, RowType
<1> QED
  BY <1>1 DEF LockInv, Undisturbed

(* A transaction at its next statement. *)
LEMMA NextStage ==
    ASSUME NEW t \in Tx, InProgram(t), ~AtEnd(t),
           tx'[t].call = tx[t].call, tx'[t].step = tx[t].step + 1
    PROVE  InProgram(t)' /\ Done(t)' = Done(t) \cup {Statement(t)}
<1>1. PICK n : n = Len(Statements(tx[t].call))
  OBVIOUS
<1>2. n \in Nat /\ tx[t].call \in Calls /\ tx[t].call.method \in Method
  BY <1>1, Programs, CallsAssumption DEF InProgram, Program, Method
<1>3. tx[t].step \in 1 .. n
  BY <1>1, <1>2 DEF InProgram, AtEnd
<1>4. InProgram(t)'
  BY <1>1, <1>2, <1>3 DEF InProgram
<1>5. 1 .. (tx[t].step + 1) - 1 = (1 .. tx[t].step - 1) \cup {tx[t].step}
  BY <1>2, <1>3
<1>6. Done(t)' = {Statements(tx[t].call)[i] : i \in (1 .. tx[t].step - 1) \cup {tx[t].step}}
  BY <1>5 DEF Done
<1> QED
  BY <1>4, <1>6 DEF Done, Statement

(* A transaction between two statements. *)
LEMMA NextFrame ==
    ASSUME NEW t \in Tx, FrameOK(t), UNCHANGED db, InProgram(t)', DOMAIN tx'[t] = DOMAIN tx[t],
           tx'[t].call = tx[t].call, tx'[t].epoch = tx[t].epoch, tx'[t].before = tx[t].before,
           tx'[t].todo = <<>>, tx'[t].hit = FALSE, tx'[t].running = FALSE,
           DOMAIN tx'[t].writes \subseteq Key,
           tx'[t].writes = [r \in DOMAIN tx'[t].writes |-> tx'[t].writes[r]]
    PROVE  FrameOK(t)'
<1>1. Arguments(tx[t].call)'
  BY DEF FrameOK, Arguments, Owns, IsRow
<1>2. /\ tx[t].call.user # None => tx[t].epoch <= db[tx[t].call.user].epoch
      /\ tx[t].epoch \in Nat /\ tx[t].before \subseteq Key
      /\ \A r \in tx[t].before : db[r].status # "absent"
      /\ DOMAIN tx[t] = DOMAIN Idle
  BY DEF FrameOK
<1>3. /\ tx'[t].running \in BOOLEAN /\ tx'[t].hit \in BOOLEAN /\ tx'[t].todo \in Seq(Key)
      /\ ~tx'[t].running /\ ~tx'[t].hit /\ tx'[t].todo = <<>> /\ Len(tx'[t].todo) = 0
  <2>1. tx'[t].todo = <<>> /\ tx'[t].todo \in Seq(Key) /\ Len(tx'[t].todo) = 0
    OBVIOUS
  <2>2. tx'[t].running \in BOOLEAN /\ ~tx'[t].running /\ tx'[t].hit \in BOOLEAN /\ ~tx'[t].hit
    BY Zenon
  <2> QED
    BY <2>1, <2>2
<1>4. \A i, j \in 1 .. Len(tx'[t].todo) : tx'[t].todo[i] = tx'[t].todo[j] => i = j
  BY <1>3
<1>5. /\ tx'[t].call.user # None => tx'[t].epoch <= db'[tx'[t].call.user].epoch
      /\ tx'[t].epoch \in Nat /\ tx'[t].before \subseteq Key
      /\ \A r \in tx'[t].before : db'[r].status # "absent"
      /\ DOMAIN tx'[t] = DOMAIN Idle
  BY <1>2
<1> QED
  BY <1>1, <1>3, <1>4, <1>5 DEF FrameOK

(* A statement that is done leaves its writes to the transaction. *)
LEMMA AdvanceStep ==
    ASSUME LockInv, NEW t \in Tx, Active(t), ~AtEnd(t), tx' = [tx EXCEPT ![t] = NextStep(tx[t])],
           UNCHANGED db, Statement(t) # "insert",
           Statement(t) \in MustAffect => tx[t].running /\ tx[t].hit
    PROVE  LockInv'
<1>1. /\ FrameOK(t) /\ WritesOK(t) /\ TodoOK(t) /\ NeededAreLocked(t)
      /\ DOMAIN tx = Tx /\ tx[t].state = "active"
  BY DEF LockInv, Active
<1>2. /\ tx'[t] = NextStep(tx[t]) /\ tx' = [tx EXCEPT ![t] = tx'[t]]
  BY <1>1
<1>3. /\ tx'[t].state = "active" /\ tx'[t].call = tx[t].call /\ tx'[t].step = tx[t].step + 1
      /\ tx'[t].todo = <<>> /\ tx'[t].hit = FALSE /\ tx'[t].running = FALSE
      /\ tx'[t].writes = tx[t].writes /\ tx'[t].epoch = tx[t].epoch /\ tx'[t].before = tx[t].before
  BY <1>1, <1>2 DEF NextStep, FrameOK, Idle
<1>4. InProgram(t)' /\ Done(t)' = Done(t) \cup {Statement(t)}
  BY <1>1, <1>3, NextStage DEF FrameOK
<1>5. /\ Reached(t)' = Done(t) \cup {Statement(t)} /\ Reached(t) \subseteq Reached(t)'
      /\ Inserted(t)' = Inserted(t) /\ ToVisit(t)' = {}
  BY <1>3, <1>4 DEF Reached, Inserted, ToVisit
<1>6. Undisturbed(t) /\ db'[t].status = "absent"
  BY <1>1, <1>2, QuietStep
<1>7. FrameOK(t)'
  <2>1. DOMAIN tx'[t] = DOMAIN tx[t]
    BY <1>1, <1>2 DEF NextStep
  <2>2. DOMAIN tx[t].writes \subseteq Key /\ tx[t].writes = [r \in DOMAIN tx[t].writes |-> tx[t].writes[r]]
    BY <1>1 DEF FrameOK
  <2> QED
    BY <1>1, <1>3, <1>4, <2>1, <2>2, NextFrame
<1>8. WritesOK(t)'
  <2>1. ASSUME NEW statement, NEW r
        PROVE  Set(t, statement, r, db[r])' = Set(t, statement, r, db[r])
    BY Zenon DEF Set, NextEpoch
  <2> QED
    BY <1>1, <1>3, <1>4, <1>5, <2>1 DEF WritesOK
<1>9. TodoOK(t)'
  BY <1>5 DEF TodoOK
<1>10. NeededAreLocked(t)'
  <2>1. ASSUME NEW statement \in Done(t) \cup {Statement(t)}, statement \in MustAffect
        PROVE  Needed(statement, tx[t].call) \in DOMAIN tx[t].writes
    BY <1>1, <2>1 DEF NeededAreLocked, Reached
  <2>2. "insert" \in Done(t)' => t \in DOMAIN tx[t].writes
    BY <1>1, <1>4 DEF NeededAreLocked
  <2> QED
    BY <1>3, <1>5, <2>1, <2>2 DEF NeededAreLocked
<1>11. \A other \in Tx \ {t} :
          Active(other) => DOMAIN tx'[t].writes \cap DOMAIN tx[other].writes = {}
  BY <1>3 DEF LockInv, LocksExclude
<1> QED
  BY <1>3, <1>6, <1>7, <1>8, <1>9, <1>10, <1>11, OwnStep

(* The inserted row is the transaction's own. *)
LEMMA InsertStep ==
    ASSUME LockInv, NEW t \in Tx, Insert(t)
    PROVE  LockInv'
<1>1. /\ FrameOK(t) /\ WritesOK(t) /\ TodoOK(t) /\ NeededAreLocked(t)
      /\ DOMAIN tx = Tx /\ tx[t].state = "active" /\ Active(t) /\ t \in Key
  BY DEF LockInv, Active, Insert, Key
<1>2. /\ tx'[t] = NextStep([tx[t] EXCEPT !.writes = Write(tx[t].writes, t, Inserted(t))])
      /\ tx' = [tx EXCEPT ![t] = tx'[t]]
      /\ UNCHANGED db /\ ~AtEnd(t) /\ Statement(t) = "insert"
  <2>1. PICK frame : frame = NextStep([tx[t] EXCEPT !.writes = Write(tx[t].writes, t, Inserted(t))])
    OBVIOUS
  <2>2. tx' = [tx EXCEPT ![t] = frame]
    BY <2>1 DEF Insert
  <2> QED
    BY <1>1, <2>1, <2>2 DEF Insert
<1>3. /\ tx'[t].state = "active" /\ tx'[t].call = tx[t].call /\ tx'[t].step = tx[t].step + 1
      /\ tx'[t].todo = <<>> /\ tx'[t].hit = FALSE /\ tx'[t].running = FALSE
      /\ tx'[t].epoch = tx[t].epoch /\ tx'[t].before = tx[t].before
      /\ tx'[t].writes = Write(tx[t].writes, t, Inserted(t))
  BY <1>1, <1>2 DEF NextStep, FrameOK, Idle
<1>w. /\ DOMAIN tx'[t].writes = DOMAIN tx[t].writes \cup {t} /\ tx'[t].writes[t] = Inserted(t)
      /\ \A r \in DOMAIN tx[t].writes : r # t => tx'[t].writes[r] = tx[t].writes[r]
      /\ tx'[t].writes = [r \in DOMAIN tx'[t].writes |-> tx'[t].writes[r]]
  BY <1>3 DEF Write
<1>4. InProgram(t)' /\ Done(t)' = Done(t) \cup {Statement(t)}
  BY <1>1, <1>2, <1>3, NextStage DEF FrameOK
<1>5. /\ Reached(t)' = Done(t) \cup {Statement(t)} /\ Reached(t) \subseteq Reached(t)'
      /\ Inserted(t)' = Inserted(t) /\ ToVisit(t)' = {}
  BY <1>3, <1>4 DEF Reached, Inserted, ToVisit
<1>6. Undisturbed(t) /\ db'[t].status = "absent"
  BY <1>1, <1>2, QuietStep
<1>7. FrameOK(t)'
  <2>1. DOMAIN tx'[t] = DOMAIN tx[t]
    BY <1>1, <1>2 DEF NextStep
  <2>2. DOMAIN tx[t].writes \subseteq Key
    BY <1>1 DEF FrameOK
  <2> QED
    BY <1>1, <1>2, <1>3, <1>w, <1>4, <2>1, <2>2, NextFrame
<1>8. WritesOK(t)'
  <2>1. ASSUME NEW statement, NEW r
        PROVE  Set(t, statement, r, db[r])' = Set(t, statement, r, db[r])
    BY <1>2, Zenon DEF Set, NextEpoch
  <2> QED
    BY <1>1, <1>2, <1>3, <1>w, <1>4, <1>5, <2>1 DEF WritesOK
<1>9. TodoOK(t)'
  BY <1>5 DEF TodoOK
<1>10. NeededAreLocked(t)'
  <2>1. Done(t) \subseteq Reached(t) /\ "insert" \notin MustAffect
    BY DEF Reached, MustAffect
  <2> QED
    BY <1>1, <1>2, <1>3, <1>w, <1>4, <1>5, <2>1 DEF NeededAreLocked
<1>11. ASSUME NEW other \in Tx \ {t}, Active(other)
       PROVE  DOMAIN tx'[t].writes \cap DOMAIN tx[other].writes = {}
  <2>1. t \notin DOMAIN tx[other].writes
    BY <1>1, <1>11 DEF LockInv, WritesOK
  <2> QED
    BY <1>1, <1>w, <1>11, <2>1 DEF LockInv, LocksExclude
<1> QED
  BY <1>3, <1>6, <1>7, <1>8, <1>9, <1>10, <1>11, OwnStep

(* A transaction that ends has released its locks. *)
LEMMA RollbackStep ==
    ASSUME LockInv, NEW t \in Tx, Active(t), Rollback(t)
    PROVE  LockInv'
<1>1. /\ DOMAIN tx = Tx /\ tx[t].state = "active"
  BY DEF LockInv, Active
<1>2. tx'[t] = Ended(t, "failed") /\ tx' = [tx EXCEPT ![t] = tx'[t]] /\ UNCHANGED db
  BY <1>1 DEF Rollback
<1>3. tx'[t].state = "failed"
  BY <1>2 DEF Ended, Idle
<1>4. Undisturbed(t) /\ db'[t].status = "absent"
  BY <1>1, <1>2, QuietStep
<1> QED
  BY <1>3, <1>4, OwnStep

(* What a commit does to the rows. *)
LEMMA CommitRows ==
    ASSUME LockInv, NEW t \in Tx, Commit(t)
    PROVE  /\ Undisturbed(t)
           /\ tx'[t] = Ended(t, "committed") /\ tx'[t].state = "committed" /\ tx'[t].call = tx[t].call
           /\ \A r \in Key : db'[r] = IF r \in DOMAIN tx[t].writes THEN tx[t].writes[r] ELSE db[r]
<1>1. /\ FrameOK(t) /\ DOMAIN tx = Tx /\ tx[t].state = "active" /\ Active(t)
      /\ db \in [Key -> RowType] /\ \A r \in Key : RowOK(r, db[r])
  BY DEF LockInv, Active, Commit
<1>2. tx'[t] = Ended(t, "committed") /\ tx' = [tx EXCEPT ![t] = tx'[t]] /\ db' = Sees(t)
  BY <1>1 DEF Commit
<1>3. tx'[t].state = "committed" /\ tx'[t].call = tx[t].call
  BY <1>2 DEF Ended, Idle
<1>4. /\ DOMAIN db' = Key /\ db' = [r \in Key |-> db'[r]]
      /\ \A r \in Key : db'[r] = IF r \in DOMAIN tx[t].writes THEN tx[t].writes[r] ELSE db[r]
  BY <1>2 DEF Sees
<1>5. ASSUME NEW r \in Key
      PROVE  RowOK(r, db'[r]) /\ (db[r].status # "absent" => Older(db[r], db'[r]))
  <2>1. CASE r \in DOMAIN tx[t].writes
    BY <1>1, <1>4, <2>1, WrittenRow
  <2>2. CASE r \notin DOMAIN tx[t].writes
    BY <1>1, <1>4, <2>2 DEF Older, RowType
  <2> QED
    BY <2>1, <2>2
<1>6. RowsAge /\ db' \in [Key -> RowType]
  BY <1>4, <1>5 DEF RowsAge, RowOK
<1>7. ASSUME NEW other \in Tx \ {t}
      PROVE  /\ db[other].status = "absent" => db'[other].status = "absent"
             /\ Active(other) => \A r \in DOMAIN tx[other].writes : db'[r] = db[r]
  <2>1. other \in Key
    BY DEF Key
  <2>2. db[other].status = "absent" => other \notin DOMAIN tx[t].writes
    BY <1>1, WrittenRow
  <2>3. Active(other) => \A r \in DOMAIN tx[other].writes : r \in Key /\ r \notin DOMAIN tx[t].writes
    BY <1>1 DEF LockInv, LocksExclude, FrameOK
  <2> QED
    BY <1>4, <2>1, <2>2, <2>3
<1> QED
  BY <1>2, <1>3, <1>4, <1>5, <1>6, <1>7 DEF Undisturbed

(* A commit keeps the invariant of every other transaction. *)
LEMMA CommitStep ==
    ASSUME LockInv, NEW t \in Tx, Commit(t)
    PROVE  LockInv'
  BY CommitRows, OwnStep

(* A snapshot matches committed rows, none of them written already except   *)
(* by session().                                                            *)
LEMMA Matching ==
    ASSUME LockInv, NEW t \in Tx, Active(t), ~AtEnd(t), ~tx[t].running, NEW seen, NEW r \in Key,
           Statement(t) \notin Control,
           Where(Statement(t), tx[t].call, seen, r, Sees(t)[r])
    PROVE  /\ db[r].status # "absent"
           /\ Candidate(Statement(t), tx[t].call, r, db[r])
           /\ r \in DOMAIN tx[t].writes => Statement(t) = "extend_session"
<1>1. FrameOK(t) /\ \A k \in Key : RowOK(k, db[k])
  BY DEF LockInv
<1>2. InProgram(t) /\ tx[t].call \in Calls /\ Arguments(tx[t].call)
  BY <1>1 DEF FrameOK, InProgram
<1>3. /\ Candidate(Statement(t), tx[t].call, r, Sees(t)[r]) /\ Ready(Statement(t), Sees(t)[r])
      /\ Sees(t)[r] = IF r \in DOMAIN tx[t].writes THEN tx[t].writes[r] ELSE db[r]
  BY Clauses DEF Sees
<1>4. CASE r \notin DOMAIN tx[t].writes
  <2>1. Statement(t) = "extend_session" => tx[t].call.method = "session"
    BY <1>2, Stages
  <2>2. Statement(t) = "extend_session" => db[r].status # "absent"
    BY <1>1, <1>2, <1>3, <2>1, ArgumentRows DEF Candidate, IsRow
  <2> QED
    BY <1>3, <1>4, <2>2 DEF Ready
<1>5. CASE r \in DOMAIN tx[t].writes /\ r = t
  <2>1. "insert" \in Done(t) /\ tx[t].writes[r] = Inserted(t)
    BY <1>5, WrittenRow
  <2>2. tx[t].call.method = "complete_registration" /\ Statement(t) = "complete_recoveries"
    BY <1>2, <2>1, Stages DEF Control
  <2>3. Inserted(t).table = "credentials"
    BY <1>1, <2>1, <2>2, InsertedRow
  <2> QED
    BY <1>3, <1>5, <2>1, <2>2, <2>3 DEF Candidate
<1>6. CASE r \in DOMAIN tx[t].writes /\ r # t
  <2>1. PICK statement \in Reached(t) : Candidate(statement, tx[t].call, r, db[r])
    BY <1>6, WrittenRow
  <2>2. statement \in Done(t)
    BY <2>1 DEF Reached
  <2>3. Older(db[r], Sees(t)[r]) /\ db[r].status # "absent" /\ Sees(t)[r].status # "absent"
    BY <1>3, <1>6, WrittenRow
  <2>4. db[r].table = TableOf(statement)
    BY <1>1, <2>1, <2>2, <2>3, CandidateTables
  <2>5. db[r].table = TableOf(Statement(t))
    <3>1. CASE Statement(t) = "complete_recoveries"
      BY <1>3, <2>3, <3>1 DEF Candidate, TableOf, Older
    <3>2. CASE Statement(t) # "complete_recoveries"
      <4>1. Candidate(Statement(t), tx[t].call, r, db[r])
        BY <1>3, <2>3, <3>2 DEF Candidate, Older
      <4> QED
        BY <1>1, <2>3, <4>1, CandidateTables
    <3> QED
      BY <3>1, <3>2
  <2>6. Statement(t) = "extend_session" /\ statement = "select_session"
    BY <1>2, <2>1, <2>2, <2>4, <2>5, Stages DEF TableOf, Control, Candidate
  <2> QED
    BY <1>3, <2>3, <2>6 DEF Candidate
<1> QED
  BY <1>4, <1>5, <1>6

(* The rows that a snapshot puts on a statement's list are its candidates. *)
LEMMA SnapshotStep ==
    ASSUME LockInv, NEW t \in Tx, TakeSnapshot(t)
    PROVE  LockInv'
<1>1. /\ FrameOK(t) /\ WritesOK(t) /\ NeededAreLocked(t) /\ Active(t) /\ tx[t].state = "active"
      /\ DOMAIN tx = Tx /\ ~AtEnd(t) /\ ~tx[t].running /\ Statement(t) \notin Control
      /\ UNCHANGED db
  BY DEF LockInv, TakeSnapshot, Active
<1> DEFINE seen == [u \in UserRows |-> Sees(t)[u].epoch]
           matching == {r \in Key : Where(Statement(t), tx[t].call, seen, r, Sees(t)[r])}
<1>2. PICK order \in SetToSeqs(matching) :
         tx' = [tx EXCEPT ![t].running = TRUE, ![t].todo = order, ![t].seen = seen]
  BY DEF TakeSnapshot
<1>3. /\ order \in Seq(Key) /\ {order[i] : i \in 1 .. Len(order)} = matching
      /\ \A i, j \in 1 .. Len(order) : order[i] = order[j] => i = j
  <2>1. matching \in SUBSET Key
    OBVIOUS
  <2> QED
    BY <2>1, Orders
<1>m. \A r \in matching : /\ db[r].status # "absent"
                          /\ Candidate(Statement(t), tx[t].call, r, db[r])
                          /\ r \in DOMAIN tx[t].writes => Statement(t) = "extend_session"
  BY <1>1, Matching
<1> HIDE DEF matching, seen
<1>4. /\ tx' = [tx EXCEPT ![t] = tx'[t]] /\ DOMAIN tx'[t] = DOMAIN Idle
      /\ tx'[t].state = "active" /\ tx'[t].call = tx[t].call /\ tx'[t].step = tx[t].step
      /\ tx'[t].todo = order /\ tx'[t].hit = tx[t].hit /\ tx'[t].running = TRUE
      /\ tx'[t].writes = tx[t].writes /\ tx'[t].epoch = tx[t].epoch /\ tx'[t].before = tx[t].before
  <2>1. PICK frame : frame = [tx[t] EXCEPT !.running = TRUE, !.todo = order, !.seen = seen]
    OBVIOUS
  <2>2. DOMAIN tx[t] = DOMAIN Idle
    BY <1>1 DEF FrameOK
  <2>3. tx' = [tx EXCEPT ![t] = frame]
    BY <1>1, <1>2, <2>1
  <2> QED
    BY <1>1, <2>1, <2>2, <2>3 DEF Idle
<1>5. /\ Done(t)' = Done(t) /\ Reached(t)' = Done(t) \cup {Statement(t)} /\ AtEnd(t)' = AtEnd(t)
      /\ Statement(t)' = Statement(t) /\ ToVisit(t)' = matching /\ Inserted(t)' = Inserted(t)
      /\ InProgram(t)' = InProgram(t) /\ Reached(t) = Done(t)
  BY <1>1, <1>3, <1>4 DEF Done, Reached, AtEnd, Statement, ToVisit, Inserted, InProgram
<1>6. Undisturbed(t) /\ db'[t].status = "absent"
  BY <1>1, <1>4, QuietStep
<1>7. FrameOK(t)'
  <2>1. Arguments(tx[t].call)'
    BY <1>1, <1>4 DEF FrameOK, Arguments, Owns, IsRow
  <2>2. /\ tx[t].call.user # None => tx[t].epoch <= db[tx[t].call.user].epoch
        /\ tx[t].epoch \in Nat /\ tx[t].before \subseteq Key
        /\ \A r \in tx[t].before : db[r].status # "absent"
        /\ DOMAIN tx[t].writes \subseteq Key /\ tx[t].hit \in BOOLEAN
        /\ tx[t].writes = [r \in DOMAIN tx[t].writes |-> tx[t].writes[r]]
    BY <1>1 DEF FrameOK
  <2>3. /\ tx'[t].call.user # None => tx'[t].epoch <= db'[tx'[t].call.user].epoch
        /\ tx'[t].epoch \in Nat /\ tx'[t].before \subseteq Key
        /\ \A r \in tx'[t].before : db'[r].status # "absent"
        /\ DOMAIN tx'[t].writes \subseteq Key /\ tx'[t].hit \in BOOLEAN
        /\ tx'[t].writes = [r \in DOMAIN tx'[t].writes |-> tx'[t].writes[r]]
    BY <1>1, <1>4, <2>2
  <2>4. /\ tx'[t].todo \in Seq(Key)
        /\ \A i, j \in 1 .. Len(tx'[t].todo) : tx'[t].todo[i] = tx'[t].todo[j] => i = j
    BY <1>3, <1>4
  <2>5. /\ tx'[t].running \in BOOLEAN
        /\ tx'[t].running => ~AtEnd(t)' /\ (Statement(t) \notin Control)'
        /\ ~tx'[t].running => tx'[t].todo = <<>> /\ ~tx'[t].hit
        /\ InProgram(t)' /\ DOMAIN tx'[t] = DOMAIN Idle
    BY <1>1, <1>4, <1>5 DEF FrameOK, Control
  <2> QED
    BY <2>1, <2>3, <2>4, <2>5 DEF FrameOK
<1>8. WritesOK(t)'
  <2>1. ASSUME NEW statement, NEW r
        PROVE  Set(t, statement, r, db[r])' = Set(t, statement, r, db[r])
    BY <1>1, Zenon DEF Set, NextEpoch
  <2> QED
    BY <1>1, <1>4, <1>5, <2>1 DEF WritesOK
<1>9. TodoOK(t)'
  BY <1>1, <1>m, <1>4, <1>5 DEF TodoOK
<1>10. NeededAreLocked(t)'
  <2>1. ~tx[t].hit
    BY <1>1 DEF FrameOK
  <2> QED
    BY <1>1, <1>4, <1>5, <2>1 DEF NeededAreLocked
<1>11. \A other \in Tx \ {t} :
          Active(other) => DOMAIN tx'[t].writes \cap DOMAIN tx[other].writes = {}
  BY <1>1, <1>4 DEF LockInv, LocksExclude
<1> QED
  BY <1>4, <1>6, <1>7, <1>8, <1>9, <1>10, <1>11, OwnStep

(* The row that is visited, and what a visit does. *)
LEMMA Visited ==
    ASSUME LockInv, NEW t \in Tx, Active(t), tx[t].todo # <<>>
    PROVE  LET r == Head(tx[t].todo) IN
           /\ r \in Key /\ r \in ToVisit(t) /\ tx[t].running /\ ~AtEnd(t) /\ Statement(t) \notin Control
           /\ Sees(t)[r] = db[r] /\ db[r].status # "absent"
           /\ Candidate(Statement(t), tx[t].call, r, db[r])
<1>1. FrameOK(t) /\ WritesOK(t) /\ TodoOK(t) /\ \A k \in Key : RowOK(k, db[k])
  BY DEF LockInv
<1>2. InProgram(t) /\ tx[t].todo \in Seq(Key) /\ tx[t].running /\ ~AtEnd(t) /\ Statement(t) \notin Control
  BY <1>1 DEF FrameOK
<1>3. PICK r : r = Head(tx[t].todo)
  OBVIOUS
<1>4. r \in ToVisit(t) /\ r \in Key
  BY <1>1, <1>2, <1>3, TailVisits DEF ToVisit, FrameOK
<1>5. /\ db[r].status # "absent" /\ Candidate(Statement(t), tx[t].call, r, db[r])
      /\ r \in DOMAIN tx[t].writes => Statement(t) = "extend_session"
  BY <1>1, <1>4 DEF TodoOK
<1>6. ASSUME r \in DOMAIN tx[t].writes
      PROVE  tx[t].writes[r] = db[r]
  <2>1. r # t
    BY <1>5, <1>6, WrittenRow
  <2>2. PICK statement \in Reached(t) : /\ Candidate(statement, tx[t].call, r, db[r])
                                        /\ tx[t].writes[r] = Set(t, statement, r, db[r])
    BY <1>6, <2>1, WrittenRow
  <2>3. statement \in {"select_session", "extend_session"}
    BY <1>2, <1>5, <1>6, <2>2, Stages DEF Reached
  <2> QED
    BY <2>2, <2>3, Updates
<1> QED
  BY <1>2, <1>3, <1>4, <1>5, <1>6 DEF Sees

(* What a visit does: the clause is evaluated on the committed version. *)
LEMMA VisitFrame ==
    ASSUME LockInv, NEW t \in Tx, VisitRow(t)
    PROVE  LET r == Head(tx[t].todo)
               hit == Where(Statement(t), tx[t].call, tx[t].seen, r, db[r])
           IN
           /\ Active(t) /\ tx[t].todo # <<>> /\ Holder(r) \subseteq {t}
           /\ tx' = [tx EXCEPT ![t] = tx'[t]] /\ UNCHANGED <<db, advisory>> /\ DOMAIN tx'[t] = DOMAIN Idle
           /\ tx'[t].state = "active" /\ tx'[t].call = tx[t].call /\ tx'[t].step = tx[t].step
           /\ tx'[t].todo = Tail(tx[t].todo) /\ tx'[t].running = tx[t].running
           /\ tx'[t].seen = tx[t].seen
           /\ tx'[t].epoch = tx[t].epoch /\ tx'[t].before = tx[t].before
           /\ hit => tx'[t].hit = TRUE
                     /\ tx'[t].writes = Write(tx[t].writes, r, Set(t, Statement(t), r, db[r]))
           /\ ~hit => tx'[t].hit = tx[t].hit /\ tx'[t].writes = tx[t].writes
<1>1. /\ Active(t) /\ tx[t].state = "active" /\ tx[t].todo # <<>> /\ DOMAIN tx = Tx
      /\ DOMAIN tx[t] = DOMAIN Idle
  BY DEF LockInv, VisitRow, Active, FrameOK
<1>2. PICK r : r = Head(tx[t].todo)
  OBVIOUS
<1>3. Sees(t)[r] = db[r]
  BY <1>1, <1>2, Visited
<1>4. PICK new : new = Set(t, Statement(t), r, db[r])
  OBVIOUS
<1>5. /\ Holder(r) \subseteq {t} /\ UNCHANGED <<db, advisory>>
      /\ tx' = [tx EXCEPT ![t] =
                  IF Where(Statement(t), tx[t].call, tx[t].seen, r, db[r])
                  THEN [tx[t] EXCEPT !.todo = Tail(tx[t].todo), !.hit = TRUE,
                                     !.writes = Write(tx[t].writes, r, new)]
                  ELSE [tx[t] EXCEPT !.todo = Tail(tx[t].todo)]]
  BY <1>2, <1>3, <1>4 DEF VisitRow
<1>6. PICK writes : writes = Write(tx[t].writes, r, new)
  OBVIOUS
<1>7. PICK frame : frame = [tx[t] EXCEPT !.todo = Tail(tx[t].todo), !.hit = TRUE, !.writes = writes]
  OBVIOUS
<1>8. PICK pass : pass = [tx[t] EXCEPT !.todo = Tail(tx[t].todo)]
  OBVIOUS
<1>9. CASE Where(Statement(t), tx[t].call, tx[t].seen, r, db[r])
  <2>1. tx' = [tx EXCEPT ![t] = frame]
    BY <1>5, <1>6, <1>7, <1>9
  <2>2. tx'[t] = frame /\ tx' = [tx EXCEPT ![t] = tx'[t]]
    BY <1>1, <2>1
  <2>3. /\ DOMAIN frame = DOMAIN Idle
        /\ frame.state = "active" /\ frame.call = tx[t].call /\ frame.step = tx[t].step
        /\ frame.todo = Tail(tx[t].todo) /\ frame.running = tx[t].running /\ frame.seen = tx[t].seen
        /\ frame.epoch = tx[t].epoch /\ frame.before = tx[t].before
        /\ frame.hit = TRUE /\ frame.writes = writes
    BY <1>1, <1>7 DEF Idle
  <2> QED
    BY <1>1, <1>2, <1>4, <1>5, <1>6, <1>9, <2>2, <2>3
<1>10. CASE ~Where(Statement(t), tx[t].call, tx[t].seen, r, db[r])
  <2>1. tx' = [tx EXCEPT ![t] = pass]
    BY <1>5, <1>8, <1>10
  <2>2. tx'[t] = pass /\ tx' = [tx EXCEPT ![t] = tx'[t]]
    BY <1>1, <2>1
  <2>3. /\ DOMAIN pass = DOMAIN Idle
        /\ pass.state = "active" /\ pass.call = tx[t].call /\ pass.step = tx[t].step
        /\ pass.todo = Tail(tx[t].todo) /\ pass.running = tx[t].running /\ pass.seen = tx[t].seen
        /\ pass.epoch = tx[t].epoch /\ pass.before = tx[t].before
        /\ pass.hit = tx[t].hit /\ pass.writes = tx[t].writes
    BY <1>1, <1>8 DEF Idle
  <2> QED
    BY <1>1, <1>2, <1>5, <1>10, <2>2, <2>3
<1> QED
  BY <1>9, <1>10

(* A visit writes a row that no other transaction has written. *)
LEMMA VisitStep ==
    ASSUME LockInv, NEW t \in Tx, VisitRow(t)
    PROVE  LockInv'
<1>1. /\ FrameOK(t) /\ WritesOK(t) /\ TodoOK(t) /\ NeededAreLocked(t) /\ Active(t)
      /\ DOMAIN tx = Tx /\ tx[t].state = "active"
  BY DEF LockInv, VisitRow, Active
<1>2. PICK r : r = Head(tx[t].todo)
  OBVIOUS
<1>3. PICK new : new = Set(t, Statement(t), r, db[r])
  OBVIOUS
<1>4. /\ tx' = [tx EXCEPT ![t] = tx'[t]] /\ UNCHANGED db /\ DOMAIN tx'[t] = DOMAIN Idle
      /\ Holder(r) \subseteq {t} /\ tx[t].todo # <<>>
      /\ tx'[t].state = "active" /\ tx'[t].call = tx[t].call /\ tx'[t].step = tx[t].step
      /\ tx'[t].todo = Tail(tx[t].todo) /\ tx'[t].running = tx[t].running
      /\ tx'[t].epoch = tx[t].epoch /\ tx'[t].before = tx[t].before
      /\ \/ /\ tx'[t].hit = TRUE /\ tx'[t].writes = Write(tx[t].writes, r, new)
            /\ Where(Statement(t), tx[t].call, tx[t].seen, r, db[r])
         \/ tx'[t].hit = tx[t].hit /\ tx'[t].writes = tx[t].writes
  BY <1>2, <1>3, VisitFrame
<1>5. /\ r \in Key /\ r \in ToVisit(t) /\ tx[t].running /\ ~AtEnd(t) /\ Statement(t) \notin Control
      /\ db[r].status # "absent" /\ Candidate(Statement(t), tx[t].call, r, db[r])
  BY <1>1, <1>2, <1>4, Visited
<1>6. /\ tx'[t].todo \in Seq(Key)
      /\ \A i, j \in 1 .. Len(tx'[t].todo) : tx'[t].todo[i] = tx'[t].todo[j] => i = j
      /\ ToVisit(t)' = ToVisit(t) \ {r}
  <2>1. /\ tx[t].todo \in Seq(Key)
        /\ \A i, j \in 1 .. Len(tx[t].todo) : tx[t].todo[i] = tx[t].todo[j] => i = j
    BY <1>1 DEF FrameOK
  <2>2. PICK todo \in Seq(Key) : todo = tx[t].todo
    BY <2>1
  <2>3. /\ Tail(todo) \in Seq(Key)
        /\ \A i, j \in 1 .. Len(Tail(todo)) : Tail(todo)[i] = Tail(todo)[j] => i = j
        /\ {Tail(todo)[i] : i \in 1 .. Len(Tail(todo))} = {todo[i] : i \in 1 .. Len(todo)} \ {r}
    <3>1. /\ todo # <<>> /\ r = Head(todo)
          /\ \A i, j \in 1 .. Len(todo) : todo[i] = todo[j] => i = j
      BY <1>2, <1>4, <2>1, <2>2
    <3> HIDE <2>2
    <3> QED
      BY <3>1, TailVisits
  <2>4. ToVisit(t) = {todo[i] : i \in 1 .. Len(todo)}
    BY <2>2 DEF ToVisit
  <2>5. tx'[t].todo = Tail(todo)
    BY <1>4, <2>2
  <2>6. ToVisit(t)' = {Tail(todo)[i] : i \in 1 .. Len(Tail(todo))}
    BY <2>5 DEF ToVisit
  <2> QED
    BY <2>3, <2>4, <2>5, <2>6
<1>7. /\ Done(t)' = Done(t) /\ Reached(t)' = Reached(t) /\ AtEnd(t)' = AtEnd(t)
      /\ Statement(t)' = Statement(t) /\ Inserted(t)' = Inserted(t)
      /\ InProgram(t)' = InProgram(t) /\ Statement(t) \in Reached(t) /\ Done(t) \subseteq Reached(t)
  BY <1>4, <1>5 DEF Done, Reached, AtEnd, Statement, Inserted, InProgram
<1>8. /\ DOMAIN tx[t].writes \subseteq DOMAIN tx'[t].writes
      /\ DOMAIN tx'[t].writes \subseteq DOMAIN tx[t].writes \cup {r}
      /\ tx'[t].writes = [k \in DOMAIN tx'[t].writes |-> tx'[t].writes[k]]
      /\ \A k \in DOMAIN tx'[t].writes :
            \/ k \in DOMAIN tx[t].writes /\ tx'[t].writes[k] = tx[t].writes[k]
            \/ /\ k = r /\ tx'[t].writes[k] = new /\ tx'[t].hit = TRUE
               /\ Where(Statement(t), tx[t].call, tx[t].seen, r, db[r])
      /\ tx'[t].hit => tx[t].hit \/ r \in DOMAIN tx'[t].writes
  BY <1>1, <1>4 DEF Write, FrameOK
<1>9. Undisturbed(t) /\ db'[t].status = "absent"
  BY <1>1, <1>4, QuietStep
<1>10. FrameOK(t)'
  <2>1. Arguments(tx[t].call)'
    BY <1>1, <1>4 DEF FrameOK, Arguments, Owns, IsRow
  <2>2. /\ tx[t].call.user # None => tx[t].epoch <= db[tx[t].call.user].epoch
        /\ tx[t].epoch \in Nat /\ tx[t].before \subseteq Key
        /\ \A k \in tx[t].before : db[k].status # "absent"
        /\ DOMAIN tx[t].writes \subseteq Key /\ tx[t].hit \in BOOLEAN /\ tx[t].running \in BOOLEAN
    BY <1>1 DEF FrameOK
  <2>3. /\ tx'[t].call.user # None => tx'[t].epoch <= db'[tx'[t].call.user].epoch
        /\ tx'[t].epoch \in Nat /\ tx'[t].before \subseteq Key
        /\ \A k \in tx'[t].before : db'[k].status # "absent"
        /\ DOMAIN tx'[t].writes \subseteq Key
    BY <1>4, <1>5, <1>8, <2>2
  <2>4. tx'[t].hit \in BOOLEAN /\ tx'[t].running \in BOOLEAN
    BY <1>4, <2>2
  <2>5. /\ tx'[t].running => ~AtEnd(t)' /\ (Statement(t) \notin Control)'
        /\ ~tx'[t].running => tx'[t].todo = <<>> /\ ~tx'[t].hit
        /\ InProgram(t)' /\ DOMAIN tx'[t] = DOMAIN Idle
    BY <1>1, <1>4, <1>5, <1>7 DEF FrameOK, Control
  <2> QED
    BY <1>6, <1>8, <2>1, <2>3, <2>4, <2>5 DEF FrameOK
<1>11. WritesOK(t)'
  <2>1. ASSUME NEW statement, NEW k
        PROVE  Set(t, statement, k, db[k])' = Set(t, statement, k, db[k])
    BY <1>4, Zenon DEF Set, NextEpoch
  <2>2. Where(Statement(t), tx[t].call, tx[t].seen, r, db[r]) => Ready(Statement(t), db[r])
    BY Clauses
  <2> QED
    BY <1>1, <1>3, <1>4, <1>5, <1>7, <1>8, <2>1, <2>2 DEF WritesOK
<1>12. TodoOK(t)'
  BY <1>1, <1>4, <1>6, <1>7, <1>8 DEF TodoOK
<1>13. NeededAreLocked(t)'
  <2>1. Statement(t) \in MustAffect => r = Needed(Statement(t), tx[t].call)
    BY <1>5 DEF MustAffect, Needed, Candidate
  <2>2. ASSUME NEW statement \in Reached(t) \cap MustAffect, statement \in Done(t) \/ tx'[t].hit
        PROVE  Needed(statement, tx[t].call) \in DOMAIN tx'[t].writes
    <3>1. CASE statement \in Done(t) \/ tx[t].hit
      BY <1>1, <1>8, <3>1 DEF NeededAreLocked
    <3>2. CASE statement \notin Done(t) /\ ~tx[t].hit
      <4>1. statement = Statement(t) /\ r \in DOMAIN tx'[t].writes
        BY <1>8, <2>2, <3>2 DEF Reached
      <4> QED
        BY <2>1, <4>1
    <3> QED
      BY <3>1, <3>2
  <2> QED
    BY <1>1, <1>4, <1>7, <1>8, <2>2 DEF NeededAreLocked
<1>14. ASSUME NEW other \in Tx \ {t}, Active(other)
       PROVE  DOMAIN tx'[t].writes \cap DOMAIN tx[other].writes = {}
  <2>1. r \notin DOMAIN tx[other].writes
    BY <1>4, <1>14 DEF Holder
  <2> QED
    BY <1>1, <1>8, <1>14, <2>1 DEF LockInv, LocksExclude
<1> QED
  BY <1>4, <1>9, <1>10, <1>11, <1>12, <1>13, <1>14, OwnStep

(* A new transaction holds nothing. *)
LEMMA BeginStep ==
    ASSUME LockInv, NEW t \in Tx, NEW call \in Calls, Begin(t, call)
    PROVE  LockInv'
<1>1. /\ DOMAIN tx = Tx /\ tx[t].state = "idle" /\ Arguments(call) /\ UNCHANGED db
      /\ db \in [Key -> RowType]
  BY DEF LockInv, Begin
<1>2. PICK frame : frame = [Idle EXCEPT !.state = "active", !.call = call,
                               !.epoch = IF call.user = None THEN 0 ELSE db[call.user].epoch,
                               !.before = Open(db)]
  OBVIOUS
<1>3. tx'[t] = frame /\ tx' = [tx EXCEPT ![t] = tx'[t]]
  BY <1>1, <1>2 DEF Begin
<1>4. /\ DOMAIN frame = DOMAIN Idle /\ frame.state = "active" /\ frame.call = call /\ frame.step = 1
      /\ frame.todo = <<>> /\ frame.hit = FALSE /\ frame.running = FALSE
      /\ frame.writes = [r \in {} |-> Absent] /\ frame.before = Open(db)
      /\ frame.epoch = IF call.user = None THEN 0 ELSE db[call.user].epoch
  BY <1>2 DEF Idle
<1>5. /\ call.user \in Key \cup {None} /\ call.method \in Method
  BY CallsAssumption
<1>6. Len(Statements(call)) \in Nat
  BY <1>5, Programs DEF Program, Method
<1>7. InProgram(t)' /\ Done(t)' = {} /\ Reached(t)' = {} /\ ToVisit(t)' = {} /\ DOMAIN tx'[t].writes = {}
  BY <1>3, <1>4, <1>6 DEF InProgram, Done, Reached, ToVisit
<1>8. Undisturbed(t) /\ db'[t].status = "absent"
  BY <1>1, <1>3, QuietStep
<1>9. FrameOK(t)'
  <2>1. Arguments(tx[t].call)'
    BY <1>1, <1>3, <1>4 DEF Arguments, Owns, IsRow
  <2>2. /\ tx'[t].running \in BOOLEAN /\ tx'[t].hit \in BOOLEAN /\ ~tx'[t].running /\ ~tx'[t].hit
    BY <1>3, <1>4, Zenon
  <2>3. tx'[t].todo = <<>> /\ tx'[t].todo \in Seq(Key) /\ Len(tx'[t].todo) = 0
    BY <1>3, <1>4
  <2>4. \A i, j \in 1 .. Len(tx'[t].todo) : tx'[t].todo[i] = tx'[t].todo[j] => i = j
    BY <2>3
  <2>5. /\ tx'[t].epoch \in Nat
        /\ tx'[t].call.user # None => tx'[t].epoch <= db'[tx'[t].call.user].epoch
    BY <1>1, <1>3, <1>4, <1>5 DEF RowType
  <2>6. /\ tx'[t].before \subseteq Key /\ \A r \in tx'[t].before : db'[r].status # "absent"
    BY <1>1, <1>3, <1>4 DEF Open
  <2>7. /\ DOMAIN tx'[t].writes \subseteq Key /\ DOMAIN tx'[t] = DOMAIN Idle
        /\ tx'[t].writes = [r \in DOMAIN tx'[t].writes |-> tx'[t].writes[r]]
    BY <1>3, <1>4
  <2> QED
    BY <1>7, <2>1, <2>2, <2>3, <2>4, <2>5, <2>6, <2>7 DEF FrameOK
<1>10. WritesOK(t)' /\ TodoOK(t)' /\ NeededAreLocked(t)'
  BY <1>7 DEF WritesOK, TodoOK, NeededAreLocked
<1> QED
  BY <1>3, <1>4, <1>7, <1>8, <1>9, <1>10, OwnStep

(* The steps of a transaction. *)
LEMMA LockSteps ==
    ASSUME LockInv, [Next]_vars
    PROVE  LockInv'
<1>1. ASSUME NEW t \in Tx, NEW call \in Calls, Begin(t, call)
      PROVE  LockInv'
  BY <1>1, BeginStep
<1>2. ASSUME NEW t \in Tx, AdvisoryLock(t)
      PROVE  LockInv'
  <2>1. Statement(t) \notin MustAffect /\ Statement(t) # "insert"
    BY <1>2 DEF AdvisoryLock, MustAffect
  <2> QED
    BY <1>2, <2>1, AdvanceStep DEF AdvisoryLock
<1>3. ASSUME NEW t \in Tx, CountOperatorCredentials(t)
      PROVE  LockInv'
  <2>1. /\ Statement(t) \notin MustAffect /\ Statement(t) # "insert" /\ Active(t) /\ ~AtEnd(t)
        /\ Rollback(t) \/ (tx' = [tx EXCEPT ![t] = NextStep(tx[t])] /\ UNCHANGED db)
    BY <1>3 DEF CountOperatorCredentials, MustAffect
  <2> QED
    BY <2>1, AdvanceStep, RollbackStep
<1>4. ASSUME NEW t \in Tx, Insert(t)
      PROVE  LockInv'
  BY <1>4, InsertStep
<1>5. ASSUME NEW t \in Tx, TakeSnapshot(t)
      PROVE  LockInv'
  BY <1>5, SnapshotStep
<1>6. ASSUME NEW t \in Tx, VisitRow(t)
      PROVE  LockInv'
  BY <1>6, VisitStep
<1>7. ASSUME NEW t \in Tx, FinishStatement(t)
      PROVE  LockInv'
  <2>1. /\ Active(t) /\ tx[t].running
        /\ \/ Rollback(t)
           \/ /\ tx' = [tx EXCEPT ![t] = NextStep(tx[t])] /\ UNCHANGED db
              /\ Statement(t) \in MustAffect => tx[t].hit
    BY <1>7 DEF FinishStatement
  <2>2. ~AtEnd(t) /\ Statement(t) # "insert"
    BY <2>1 DEF LockInv, FrameOK, Control
  <2> QED
    BY <2>1, <2>2, AdvanceStep, RollbackStep
<1>8. ASSUME NEW t \in Tx, Commit(t)
      PROVE  LockInv'
  BY <1>8, CommitStep
<1>9. ASSUME NEW t \in Tx, DeadlockVictim(t)
      PROVE  LockInv'
  <2>1. Active(t)
    BY <1>9 DEF DeadlockVictim, WaitCycle, WaitsFor
  <2> QED
    BY <1>9, <2>1, RollbackStep DEF DeadlockVictim
<1>10. ASSUME NEW t \in Tx, Abort(t)
       PROVE  LockInv'
  BY <1>10, RollbackStep DEF Abort
<1>11. CASE UNCHANGED vars
  <2>1. db' = db /\ tx' = tx
    BY <1>11 DEF vars
  <2>2. RowsAge /\ db' \in [Key -> RowType]
    BY <2>1 DEF RowsAge, Older, LockInv, RowType
  <2>3. \A t \in Tx : Active(t)' => FrameOK(t)' /\ WritesOK(t)' /\ TodoOK(t)' /\ NeededAreLocked(t)'
    BY <2>1, <2>2, OtherStays DEF Active
  <2>4. /\ LocksExclude' /\ DOMAIN tx' = Tx /\ \A r \in Key : RowOK(r, db'[r])
        /\ \A t \in Tx : /\ tx'[t].state \in {"idle", "active", "committed", "failed"}
                         /\ tx'[t].state # "committed" => db'[t].status = "absent"
    BY <2>1 DEF LockInv, LocksExclude, Active
  <2> QED
    BY <2>2, <2>3, <2>4 DEF LockInv
<1> QED
  BY <1>1, <1>2, <1>3, <1>4, <1>5, <1>6, <1>7, <1>8, <1>9, <1>10, <1>11 DEF Next, Step, Finished

(* A consistent database without transactions satisfies the invariant. *)
LEMMA LockStart ==
    ASSUME Init
    PROVE  LockInv
<1>1. PICK rows \in Databases : db = [r \in Key |-> IF r \in DOMAIN rows THEN rows[r] ELSE Absent]
  BY DEF Init
<1>2. Consistent(rows)
  BY DatabasesAssumption
<1>3. Absent \in RowType
  BY DEF Absent, RowType, Table
<1>4. ASSUME NEW r \in Key
      PROVE  RowOK(r, db[r]) /\ (r \notin Row => db[r].status = "absent")
  <2>1. CASE r \in DOMAIN rows
    <3>1. db[r] = rows[r] /\ r \in Row /\ rows[r] \in RowType
      BY <1>1, <1>2, <2>1 DEF Consistent
    <3>2. r \in UserRows <=> rows[r].table = "users"
      BY <1>2, <2>1 DEF Consistent
    <3>3. /\ rows[r].table \in {"users", "credentials", "sessions"} => rows[r].status = "open"
          /\ rows[r].table \in {"ceremonies", "capabilities"} => rows[r].status \in {"open", "closed"}
          /\ rows[r].table = "recoveries" =>
                rows[r].status \in {"pending", "approved", "issued", "completed"}
          /\ \/ rows[r].table = "users" \/ rows[r].user \in UserRows
             \/ rows[r].table = "ceremonies" /\ rows[r].user = None
      BY <1>2, <2>1 DEF Consistent
    <3>4. rows[r].table \in Table
      BY <3>1 DEF RowType
    <3> QED
      BY <3>1, <3>2, <3>3, <3>4 DEF RowOK, Table
  <2>2. CASE r \notin DOMAIN rows
    <3>1. db[r] = Absent
      BY <1>1, <2>2
    <3>2. r \notin UserRows
      BY <1>2, <2>2 DEF Consistent
    <3>3. Absent.status = "absent" /\ Absent.table = "users"
      BY DEF Absent
    <3> QED
      BY <1>3, <3>1, <3>2, <3>3 DEF RowOK
  <2> QED
    BY <2>1, <2>2
<1>5. db \in [Key -> RowType]
  BY <1>1, <1>4 DEF RowOK
<1>6. /\ DOMAIN tx = Tx /\ \A t \in Tx : tx[t].state = "idle" /\ db[t].status = "absent"
  BY <1>4, RowAssumption DEF Init, Idle, Key
<1> QED
  BY <1>4, <1>5, <1>6 DEF LockInv, Active, LocksExclude

(* Statements and locks, for every set of transactions: an uncommitted      *)
(* version is the update of the committed row it was made from, a row is    *)
(* written by one transaction at a time, and what a method cannot do        *)
(* without is locked once it is past it.                                    *)
THEOREM LockInvariant == Spec => []LockInv
<1>1. Init => LockInv
  BY LockStart
<1>2. LockInv /\ [Next]_vars => LockInv'
  BY LockSteps
<1> QED
  BY <1>1, <1>2, PTL DEF Spec

-----------------------------------------------------------------------------
(* The steps, seen from the transaction that takes them.                    *)

(* Only the frame of t changes. *)
Alone(t) == tx' = [tx EXCEPT ![t] = tx'[t]] /\ UNCHANGED db

Keeps(t) ==
    /\ Active(t) /\ Active(t)' /\ tx'[t].call = tx[t].call
    /\ tx'[t].epoch = tx[t].epoch /\ tx'[t].before = tx[t].before

Begins(t) ==
    /\ tx[t].state = "idle" /\ Alone(t) /\ UNCHANGED advisory /\ Active(t)' /\ tx'[t].call \in Calls
    /\ Done(t)' = {} /\ Reached(t)' = {} /\ ToVisit(t)' = {} /\ ~tx'[t].running
    /\ DOMAIN tx'[t].writes = {} /\ tx'[t].before = Open(db)
    /\ tx'[t].epoch = IF tx'[t].call.user = None THEN 0 ELSE db[tx'[t].call.user].epoch

Advances(t) ==
    /\ Alone(t) /\ Keeps(t) /\ ~AtEnd(t)
    /\ Done(t)' = Done(t) \cup {Statement(t)} /\ Reached(t)' = Done(t)'
    /\ ToVisit(t)' = {} /\ ~tx'[t].running
    /\ DOMAIN tx[t].writes \subseteq DOMAIN tx'[t].writes
    /\ \/ Statement(t) \in Control /\ ~tx[t].running
       \/ tx[t].running /\ ToVisit(t) = {} /\ (Statement(t) \in MustAffect => tx[t].hit)
    /\ IF Statement(t) = "advisory_lock" THEN advisory = None /\ advisory' = t
       ELSE UNCHANGED advisory
    /\ Statement(t) = "count_operator_credentials" =>
          \A r \in Open(Sees(t)) :
              ~(Sees(t)[r].table = "credentials" /\ Sees(t)[r].user \in Operators)

Snapshots(t) ==
    /\ Alone(t) /\ Keeps(t) /\ ~AtEnd(t) /\ UNCHANGED advisory
    /\ ~tx[t].running /\ tx'[t].running /\ Statement(t)' = Statement(t) /\ Statement(t) \notin Control
    /\ Done(t)' = Done(t) /\ Reached(t)' = Done(t) \cup {Statement(t)} /\ ~tx'[t].hit
    /\ tx'[t].writes = tx[t].writes
    /\ tx'[t].seen = [u \in UserRows |-> Sees(t)[u].epoch]
    /\ ToVisit(t)' = {r \in Key : Where(Statement(t), tx[t].call, tx'[t].seen, r, Sees(t)[r])}

Visits(t, r) ==
    LET matches == Where(Statement(t), tx[t].call, tx[t].seen, r, db[r]) IN
    /\ Alone(t) /\ Keeps(t) /\ ~AtEnd(t) /\ UNCHANGED advisory
    /\ tx[t].running /\ tx'[t].running /\ Statement(t)' = Statement(t) /\ Statement(t) \notin Control
    /\ Done(t)' = Done(t) /\ Reached(t)' = Reached(t) /\ tx'[t].seen = tx[t].seen
    /\ r \in ToVisit(t) /\ ToVisit(t)' = ToVisit(t) \ {r} /\ db[r].status # "absent"
    /\ DOMAIN tx'[t].writes = DOMAIN tx[t].writes \cup (IF matches THEN {r} ELSE {})
    /\ matches \/ tx'[t].hit = tx[t].hit

Fails(t) ==
    /\ Alone(t) /\ Active(t) /\ tx'[t].state = "failed" /\ advisory' = Release(t)

(* The steps of Next, by what they do to the frame of their transaction. *)
LEMMA Moves ==
    ASSUME LockInv, LockInv', [Next]_vars
    PROVE  \/ UNCHANGED vars
           \/ \E t \in Tx : \/ Begins(t) \/ Advances(t) \/ Snapshots(t) \/ Fails(t) \/ Commit(t)
                            \/ \E r \in Key : Visits(t, r)
<1>1. ASSUME NEW t \in Tx, NEW call \in Calls, Begin(t, call)
      PROVE  Begins(t)
  <2>1. PICK frame : frame = [Idle EXCEPT !.state = "active", !.call = call,
                                 !.epoch = IF call.user = None THEN 0 ELSE db[call.user].epoch,
                                 !.before = Open(db)]
    OBVIOUS
  <2>2. tx' = [tx EXCEPT ![t] = frame] /\ tx[t].state = "idle" /\ UNCHANGED <<db, advisory>>
    BY <1>1, <2>1 DEF Begin
  <2>3. DOMAIN tx = Tx
    BY DEF LockInv
  <2>4. tx'[t] = frame /\ tx' = [tx EXCEPT ![t] = tx'[t]]
    BY <2>2, <2>3
  <2>5. /\ frame.state = "active" /\ frame.call = call /\ frame.step = 1
        /\ frame.todo = <<>> /\ frame.running = FALSE /\ DOMAIN frame.writes = {} /\ frame.before = Open(db)
        /\ frame.epoch = IF call.user = None THEN 0 ELSE db[call.user].epoch
    BY <2>1 DEF Idle
  <2>6. Done(t)' = {} /\ Reached(t)' = {} /\ ToVisit(t)' = {}
    BY <2>4, <2>5 DEF Done, Reached, ToVisit
  <2> QED
    BY <2>2, <2>4, <2>5, <2>6 DEF Begins, Alone, Active
<1>2. ASSUME NEW t \in Tx, Active(t), ~AtEnd(t), UNCHANGED db, NEW writes,
             DOMAIN tx[t].writes \subseteq DOMAIN writes,
             tx' = [tx EXCEPT ![t] = NextStep([tx[t] EXCEPT !.writes = writes])]
      PROVE  /\ Alone(t) /\ Keeps(t)
             /\ Done(t)' = Done(t) \cup {Statement(t)} /\ Reached(t)' = Done(t)'
             /\ ToVisit(t)' = {} /\ ~tx'[t].running
             /\ DOMAIN tx[t].writes \subseteq DOMAIN tx'[t].writes
  <2>1. PICK frame : frame = NextStep([tx[t] EXCEPT !.writes = writes])
    OBVIOUS
  <2>2. DOMAIN tx = Tx /\ tx[t].state = "active" /\ FrameOK(t) /\ DOMAIN tx[t] = DOMAIN Idle
    BY <1>2 DEF LockInv, Active, FrameOK
  <2>3. tx'[t] = frame /\ tx' = [tx EXCEPT ![t] = tx'[t]]
    BY <1>2, <2>1, <2>2
  <2>4. /\ frame.state = "active" /\ frame.call = tx[t].call /\ frame.step = tx[t].step + 1
        /\ frame.todo = <<>> /\ frame.running = FALSE /\ frame.writes = writes
        /\ frame.epoch = tx[t].epoch /\ frame.before = tx[t].before
    BY <2>1, <2>2 DEF NextStep, Idle
  <2>5. Done(t)' = Done(t) \cup {Statement(t)}
    BY <1>2, <2>2, <2>3, <2>4, NextStage DEF FrameOK
  <2>6. Reached(t)' = Done(t)' /\ ToVisit(t)' = {}
    BY <2>3, <2>4 DEF Reached, ToVisit
  <2> QED
    BY <1>2, <2>2, <2>3, <2>4, <2>5, <2>6 DEF Alone, Keeps, Active
<1>3. ASSUME NEW t \in Tx, Active(t), ~AtEnd(t), UNCHANGED db, tx' = [tx EXCEPT ![t] = NextStep(tx[t])]
      PROVE  /\ Alone(t) /\ Keeps(t)
             /\ Done(t)' = Done(t) \cup {Statement(t)} /\ Reached(t)' = Done(t)'
             /\ ToVisit(t)' = {} /\ ~tx'[t].running
             /\ DOMAIN tx[t].writes \subseteq DOMAIN tx'[t].writes
  <2>1. PICK frame : frame = NextStep(tx[t])
    OBVIOUS
  <2>2. DOMAIN tx = Tx /\ tx[t].state = "active" /\ FrameOK(t) /\ DOMAIN tx[t] = DOMAIN Idle
    BY <1>3 DEF LockInv, Active, FrameOK
  <2>3. tx'[t] = frame /\ tx' = [tx EXCEPT ![t] = tx'[t]]
    BY <1>3, <2>1, <2>2
  <2>4. /\ frame.state = "active" /\ frame.call = tx[t].call /\ frame.step = tx[t].step + 1
        /\ frame.todo = <<>> /\ frame.running = FALSE /\ frame.writes = tx[t].writes
        /\ frame.epoch = tx[t].epoch /\ frame.before = tx[t].before
    BY <2>1, <2>2 DEF NextStep, Idle
  <2>5. Done(t)' = Done(t) \cup {Statement(t)}
    BY <1>3, <2>2, <2>3, <2>4, NextStage DEF FrameOK
  <2>6. Reached(t)' = Done(t)' /\ ToVisit(t)' = {}
    BY <2>3, <2>4 DEF Reached, ToVisit
  <2> QED
    BY <1>3, <2>2, <2>3, <2>4, <2>5, <2>6 DEF Alone, Keeps, Active
<1>4. \A t \in Tx : Active(t) => /\ tx[t].running => ~AtEnd(t) /\ Statement(t) \notin Control
                                 /\ tx[t].running \in BOOLEAN
  BY DEF LockInv, FrameOK
<1>5. ASSUME NEW t \in Tx, AdvisoryLock(t)
      PROVE  Advances(t)
  BY <1>3, <1>4, <1>5 DEF AdvisoryLock, Advances, Control
<1>6. ASSUME NEW t \in Tx, CountOperatorCredentials(t)
      PROVE  Advances(t) \/ (Active(t) /\ Rollback(t))
  BY <1>3, <1>4, <1>6 DEF CountOperatorCredentials, Advances, Control
<1>7. ASSUME NEW t \in Tx, Insert(t)
      PROVE  Advances(t)
  <2>1. PICK writes : writes = Write(tx[t].writes, t, Inserted(t))
    OBVIOUS
  <2>2. /\ DOMAIN tx[t].writes \subseteq DOMAIN writes /\ Active(t) /\ ~AtEnd(t) /\ UNCHANGED <<db, advisory>>
        /\ Statement(t) = "insert"
        /\ tx' = [tx EXCEPT ![t] = NextStep([tx[t] EXCEPT !.writes = writes])]
    BY <1>7, <2>1 DEF Insert, Write
  <2> QED
    BY <1>2, <1>4, <2>2 DEF Advances, Control
<1>8. ASSUME NEW t \in Tx, FinishStatement(t)
      PROVE  Advances(t) \/ (Active(t) /\ Rollback(t))
  <2>1. ToVisit(t) = {} /\ ~AtEnd(t) /\ Statement(t) \notin Control
    BY <1>4, <1>8 DEF FinishStatement, ToVisit
  <2>2. Statement(t) \notin {"advisory_lock", "count_operator_credentials"}
    BY <2>1 DEF Control
  <2> QED
    BY <1>3, <1>8, <2>1, <2>2 DEF FinishStatement, Advances
<1>9. ASSUME NEW t \in Tx, TakeSnapshot(t)
      PROVE  Snapshots(t)
  <2> DEFINE seen == [u \in UserRows |-> Sees(t)[u].epoch]
             matching == {r \in Key : Where(Statement(t), tx[t].call, seen, r, Sees(t)[r])}
  <2>1. PICK order \in SetToSeqs(matching) :
           tx' = [tx EXCEPT ![t].running = TRUE, ![t].todo = order, ![t].seen = seen]
    BY <1>9 DEF TakeSnapshot
  <2>2. /\ Active(t) /\ tx[t].state = "active" /\ ~AtEnd(t) /\ ~tx[t].running
        /\ Statement(t) \notin Control /\ UNCHANGED <<db, advisory>>
        /\ DOMAIN tx = Tx /\ DOMAIN tx[t] = DOMAIN Idle /\ ~tx[t].hit
    BY <1>9 DEF TakeSnapshot, LockInv, FrameOK, Active
  <2>3. {order[i] : i \in 1 .. Len(order)} = matching
    <3>1. matching \in SUBSET Key
      OBVIOUS
    <3> QED
      BY <3>1, Orders
  <2> HIDE DEF matching, seen
  <2>4. PICK frame : frame = [tx[t] EXCEPT !.running = TRUE, !.todo = order, !.seen = seen]
    OBVIOUS
  <2>5. tx' = [tx EXCEPT ![t] = frame]
    BY <2>1, <2>2, <2>4
  <2>6. tx'[t] = frame /\ tx' = [tx EXCEPT ![t] = tx'[t]]
    BY <2>2, <2>5
  <2>7. /\ frame.state = "active" /\ frame.call = tx[t].call /\ frame.step = tx[t].step
        /\ frame.todo = order /\ frame.hit = tx[t].hit /\ frame.running = TRUE /\ frame.seen = seen
        /\ frame.writes = tx[t].writes /\ frame.epoch = tx[t].epoch /\ frame.before = tx[t].before
    BY <2>2, <2>4 DEF Idle
  <2>8. /\ Done(t)' = Done(t) /\ Reached(t)' = Done(t) \cup {Statement(t)}
        /\ Statement(t)' = Statement(t) /\ ToVisit(t)' = matching
    BY <2>3, <2>6, <2>7 DEF Done, Reached, Statement, ToVisit
  <2> QED
    BY <2>2, <2>6, <2>7, <2>8 DEF Snapshots, Alone, Keeps, Active, matching, seen
<1>10. ASSUME NEW t \in Tx, VisitRow(t)
       PROVE  \E r \in Key : Visits(t, r)
  <2>1. PICK r : r = Head(tx[t].todo)
    OBVIOUS
  <2>2. PICK new : new = Set(t, Statement(t), r, db[r])
    OBVIOUS
  <2>3. /\ tx' = [tx EXCEPT ![t] = tx'[t]] /\ UNCHANGED <<db, advisory>>
        /\ Active(t) /\ tx[t].todo # <<>>
        /\ tx'[t].state = "active" /\ tx'[t].call = tx[t].call /\ tx'[t].step = tx[t].step
        /\ tx'[t].todo = Tail(tx[t].todo) /\ tx'[t].running = tx[t].running /\ tx'[t].seen = tx[t].seen
        /\ tx'[t].epoch = tx[t].epoch /\ tx'[t].before = tx[t].before
        /\ IF Where(Statement(t), tx[t].call, tx[t].seen, r, db[r])
           THEN tx'[t].writes = Write(tx[t].writes, r, new)
           ELSE tx'[t].hit = tx[t].hit /\ tx'[t].writes = tx[t].writes
    BY <1>10, <2>1, <2>2, VisitFrame
  <2>4. /\ r \in Key /\ r \in ToVisit(t) /\ tx[t].running /\ ~AtEnd(t) /\ Statement(t) \notin Control
        /\ db[r].status # "absent"
    BY <2>1, <2>3, Visited
  <2>5. PICK todo \in Seq(Key) : todo = tx[t].todo
    BY <2>3 DEF LockInv, FrameOK
  <2>6. {Tail(todo)[i] : i \in 1 .. Len(Tail(todo))} = {todo[i] : i \in 1 .. Len(todo)} \ {r}
    <3>1. /\ todo # <<>> /\ r = Head(todo)
          /\ \A i, j \in 1 .. Len(todo) : todo[i] = todo[j] => i = j
      BY <2>1, <2>3, <2>5 DEF LockInv, FrameOK
    <3> HIDE <2>5
    <3> QED
      BY <3>1, TailVisits
  <2>7. ToVisit(t) = {todo[i] : i \in 1 .. Len(todo)}
    BY <2>5 DEF ToVisit
  <2>8. tx'[t].todo = Tail(todo)
    BY <2>3, <2>5
  <2>9. ToVisit(t)' = {Tail(todo)[i] : i \in 1 .. Len(Tail(todo))}
    BY <2>8 DEF ToVisit
  <2>10. ToVisit(t)' = ToVisit(t) \ {r}
    BY <2>6, <2>7, <2>9
  <2>11. DOMAIN Write(tx[t].writes, r, new) = DOMAIN tx[t].writes \cup {r}
    BY DEF Write
  <2>12. /\ Done(t)' = Done(t) /\ Reached(t)' = Reached(t) /\ Statement(t)' = Statement(t)
    BY <2>3 DEF Done, Reached, Statement
  <2>13. /\ DOMAIN tx'[t].writes = DOMAIN tx[t].writes
               \cup (IF Where(Statement(t), tx[t].call, tx[t].seen, r, db[r]) THEN {r} ELSE {})
         /\ Where(Statement(t), tx[t].call, tx[t].seen, r, db[r]) \/ tx'[t].hit = tx[t].hit
    BY <2>3, <2>11
  <2>14. Visits(t, r)
    BY <2>3, <2>4, <2>10, <2>12, <2>13 DEF Visits, Alone, Keeps, Active
  <2> QED
    BY <2>4, <2>14
<1>11. ASSUME NEW t \in Tx, Active(t), Rollback(t)
       PROVE  Fails(t)
  <2>1. DOMAIN tx = Tx
    BY DEF LockInv
  <2>2. tx'[t] = Ended(t, "failed") /\ tx' = [tx EXCEPT ![t] = tx'[t]]
    BY <1>11, <2>1 DEF Rollback
  <2> QED
    BY <1>11, <2>2 DEF Fails, Alone, Rollback, Ended, Idle
<1>12. ASSUME NEW t \in Tx, DeadlockVictim(t)
       PROVE  Fails(t)
  <2>1. Active(t) /\ Rollback(t)
    BY <1>12 DEF DeadlockVictim, WaitCycle, WaitsFor
  <2> QED
    BY <1>11, <2>1
<1>13. ASSUME NEW t \in Tx, Step(t)
       PROVE  \/ Begins(t) \/ Advances(t) \/ Snapshots(t) \/ Fails(t) \/ Commit(t)
              \/ \E r \in Key : Visits(t, r)
  BY <1>5, <1>6, <1>7, <1>8, <1>9, <1>10, <1>11, <1>12, <1>13 DEF Step
<1> QED
  BY <1>1, <1>11, <1>13 DEF Next, Finished, Abort

(* Rows only grow older, and only the transaction that moves changes. *)
LEMMA Ages ==
    ASSUME LockInv, LockInv', [Next]_vars
    PROVE  RowsAge
<1>1. db' = db => RowsAge
  BY DEF RowsAge, Older, LockInv, RowType
<1>2. ASSUME NEW t \in Tx, Commit(t)
      PROVE  RowsAge
  BY <1>2, CommitRows DEF Undisturbed
<1>3. \A t \in Tx : /\ Begins(t) \/ Advances(t) \/ Snapshots(t) \/ Fails(t) => db' = db
                    /\ \A r \in Key : Visits(t, r) => db' = db
  BY DEF Begins, Advances, Snapshots, Fails, Visits, Alone
<1> QED
  BY <1>1, <1>2, <1>3, Moves DEF vars

(* A step leaves the frames of the other transactions. *)
LEMMA OthersKeep ==
    ASSUME LockInv, NEW t \in Tx, Alone(t) \/ Commit(t), NEW other \in Tx, other # t
    PROVE  tx'[other] = tx[other]
  BY DEF LockInv, Alone, Commit

-----------------------------------------------------------------------------
(* Invalidation: the epoch and what was open before.                        *)

Sweeps == {"advance_epoch", "revoke_sessions", "consume_ceremonies", "consume_capabilities"}

Settled(t, r) == r \in DOMAIN tx[t].writes \/ db[r].status = "closed"

(* A sweep misses nothing that was open when its transaction began: such a  *)
(* row is written, closed by another transaction, or still to be visited.   *)
SweepOK(t) ==
    /\ UserRows \subseteq tx[t].before
    /\ \A r \in tx[t].before, statement \in Reached(t) \cap Sweeps :
          Candidate(statement, tx[t].call, r, db[r]) =>
              Settled(t, r) \/ (statement \notin Done(t) /\ r \in ToVisit(t))

SweepInv == \A t \in Tx : Active(t) => SweepOK(t)

(* The same row is a candidate of a sweep at any time. *)
LEMMA SweepCandidates ==
    ASSUME RowsAge, NEW r \in Key, db[r].status # "absent", NEW statement \in Sweeps, NEW call,
           Candidate(statement, call, r, db'[r])
    PROVE  Candidate(statement, call, r, db[r])
  BY DEF RowsAge, Older, Sweeps, Candidate

(* A row that a sweep has to match, unless it is closed. *)
LEMMA SweepMatches ==
    ASSUME NEW statement \in Sweeps, NEW call, NEW seen, NEW r \in Key, RowOK(r, db[r]),
           db[r].status # "absent", Candidate(statement, call, r, db[r])
    PROVE  db[r].status = "closed" \/ Where(statement, call, seen, r, db[r])
<1>1. db[r].status = "closed" \/ db[r].status = "open"
  BY DEF RowOK, Sweeps, Candidate
<1> QED
  BY <1>1, SweepClauses DEF Sweeps, Candidate

(* No step hides an older row from a sweep that has not reached it. *)
LEMMA SweepSteps ==
    ASSUME LockInv, LockInv', SweepInv, [Next]_vars
    PROVE  SweepInv'
<1>1. RowsAge
  BY Ages
<1> SUFFICES ASSUME NEW t \in Tx, Active(t)'
             PROVE  SweepOK(t)'
  BY DEF SweepInv
<1>2. CASE Active(t) /\ tx'[t] = tx[t]
  <2>1. SweepOK(t) /\ \A r \in tx[t].before : r \in Key /\ db[r].status # "absent"
    BY <1>2 DEF SweepInv, LockInv, FrameOK
  <2>2. Done(t)' = Done(t) /\ Reached(t)' = Reached(t) /\ ToVisit(t)' = ToVisit(t)
    BY <1>2 DEF Done, Reached, ToVisit, Statement
  <2>3. \A r \in tx[t].before : Settled(t, r) => Settled(t, r)'
    BY <1>1, <1>2, <2>1 DEF Settled, RowsAge, Older
  <2> QED
    BY <1>1, <1>2, <2>1, <2>2, <2>3, SweepCandidates DEF SweepOK
<1>3. CASE Begins(t)
  <2>1. UserRows \subseteq Open(db)
    BY DEF LockInv, RowOK, Open, UserRows, InitiallyIn, Key
  <2> QED
    BY <1>3, <2>1 DEF Begins, SweepOK
<1>4. ASSUME Alone(t), Keeps(t)
      PROVE  /\ SweepOK(t) /\ \A r \in tx[t].before : r \in Key /\ db[r].status # "absent" /\ RowOK(r, db[r])
             /\ db' = db /\ tx'[t].before = tx[t].before /\ tx'[t].call = tx[t].call
  BY <1>4 DEF SweepInv, LockInv, FrameOK, Alone, Keeps
<1>5. CASE Advances(t)
  <2>1. Alone(t) /\ Keeps(t) /\ Done(t)' = Done(t) \cup {Statement(t)} /\ Reached(t)' = Done(t)'
    BY <1>5 DEF Advances
  <2>2. \A r \in tx[t].before : Settled(t, r) => Settled(t, r)'
    BY <1>4, <1>5, <2>1 DEF Settled, Advances
  <2>3. Control \cap Sweeps = {}
    BY DEF Control, Sweeps
  <2>4. ASSUME NEW r \in tx[t].before, NEW statement \in Reached(t)' \cap Sweeps,
               Candidate(statement, tx[t].call, r, db[r])
        PROVE  Settled(t, r)'
    <3>1. statement \in Done(t) \/ (tx[t].running /\ ToVisit(t) = {} /\ statement = Statement(t))
      BY <1>5, <2>1, <2>3, <2>4 DEF Advances
    <3>2. statement \in Reached(t)
      BY <3>1 DEF Reached
    <3> QED
      BY <1>4, <2>1, <2>2, <2>4, <3>1, <3>2 DEF SweepOK
  <2> QED
    BY <1>4, <2>1, <2>4 DEF SweepOK
<1>6. CASE Snapshots(t)
  <2>1. Alone(t) /\ Keeps(t) /\ Done(t)' = Done(t) /\ Reached(t)' = Done(t) \cup {Statement(t)}
    BY <1>6 DEF Snapshots
  <2>2. \A r \in tx[t].before : Settled(t, r)' = Settled(t, r)
    BY <1>4, <1>6, <2>1 DEF Settled, Snapshots
  <2>3. ASSUME NEW r \in tx[t].before, NEW statement \in Reached(t)' \cap Sweeps,
               Candidate(statement, tx[t].call, r, db[r]), ~Settled(t, r)
        PROVE  statement \notin Done(t) /\ r \in ToVisit(t)'
    <3>1. statement \notin Done(t)
      <4>1. statement \in Done(t) => statement \in Reached(t)
        BY DEF Reached
      <4> QED
        BY <1>4, <2>1, <2>3, <4>1 DEF SweepOK
    <3>2. statement = Statement(t) /\ Sees(t)[r] = db[r] /\ r \in Key
      BY <1>4, <2>1, <2>3, <3>1 DEF Sees, Settled
    <3>3. Where(statement, tx[t].call, tx'[t].seen, r, db[r])
      BY <1>4, <2>1, <2>3, <3>2, SweepMatches DEF Settled
    <3> QED
      BY <1>6, <3>1, <3>2, <3>3 DEF Snapshots
  <2> QED
    BY <1>4, <2>1, <2>2, <2>3 DEF SweepOK
<1>7. ASSUME NEW r \in Key, Visits(t, r)
      PROVE  SweepOK(t)'
  <2>1. /\ Alone(t) /\ Keeps(t) /\ Done(t)' = Done(t) /\ Reached(t)' = Reached(t)
        /\ ToVisit(t)' = ToVisit(t) \ {r} /\ DOMAIN tx[t].writes \subseteq DOMAIN tx'[t].writes
        /\ Where(Statement(t), tx[t].call, tx[t].seen, r, db[r]) => r \in DOMAIN tx'[t].writes
        /\ Reached(t) = Done(t) \cup {Statement(t)}
    BY <1>7 DEF Visits, Reached
  <2>2. \A k \in tx[t].before : Settled(t, k) => Settled(t, k)'
    BY <1>4, <2>1 DEF Settled
  <2>3. ASSUME NEW k \in tx[t].before, NEW statement \in Reached(t) \cap Sweeps,
               Candidate(statement, tx[t].call, k, db[k]), ~Settled(t, k)'
        PROVE  statement \notin Done(t) /\ k \in ToVisit(t)'
    <3>1. statement \notin Done(t) /\ k \in ToVisit(t) /\ statement = Statement(t)
      BY <1>4, <2>1, <2>2, <2>3 DEF SweepOK
    <3>2. k # r
      BY <1>4, <2>1, <2>3, <3>1, SweepMatches DEF Settled
    <3> QED
      BY <2>1, <3>1, <3>2
  <2> QED
    BY <1>4, <2>1, <2>2, <2>3 DEF SweepOK
<1>8. CASE UNCHANGED vars
  BY <1>2, <1>8 DEF vars, Active
<1>9. ASSUME NEW other \in Tx, other # t, Alone(other) \/ Commit(other)
      PROVE  SweepOK(t)'
  BY <1>2, <1>9, OthersKeep DEF Active
<1>10. ~Fails(t) /\ ~Commit(t)
  BY CommitRows DEF Fails, Active
<1>11. \A other \in Tx : /\ Begins(other) \/ Advances(other) \/ Snapshots(other) \/ Fails(other) => Alone(other)
                         /\ \A r \in Key : Visits(other, r) => Alone(other)
  BY DEF Begins, Advances, Snapshots, Fails, Visits
<1> QED
  BY <1>3, <1>5, <1>6, <1>7, <1>8, <1>9, <1>10, <1>11, Moves

(* What a transaction that commits has done to a row that it did not insert. *)
LEMMA CommittedRow ==
    ASSUME LockInv, NEW t \in Tx, Commit(t), NEW r \in DOMAIN tx[t].writes, r # t
    PROVE  /\ r \in Key /\ db[r].status # "absent"
           /\ \E statement \in Done(t) :
                 /\ db[r].table = TableOf(statement) /\ Candidate(statement, tx[t].call, r, db[r])
                 /\ Ready(statement, db[r])
                 /\ statement = "advance_epoch" => tx[t].writes[r].epoch = db[r].epoch + 1
                 /\ statement # "advance_epoch" => tx[t].writes[r].epoch = db[r].epoch
                 /\ statement \in {"revoke_session", "revoke_sessions", "consume_ceremonies",
                                   "consume_capabilities", "use_ceremony", "use_capability",
                                   "revoke_credential"} => tx[t].writes[r].status = "closed"
                 /\ statement \in {"use_credential", "extend_session", "select_session"} =>
                       tx[t].writes[r] = db[r]
<1>1. Active(t) /\ AtEnd(t) /\ FrameOK(t) /\ \A k \in Key : RowOK(k, db[k])
  BY DEF Commit, LockInv
<1>2. r \in Key /\ db[r].status # "absent"
  BY <1>1, WrittenRow
<1>3. PICK statement \in Reached(t) :
         /\ Candidate(statement, tx[t].call, r, db[r]) /\ Ready(statement, db[r])
         /\ tx[t].writes[r] = Set(t, statement, r, db[r])
  BY <1>1, WrittenRow
<1>4. statement \in Done(t)
  BY <1>1, <1>3 DEF Reached, FrameOK
<1>5. db[r].table = TableOf(statement)
  BY <1>1, <1>2, <1>3, <1>4, CandidateTables
<1> QED
  BY <1>1, <1>2, <1>3, <1>4, <1>5, UpdatedRow

(* What an invalidation that commits has closed and advanced. *)
LEMMA SweepCommits ==
    ASSUME LockInv, SweepInv, NEW t \in Tx, Commit(t)
    PROVE  /\ \A r \in tx[t].before, u \in Key :
                 (/\ Invalidates(tx[t].call, u)
                  /\ db[r].table \in {"sessions", "ceremonies", "capabilities"}
                  /\ db[r].user = u) => db'[r].status = "closed"
           /\ \A u \in UserRows :
                 db'[u].epoch = IF Invalidates(tx[t].call, u) THEN db[u].epoch + 1 ELSE db[u].epoch
<1>1. /\ Active(t) /\ AtEnd(t) /\ FrameOK(t) /\ SweepOK(t) /\ \A r \in Key : RowOK(r, db[r])
      /\ InProgram(t) /\ tx[t].call \in Calls /\ Arguments(tx[t].call) /\ Done(t) \subseteq Reached(t)
  BY DEF Commit, LockInv, SweepInv, FrameOK, InProgram, Reached
<1>2. \A r \in Key : db'[r] = IF r \in DOMAIN tx[t].writes THEN tx[t].writes[r] ELSE db[r]
  BY CommitRows
<1>3. ASSUME NEW r \in DOMAIN tx[t].writes, r # t
      PROVE  /\ r \in Key /\ db[r].status # "absent"
             /\ \E statement \in Done(t) :
                   /\ db[r].table = TableOf(statement) /\ Candidate(statement, tx[t].call, r, db[r])
                   /\ statement = "advance_epoch" => tx[t].writes[r].epoch = db[r].epoch + 1
                   /\ statement # "advance_epoch" => tx[t].writes[r].epoch = db[r].epoch
                   /\ statement \in {"revoke_session", "revoke_sessions", "consume_ceremonies",
                                     "consume_capabilities", "use_ceremony", "use_capability",
                                     "revoke_credential"} => tx[t].writes[r].status = "closed"
  BY <1>3, CommittedRow
<1>4. ASSUME NEW u, Invalidates(tx[t].call, u)
      PROVE  /\ Sweeps \subseteq Done(t)
             /\ Done(t) \subseteq Sweeps \cup {"approve", "revoke_credential", "insert"}
             /\ OfUser(tx[t].call, u)
  BY <1>1, <1>4, Stages DEF Invalidates, OfUser, Sweeps
<1>5. ASSUME NEW r \in tx[t].before, NEW u \in Key, Invalidates(tx[t].call, u), db[r].user = u,
             db[r].table \in {"sessions", "ceremonies", "capabilities"}
      PROVE  db'[r].status = "closed"
  <2>1. r \in Key /\ db[r].status # "absent" /\ r # t
    BY <1>1, <1>5 DEF FrameOK, LockInv, Active
  <2>2. PICK statement \in Sweeps : Candidate(statement, tx[t].call, r, db[r])
    BY <1>4, <1>5 DEF Sweeps, Candidate
  <2>3. Settled(t, r)
    BY <1>1, <1>4, <1>5, <2>2 DEF SweepOK
  <2>4. CASE r \in DOMAIN tx[t].writes
    <3>1. PICK written \in Done(t) :
             /\ db[r].table = TableOf(written) /\ Candidate(written, tx[t].call, r, db[r])
             /\ written \in {"revoke_session", "revoke_sessions", "consume_ceremonies",
                             "consume_capabilities", "use_ceremony", "use_capability",
                             "revoke_credential"} => tx[t].writes[r].status = "closed"
      BY <1>3, <2>1, <2>4
    <3>2. written \in {"revoke_sessions", "consume_ceremonies", "consume_capabilities"}
      BY <1>4, <1>5, <3>1 DEF TableOf, Sweeps, Candidate
    <3> QED
      BY <1>2, <2>1, <2>4, <3>1, <3>2
  <2> QED
    BY <1>2, <2>1, <2>3, <2>4 DEF Settled
<1>6. ASSUME NEW u \in UserRows
      PROVE  db'[u].epoch = IF Invalidates(tx[t].call, u) THEN db[u].epoch + 1 ELSE db[u].epoch
  <2>1. u \in Key /\ db[u].table = "users" /\ db[u].status = "open" /\ u # t
    BY <1>1, RowAssumption DEF UserRows, InitiallyIn, Key, RowOK
  <2>2. CASE u \in DOMAIN tx[t].writes
    <3>1. PICK statement \in Done(t) :
             /\ db[u].table = TableOf(statement) /\ Candidate(statement, tx[t].call, u, db[u])
             /\ statement = "advance_epoch" => tx[t].writes[u].epoch = db[u].epoch + 1
      BY <1>3, <2>1, <2>2
    <3>2. statement = "advance_epoch"
      BY <2>1, <3>1 DEF TableOf
    <3>3. Invalidates(tx[t].call, u)
      BY <1>1, <3>1, <3>2, Stages DEF Candidate, Invalidates, OfUser
    <3> QED
      BY <1>2, <2>1, <2>2, <3>1, <3>2, <3>3
  <2>3. CASE u \notin DOMAIN tx[t].writes
    <3>1. ~Invalidates(tx[t].call, u)
      <4> SUFFICES ASSUME Invalidates(tx[t].call, u)
                   PROVE  FALSE
        OBVIOUS
      <4>1. "advance_epoch" \in Done(t) \cap Sweeps /\ Candidate("advance_epoch", tx[t].call, u, db[u])
        BY <1>4, <2>1 DEF Candidate, Sweeps
      <4> QED
        BY <1>1, <2>1, <2>3, <4>1 DEF SweepOK, Settled
    <3> QED
      BY <1>2, <2>1, <2>3, <3>1
  <2> QED
    BY <2>2, <2>3
<1> QED
  BY <1>5, <1>6

(* Only a commit makes a transaction committed, and changes a row. *)
LEMMA OnlyCommits ==
    ASSUME LockInv, LockInv', [Next]_vars
    PROVE  /\ \/ /\ db' = db
                 /\ \A t \in Tx : tx'[t].state = "committed" <=> tx[t].state = "committed"
              \/ \E t \in Tx : Commit(t)
           /\ \A t \in Tx : tx[t].state # "committed" /\ tx'[t].state = "committed" => Commit(t)
           /\ \A t \in Tx : tx[t].state = "committed" => tx'[t] = tx[t]
<1>1. CASE UNCHANGED vars
  BY <1>1 DEF vars
<1>2. ASSUME NEW t \in Tx, Begins(t) \/ Advances(t) \/ Snapshots(t) \/ Fails(t) \/ \E r \in Key : Visits(t, r)
      PROVE  Alone(t) /\ tx[t].state # "committed" /\ tx'[t].state # "committed"
  BY <1>2 DEF Begins, Advances, Snapshots, Fails, Visits, Keeps, Active
<1>3. ASSUME NEW t \in Tx, Alone(t), tx[t].state # "committed", tx'[t].state # "committed"
      PROVE  /\ db' = db
             /\ \A k \in Tx : tx'[k].state = "committed" <=> tx[k].state = "committed"
             /\ \A k \in Tx : tx[k].state = "committed" => tx'[k] = tx[k]
  BY <1>3, OthersKeep DEF Alone
<1>4. ASSUME NEW t \in Tx, Commit(t)
      PROVE  /\ \A k \in Tx : tx[k].state # "committed" /\ tx'[k].state = "committed" => Commit(k)
             /\ \A k \in Tx : tx[k].state = "committed" => tx'[k] = tx[k]
  <2>1. \A k \in Tx : k # t => tx'[k] = tx[k]
    BY <1>4, OthersKeep
  <2>2. tx[t].state = "active"
    BY <1>4 DEF Commit, Active
  <2> QED
    BY <1>4, <2>1, <2>2
<1>5. CASE \E t \in Tx : Commit(t)
  BY <1>4, <1>5
<1>6. CASE \E t \in Tx : Begins(t) \/ Advances(t) \/ Snapshots(t) \/ Fails(t) \/ \E r \in Key : Visits(t, r)
  BY <1>2, <1>3, <1>6
<1> QED
  BY <1>1, <1>5, <1>6, Moves

Invalidations(u) == {t \in Tx : tx[t].state = "committed" /\ Invalidates(tx[t].call, u)}

(* A commit advances the epochs of the users it invalidates, by one each. *)
LEMMA EpochSteps ==
    ASSUME LockInv, LockInv', SweepInv, EpochCountsInvalidations, [Next]_vars
    PROVE  EpochCountsInvalidations'
<1>1. \A t \in Tx : tx[t].state = "committed" => tx'[t] = tx[t]
  BY OnlyCommits
<1>2. CASE db' = db /\ \A t \in Tx : tx'[t].state = "committed" <=> tx[t].state = "committed"
  <2>1. \A u \in UserRows : Invalidations(u)' = Invalidations(u)
    BY <1>1, <1>2 DEF Invalidations
  <2> QED
    BY <1>2, <2>1 DEF EpochCountsInvalidations, Invalidations
<1>3. ASSUME NEW t \in Tx, Commit(t)
      PROVE  EpochCountsInvalidations'
  <2>1. /\ tx'[t].state = "committed" /\ tx'[t].call = tx[t].call /\ tx[t].state # "committed"
        /\ \A k \in Tx : k # t => tx'[k] = tx[k]
    BY <1>3, CommitRows, OthersKeep DEF Commit, Active
  <2> SUFFICES ASSUME NEW u \in UserRows
               PROVE  db'[u].epoch = 1 + Cardinality(Invalidations(u)')
    BY DEF EpochCountsInvalidations, Invalidations
  <2>2. Invalidations(u)' = Invalidations(u) \cup (IF Invalidates(tx[t].call, u) THEN {t} ELSE {})
    BY <2>1 DEF Invalidations
  <2>3. IsFiniteSet(Invalidations(u)) /\ t \notin Invalidations(u)
    BY <2>1, RowAssumption, FS_Subset DEF Invalidations
  <2>4. Cardinality(Invalidations(u)) \in Nat
    BY <2>3, FS_CardinalityType
  <2>5. Cardinality(Invalidations(u) \cup {t}) = Cardinality(Invalidations(u)) + 1
    BY <2>3, FS_AddElement
  <2>6. db[u].epoch = 1 + Cardinality(Invalidations(u))
    BY DEF EpochCountsInvalidations, Invalidations
  <2>7. db'[u].epoch = IF Invalidates(tx[t].call, u) THEN db[u].epoch + 1 ELSE db[u].epoch
    BY <1>3, SweepCommits
  <2>8. CASE Invalidates(tx[t].call, u)
    BY <2>2, <2>4, <2>5, <2>6, <2>7, <2>8
  <2>9. CASE ~Invalidates(tx[t].call, u)
    <3>1. Invalidations(u)' = Invalidations(u)
      BY <2>2, <2>9
    <3> QED
      BY <2>6, <2>7, <2>9, <3>1
  <2> QED
    BY <2>8, <2>9
<1> QED
  BY <1>2, <1>3, OnlyCommits

(* Nothing has been swept or counted at the start. *)
LEMMA EpochStart ==
    ASSUME Init
    PROVE  SweepInv /\ EpochCountsInvalidations
<1>1. PICK rows \in Databases : db = [r \in Key |-> IF r \in DOMAIN rows THEN rows[r] ELSE Absent]
  BY DEF Init
<1>2. Consistent(rows)
  BY DatabasesAssumption
<1>3. \A t \in Tx : tx[t].state = "idle"
  BY DEF Init, Idle
<1>4. ASSUME NEW u \in UserRows
      PROVE  db[u].epoch = 1 + Cardinality(Invalidations(u))
  <2>1. u \in DOMAIN rows /\ rows[u].table = "users" /\ u \in Key
    BY <1>2 DEF Consistent, Key, UserRows, InitiallyIn
  <2>2. db[u].epoch = 1
    BY <1>1, <1>2, <2>1 DEF Consistent
  <2>3. Invalidations(u) = {}
    BY <1>3 DEF Invalidations
  <2> QED
    BY <2>2, <2>3, FS_EmptySet
<1> QED
  BY <1>3, <1>4 DEF SweepInv, Active, EpochCountsInvalidations, Invalidations

(* Every row that was open when an invalidation began is reached by its     *)
(* sweeps, whatever other transactions hold or commit meanwhile.            *)
THEOREM SweepsMissNothing == Spec => []SweepInv
<1>1. Init => SweepInv
  BY EpochStart
<1>2. LockInv /\ LockInv' /\ SweepInv /\ [Next]_vars => SweepInv'
  BY SweepSteps
<1> QED
  BY <1>1, <1>2, LockInvariant, PTL DEF Spec

(* No invalidation is lost or counted twice: a user's epoch is one more     *)
(* than the number of committed invalidations of that user.                 *)
THEOREM EpochsCount == Spec => []EpochCountsInvalidations
<1>1. Init => EpochCountsInvalidations
  BY EpochStart
<1>2. LockInv /\ LockInv' /\ SweepInv /\ EpochCountsInvalidations /\ [Next]_vars
         => EpochCountsInvalidations'
  BY EpochSteps
<1> QED
  BY <1>1, <1>2, LockInvariant, SweepsMissNothing, PTL DEF Spec

(* A committed recovery approval, break-glass or rotation has closed every  *)
(* session, ceremony and capability of its users that was open before it    *)
(* began.                                                                   *)
THEOREM InvalidationsReach == Spec => InvalidationReachesOlderAuthority
<1>1. ASSUME LockInv, LockInv', SweepInv, [Next]_vars
      PROVE  \A t \in Tx :
               (Active(t) /\ tx'[t].state = "committed") =>
                  \A r \in tx[t].before, u \in Key :
                      (/\ Invalidates(tx[t].call, u)
                       /\ db[r].table \in {"sessions", "ceremonies", "capabilities"}
                       /\ db[r].user = u) => db'[r].status = "closed"
  BY <1>1, OnlyCommits, SweepCommits DEF Active
<1> QED
  BY <1>1, LockInvariant, SweepsMissNothing, PTL DEF Spec, InvalidationReachesOlderAuthority

-----------------------------------------------------------------------------
(* session(): what a request is let in with.                                *)

(* The epochs a statement compares with are not older than the call, and a  *)
(* session found with one of them was open when the call began.             *)
SessionOK(t) ==
    LET s == tx[t].call.session IN
    /\ db[s].status = "open" => s \in tx[t].before
    /\ tx[t].running => /\ tx[t].seen[tx[t].call.user] \in Nat
                        /\ tx[t].epoch <= tx[t].seen[tx[t].call.user]
    /\ "select_session" \in Done(t) \/ (tx[t].running /\ tx[t].hit) =>
          s \in tx[t].before /\ tx[t].epoch <= db[s].epoch

SessionInv == \A t \in Tx : Active(t) /\ tx[t].call.method = "session" => SessionOK(t)

(* What session() has found stays true while its transaction runs. *)
LEMMA SessionSteps ==
    ASSUME LockInv, LockInv', SessionInv, [Next]_vars
    PROVE  SessionInv'
<1>1. RowsAge
  BY Ages
<1> SUFFICES ASSUME NEW t \in Tx, Active(t)', tx'[t].call.method = "session"
             PROVE  SessionOK(t)'
  BY DEF SessionInv
<1>2. ASSUME Active(t), tx'[t].call = tx[t].call
      PROVE  /\ SessionOK(t) /\ FrameOK(t) /\ InProgram(t) /\ tx[t].call \in Calls
             /\ tx[t].call.session \in Key /\ tx[t].call.user \in UserRows
             /\ IsRow(tx[t].call.session, "sessions")
             /\ db[tx[t].call.session].user = tx[t].call.user
             /\ db[tx[t].call.session].status \in {"open", "closed"}
             /\ tx[t].epoch \in Nat /\ tx[t].epoch <= db[tx[t].call.user].epoch
             /\ \/ ~AtEnd(t) /\ Statement(t) = "select_session" /\ Done(t) = {}
                \/ "select_session" \in Done(t)
  <2>1. SessionOK(t) /\ FrameOK(t) /\ \A r \in Key : RowOK(r, db[r])
    BY <1>2 DEF SessionInv, LockInv
  <2>2. InProgram(t) /\ tx[t].call \in Calls /\ Arguments(tx[t].call) /\ tx[t].epoch \in Nat
    BY <2>1 DEF FrameOK, InProgram
  <2>3. /\ tx[t].call.session \in Key /\ IsRow(tx[t].call.session, "sessions")
        /\ db[tx[t].call.session].user = tx[t].call.user /\ tx[t].call.user \in UserRows
        /\ tx[t].call.user # None
    BY <1>2, <2>1, <2>2, ArgumentRows
  <2>4. db[tx[t].call.session].status \in {"open", "closed"}
    BY <2>1, <2>3 DEF RowOK, IsRow
  <2>5. \/ ~AtEnd(t) /\ Statement(t) = "select_session" /\ Done(t) = {}
        \/ "select_session" \in Done(t)
    BY <1>2, <2>2, Stages
  <2> QED
    BY <2>1, <2>2, <2>3, <2>4, <2>5 DEF FrameOK
<1>3. CASE Active(t) /\ tx'[t] = tx[t]
  <2>1. Done(t)' = Done(t)
    BY <1>3 DEF Done
  <2>2. /\ db'[tx[t].call.session].epoch = db[tx[t].call.session].epoch
        /\ db'[tx[t].call.session].status = "open" => db[tx[t].call.session].status = "open"
    BY <1>1, <1>2, <1>3 DEF RowsAge, Older, IsRow
  <2> QED
    BY <1>2, <1>3, <2>1, <2>2 DEF SessionOK
<1>4. CASE Begins(t)
  <2>1. tx'[t].call.session \in Key
    <3>1. FrameOK(t)' /\ \A r \in Key : RowOK(r, db'[r])
      BY DEF LockInv
    <3>2. tx'[t].call \in Calls /\ Arguments(tx[t].call)' /\ db' = db
      BY <1>4, <3>1 DEF Begins, Alone, FrameOK
    <3>3. PICK call \in Calls : call = tx'[t].call
      BY <3>2
    <3>4. Arguments(call)
      BY <3>2, <3>3 DEF Arguments, Owns, IsRow
    <3> QED
      BY <3>1, <3>2, <3>3, <3>4, ArgumentRows
  <2>2. /\ Done(t)' = {} /\ ~tx'[t].running /\ db' = db /\ tx'[t].before = Open(db)
    BY <1>4 DEF Begins, Alone
  <2> QED
    BY <2>1, <2>2 DEF SessionOK, Open
<1>5. CASE Advances(t)
  <2>1. /\ Alone(t) /\ Keeps(t) /\ Done(t)' = Done(t) \cup {Statement(t)} /\ ~tx'[t].running
        /\ db' = db /\ tx'[t].call = tx[t].call /\ tx'[t].epoch = tx[t].epoch
        /\ tx'[t].before = tx[t].before /\ Active(t)
    BY <1>5 DEF Advances, Keeps, Alone
  <2>2. Statement(t) = "select_session" => tx[t].running /\ tx[t].hit
    BY <1>5 DEF Advances, Control, MustAffect
  <2> QED
    BY <1>2, <2>1, <2>2 DEF SessionOK
<1>6. CASE Snapshots(t)
  <2>1. /\ Keeps(t) /\ Done(t)' = Done(t) /\ ~tx'[t].hit
        /\ db' = db /\ tx'[t].call = tx[t].call /\ tx'[t].epoch = tx[t].epoch
        /\ tx'[t].before = tx[t].before /\ Active(t)
        /\ tx'[t].seen = [u \in UserRows |-> Sees(t)[u].epoch]
    BY <1>6 DEF Snapshots, Keeps, Alone
  <2>2. PICK u \in UserRows : u = tx[t].call.user
    BY <1>2, <2>1
  <2>3. u \in Key
    BY DEF UserRows, InitiallyIn, Key
  <2>4. db[u].epoch \in Nat /\ tx[t].epoch \in Nat /\ tx[t].epoch <= db[u].epoch
    BY <1>2, <2>1, <2>2, <2>3 DEF LockInv, RowType
  <2>5. Sees(t)[u].epoch \in Nat /\ db[u].epoch <= Sees(t)[u].epoch
    <3>1. CASE u \notin DOMAIN tx[t].writes
      BY <2>3, <2>4, <3>1 DEF Sees
    <3>2. CASE u \in DOMAIN tx[t].writes
      <4>1. db[u].status # "absent"
        BY <2>3 DEF LockInv, RowOK
      <4>2. tx[t].writes[u] \in RowType /\ Older(db[u], tx[t].writes[u])
        BY <2>1, <3>2, <4>1, WrittenRow DEF RowOK
      <4> QED
        BY <2>3, <3>2, <4>2 DEF Sees, Older, RowType
    <3> QED
      BY <3>1, <3>2
  <2>6. tx'[t].seen[u] = Sees(t)[u].epoch
    BY <2>1
  <2>7. tx'[t].seen[u] \in Nat /\ tx[t].epoch <= tx'[t].seen[u]
    BY <2>4, <2>5, <2>6
  <2> QED
    BY <1>2, <2>1, <2>2, <2>7 DEF SessionOK
<1>7. ASSUME NEW r \in Key, Visits(t, r)
      PROVE  SessionOK(t)'
  <2>1. /\ Keeps(t) /\ Done(t)' = Done(t) /\ Statement(t)' = Statement(t) /\ tx[t].running
        /\ db' = db /\ tx'[t].call = tx[t].call /\ tx'[t].epoch = tx[t].epoch
        /\ tx'[t].before = tx[t].before /\ Active(t) /\ tx'[t].seen = tx[t].seen /\ ~AtEnd(t)
        /\ Where(Statement(t), tx[t].call, tx[t].seen, r, db[r]) \/ tx'[t].hit = tx[t].hit
    BY <1>7 DEF Visits, Keeps, Alone
  <2>2. ASSUME "select_session" \notin Done(t), Where(Statement(t), tx[t].call, tx[t].seen, r, db[r])
        PROVE  /\ db[tx[t].call.session].status = "open"
               /\ db[tx[t].call.session].epoch = tx[t].seen[tx[t].call.user]
    <3>1. Where("select_session", tx[t].call, tx[t].seen, r, db[r])
      BY <1>2, <2>1, <2>2
    <3>2. SelectSession(tx[t].call, tx[t].seen, r, db[r])
      BY <3>1, Zenon DEF Where
    <3> QED
      BY <1>2, <2>1, <3>2 DEF SelectSession
  <2> QED
    BY <1>2, <2>1, <2>2 DEF SessionOK
<1>8. CASE UNCHANGED vars
  BY <1>3, <1>8 DEF vars, Active
<1>9. ASSUME NEW other \in Tx, other # t, Alone(other) \/ Commit(other)
      PROVE  SessionOK(t)'
  BY <1>3, <1>9, OthersKeep DEF Active
<1>10. ~Fails(t) /\ ~Commit(t)
  BY CommitRows DEF Fails, Active
<1>11. \A other \in Tx : /\ Begins(other) \/ Advances(other) \/ Snapshots(other) \/ Fails(other) => Alone(other)
                         /\ \A r \in Key : Visits(other, r) => Alone(other)
  BY DEF Begins, Advances, Snapshots, Fails, Visits
<1> QED
  BY <1>4, <1>5, <1>6, <1>7, <1>8, <1>9, <1>10, <1>11, Moves

(* A request is let in only with a session that was open, and of the        *)
(* current epoch, when its call began.                                      *)
THEOREM SessionsAreCurrent == Spec => []AuthenticatedSessionWasCurrent
<1>1. Init => SessionInv
  BY DEF Init, SessionInv, Active, Idle
<1>2. LockInv /\ LockInv' /\ SessionInv /\ [Next]_vars => SessionInv'
  BY SessionSteps
<1>3. ASSUME LockInv, SessionInv
      PROVE  AuthenticatedSessionWasCurrent
  <2> SUFFICES ASSUME NEW t \in Tx, Active(t), tx[t].call.method = "session", tx[t].step > 1
               PROVE  /\ tx[t].call.session \in tx[t].before
                      /\ db[tx[t].call.session].epoch >= tx[t].epoch
    BY DEF AuthenticatedSessionWasCurrent
  <2>1. FrameOK(t) /\ SessionOK(t) /\ \A r \in Key : RowOK(r, db[r])
    BY <1>3 DEF LockInv, SessionInv
  <2>2. InProgram(t) /\ tx[t].call \in Calls /\ Arguments(tx[t].call) /\ tx[t].epoch \in Nat
    BY <2>1 DEF FrameOK, InProgram
  <2>3. Statements(tx[t].call)[1] \in Done(t)
    BY <2>2 DEF Done, InProgram
  <2>4. "select_session" \in Done(t)
    BY <2>2, <2>3, Stages
  <2>5. tx[t].call.session \in Key
    BY <2>1, <2>2, ArgumentRows
  <2>6. db[tx[t].call.session].epoch \in Nat
    BY <1>3, <2>5 DEF LockInv, RowType
  <2> QED
    BY <2>1, <2>2, <2>4, <2>6 DEF SessionOK
<1> QED
  BY <1>1, <1>2, <1>3, LockInvariant, PTL DEF Spec

-----------------------------------------------------------------------------
(* Enrolment: what a passkey is registered with.                            *)

(* A registration holds the advisory lock until it ends, so that what it    *)
(* counted stays true.                                                      *)
CountOK(t) ==
    /\ "advisory_lock" \in Done(t) => advisory = t
    /\ "count_operator_credentials" \in Done(t) =>
          \A r \in Open(db) : ~(db[r].table = "credentials" /\ db[r].user \in Operators)

(* A passkey was registered by bootstrap, or with a capability that is      *)
(* consumed.                                                                *)
Paid(c) ==
    \/ db[c].source = None /\ db[c].user \in Operators
    \/ db[c].source \in Key /\ IsRow(db[c].source, "capabilities") /\ db[db[c].source].status = "closed"

EnrolInv ==
    /\ \A t \in Tx : Active(t) => CountOK(t)
    /\ \A c \in Key : IsRow(c, "credentials") => Paid(c)
    /\ \A c, d \in Key :
          IsRow(c, "credentials") /\ IsRow(d, "credentials") /\ c # d /\ db[c].source # None
              => db[c].source # db[d].source
    /\ BootstrapIsExclusive

(* The rows of a table that a commit leaves unchanged or adds. *)
LEMMA CommitAdds ==
    ASSUME LockInv, NEW t \in Tx, Commit(t), NEW c \in Key, NEW table, IsRow(c, table)'
    PROVE  \/ /\ IsRow(c, table) /\ db'[c].user = db[c].user /\ db'[c].source = db[c].source
              /\ db[c].status = "closed" => db'[c].status = "closed"
           \/ /\ c = t /\ db[c].status = "absent" /\ "insert" \in Done(t)
              /\ db'[c] = Inserted(t) /\ Inserted(t).table = table
<1>1. Undisturbed(t) /\ RowsAge /\ FrameOK(t) /\ WritesOK(t) /\ Active(t)
  BY CommitRows DEF Undisturbed, LockInv, Commit
<1>2. db'[c] = IF c \in DOMAIN tx[t].writes THEN tx[t].writes[c] ELSE db[c]
  BY CommitRows
<1>3. CASE db[c].status # "absent"
  BY <1>1, <1>3 DEF RowsAge, Older, IsRow
<1>4. CASE db[c].status = "absent"
  <2>1. c \in DOMAIN tx[t].writes
    BY <1>2, <1>4 DEF IsRow
  <2>2. c = t /\ "insert" \in Done(t) /\ tx[t].writes[c] = Inserted(t)
    BY <1>1, <1>4, <2>1, WrittenRow
  <2> QED
    BY <1>2, <1>4, <2>1, <2>2 DEF IsRow
<1> QED
  BY <1>3, <1>4

(* A registration that commits has counted, or has consumed its capability. *)
LEMMA RegistrationCommits ==
    ASSUME LockInv, NEW t \in Tx, Commit(t), "insert" \in Done(t), Inserted(t).table = "credentials"
    PROVE  /\ tx[t].call.method = "complete_registration" /\ "advisory_lock" \in Done(t)
           /\ Inserted(t).source = tx[t].call.source /\ Inserted(t).user = tx[t].call.user
           /\ IF tx[t].call.source = None
              THEN "count_operator_credentials" \in Done(t) /\ tx[t].call.user \in Operators
              ELSE /\ tx[t].call.source \in Key /\ IsRow(tx[t].call.source, "capabilities")
                   /\ db[tx[t].call.source].status = "open" /\ db'[tx[t].call.source].status = "closed"
<1>1. /\ Active(t) /\ AtEnd(t) /\ FrameOK(t) /\ NeededAreLocked(t) /\ \A k \in Key : RowOK(k, db[k])
      /\ db[t].status = "absent"
  BY DEF Commit, LockInv, Active
<1>2. InProgram(t) /\ tx[t].call \in Calls /\ Arguments(tx[t].call)
  BY <1>1 DEF FrameOK, InProgram
<1>3. tx[t].call.method = "complete_registration"
  BY <1>1, <1>2, InsertedRow, Stages
<1>4. Inserted(t).source = tx[t].call.source /\ Inserted(t).user = tx[t].call.user
  BY <1>1, <1>3, InsertedRow
<1>5. CASE tx[t].call.source = None
  BY <1>1, <1>2, <1>3, <1>4, <1>5, Stages, ArgumentRows
<1>6. CASE tx[t].call.source # None
  <2>1. PICK k : k = tx[t].call.source
    OBVIOUS
  <2>2. /\ k \in Key /\ IsRow(k, "capabilities") /\ k # t
    BY <1>1, <1>2, <1>3, <1>6, <2>1, ArgumentRows DEF IsRow
  <2>3. Done(t) = {"advisory_lock", "use_ceremony", "use_capability", "insert", "complete_recoveries"}
    BY <1>1, <1>2, <1>3, <1>6, Stages
  <2>4. k \in DOMAIN tx[t].writes
    BY <1>1, <2>1, <2>3 DEF NeededAreLocked, Reached, MustAffect, Needed
  <2>5. PICK statement \in Done(t) : /\ db[k].table = TableOf(statement) /\ Ready(statement, db[k])
                                     /\ statement = "use_capability" => tx[t].writes[k].status = "closed"
                                     /\ Candidate(statement, tx[t].call, k, db[k])
    BY <2>2, <2>4, CommittedRow
  <2>6. statement = "use_capability"
    BY <2>2, <2>3, <2>5 DEF TableOf, IsRow, Candidate
  <2>7. db'[k] = tx[t].writes[k]
    BY <2>2, <2>4, CommitRows
  <2> QED
    BY <1>3, <1>4, <1>6, <2>1, <2>2, <2>3, <2>5, <2>6, <2>7 DEF Ready
<1> QED
  BY <1>3, <1>5, <1>6

(* Registrations that interleave use up what they register with. *)
LEMMA EnrolSteps ==
    ASSUME LockInv, LockInv', EnrolInv, [Next]_vars
    PROVE  EnrolInv'
<1>1. ASSUME NEW t \in Tx, Active(t)'
      PROVE  CountOK(t)'
  <2>1. ASSUME Active(t), tx'[t] = tx[t], UNCHANGED <<db, advisory>>
        PROVE  CountOK(t)'
    BY <2>1 DEF EnrolInv, CountOK, Done, Open
  <2>2. CASE Begins(t)
    BY <2>2 DEF Begins, CountOK
  <2>3. CASE Advances(t)
    <3>1. /\ db' = db /\ Done(t)' = Done(t) \cup {Statement(t)} /\ Active(t) /\ ~AtEnd(t)
          /\ Statement(t) = "advisory_lock" => advisory' = t
          /\ Statement(t) # "advisory_lock" => advisory' = advisory
          /\ Statement(t) = "count_operator_credentials" =>
                \A r \in Open(Sees(t)) :
                    ~(Sees(t)[r].table = "credentials" /\ Sees(t)[r].user \in Operators)
      BY <2>3 DEF Advances, Alone, Keeps
    <3>2. CountOK(t) /\ FrameOK(t) /\ InProgram(t) /\ \A r \in Key : RowOK(r, db[r])
      BY <3>1 DEF EnrolInv, LockInv, FrameOK
    <3>3. "advisory_lock" \in Done(t) => Statement(t) # "advisory_lock"
      BY <3>1, <3>2, Stages
    <3>4. ASSUME Statement(t) = "count_operator_credentials", NEW r \in Open(db),
                 db[r].table = "credentials", db[r].user \in Operators
          PROVE  FALSE
      <4>1. Done(t) = {"advisory_lock", "use_ceremony"} /\ r \in Key /\ db[r].status = "open"
        BY <3>1, <3>2, <3>4, Stages DEF Open
      <4>2. r \notin DOMAIN tx[t].writes
        <5> SUFFICES ASSUME r \in DOMAIN tx[t].writes
                     PROVE  FALSE
          OBVIOUS
        <5>1. PICK statement \in Reached(t) : Candidate(statement, tx[t].call, r, db[r])
          BY <3>1, <4>1, WrittenRow
        <5>2. statement \in Done(t)
          BY <3>1, <3>2, <3>4, <5>1 DEF Reached, FrameOK, Control
        <5>3. db[r].table = TableOf(statement)
          BY <3>2, <4>1, <5>1, <5>2, CandidateTables
        <5> QED
          BY <3>4, <4>1, <5>1, <5>2, <5>3 DEF TableOf, Candidate
      <4>3. Sees(t)[r] = db[r] /\ r \in Open(Sees(t))
        BY <4>1, <4>2 DEF Sees, Open
      <4> QED
        BY <3>1, <3>4, <4>3
    <3>5. Open(db)' = Open(db)
      BY <3>1 DEF Open
    <3> QED
      BY <3>1, <3>2, <3>3, <3>4, <3>5 DEF CountOK
  <2>4. CASE Snapshots(t) \/ \E r \in Key : Visits(t, r)
    <3>1. db' = db /\ Done(t)' = Done(t) /\ Active(t) /\ advisory' = advisory
      BY <2>4 DEF Snapshots, Visits, Alone, Keeps
    <3> QED
      BY <3>1 DEF EnrolInv, CountOK, Open
  <2>5. ASSUME NEW other \in Tx, other # t, Alone(other), advisory' # advisory
        PROVE  Advances(other) \/ Fails(other) => CountOK(t)'
    <3>1. Active(t) /\ tx'[t] = tx[t] /\ db' = db /\ CountOK(t)
      BY <1>1, <2>5, OthersKeep DEF Active, EnrolInv, Alone
    <3>2. Advances(other) \/ Fails(other) => advisory # t
      <4>1. Advances(other) => advisory = None
        BY <2>5 DEF Advances
      <4>2. Fails(other) => advisory = other
        BY <2>5 DEF Fails, Release
      <4>3. t # None
        BY RowAssumption
      <4> QED
        BY <2>5, <4>1, <4>2, <4>3
    <3>3. Done(t)' = Done(t) /\ ("count_operator_credentials" \in Done(t) => "advisory_lock" \in Done(t))
      <4>1. InProgram(t)
        BY <3>1 DEF LockInv, FrameOK
      <4> QED
        BY <3>1, <4>1, Stages DEF Done
    <3> QED
      BY <3>1, <3>2, <3>3 DEF CountOK
  <2>6. ASSUME NEW other \in Tx, other # t, Commit(other)
        PROVE  CountOK(t)'
    <3>1. Active(t) /\ tx'[t] = tx[t] /\ CountOK(t) /\ Active(other) /\ CountOK(other)
      BY <1>1, <2>6, OthersKeep DEF Active, EnrolInv, Commit
    <3>2. Done(t)' = Done(t) /\ ("count_operator_credentials" \in Done(t) => "advisory_lock" \in Done(t))
      <4>1. InProgram(t)
        BY <3>1 DEF LockInv, FrameOK
      <4> QED
        BY <3>1, <4>1, Stages DEF Done
    <3>3. advisory = t => advisory' = t
      BY <2>6 DEF Commit, Release
    <3>4. ASSUME "count_operator_credentials" \in Done(t), NEW r \in Open(db'),
                 db'[r].table = "credentials", db'[r].user \in Operators
          PROVE  FALSE
      <4>1. advisory = t /\ r \in Key /\ db'[r].status = "open" /\ IsRow(r, "credentials")'
        BY <3>1, <3>2, <3>4 DEF CountOK, Open, IsRow
      <4>2. CASE /\ IsRow(r, "credentials") /\ db'[r].user = db[r].user
                 /\ db[r].status = "closed" => db'[r].status = "closed"
        <5>1. db[r].status = "open"
          BY <4>1, <4>2 DEF LockInv, RowOK, IsRow
        <5> QED
          BY <3>1, <3>4, <4>1, <4>2, <5>1 DEF CountOK, Open, IsRow
      <4>3. CASE "insert" \in Done(other) /\ Inserted(other).table = "credentials"
        BY <2>6, <3>1, <4>1, <4>3, RegistrationCommits DEF CountOK
      <4> QED
        BY <2>6, <4>1, <4>2, <4>3, CommitAdds
    <3>5. Open(db)' = Open(db')
      BY DEF Open
    <3> QED
      BY <3>1, <3>2, <3>3, <3>4, <3>5 DEF CountOK
  <2>7. CASE UNCHANGED vars
    BY <1>1, <2>1, <2>7 DEF vars, Active
  <2>8. ~Fails(t) /\ ~Commit(t)
    BY <1>1, CommitRows DEF Fails, Active
  <2>9. ASSUME NEW other \in Tx, other # t,
               Begins(other) \/ Advances(other) \/ Snapshots(other) \/ Fails(other) \/ \E r \in Key : Visits(other, r)
        PROVE  CountOK(t)'
    <3>1. /\ Alone(other) /\ db' = db
          /\ Begins(other) \/ Snapshots(other) \/ (\E r \in Key : Visits(other, r)) => advisory' = advisory
      BY <2>9 DEF Begins, Advances, Snapshots, Fails, Visits, Alone
    <3>2. Active(t) /\ tx'[t] = tx[t]
      BY <1>1, <2>9, <3>1, OthersKeep DEF Active
    <3> QED
      BY <2>1, <2>5, <2>9, <3>1, <3>2
  <2> QED
    BY <2>2, <2>3, <2>4, <2>6, <2>7, <2>8, <2>9, Moves
<1>2. CASE db' = db
  BY <1>1, <1>2 DEF EnrolInv, Paid, IsRow, BootstrapIsExclusive, Open
<1>3. ASSUME NEW t \in Tx, Commit(t)
      PROVE  EnrolInv'
  <2>1. Active(t) /\ CountOK(t) /\ RowsAge
    BY <1>3, CommitRows DEF EnrolInv, Commit, Undisturbed
  <2>2. ASSUME NEW c \in Key, IsRow(c, "credentials")'
        PROVE  \/ /\ IsRow(c, "credentials") /\ db'[c].user = db[c].user /\ db'[c].source = db[c].source
                  /\ db'[c].status = "open" => db[c].status = "open"
               \/ /\ c = t /\ db[c].status = "absent"
                  /\ db'[c].source = tx[t].call.source /\ db'[c].user = tx[t].call.user
                  /\ IF tx[t].call.source = None
                     THEN "count_operator_credentials" \in Done(t) /\ tx[t].call.user \in Operators
                     ELSE /\ tx[t].call.source \in Key /\ IsRow(tx[t].call.source, "capabilities")
                          /\ db[tx[t].call.source].status = "open"
                          /\ db'[tx[t].call.source].status = "closed"
    <3>1. CASE /\ IsRow(c, "credentials") /\ db'[c].user = db[c].user /\ db'[c].source = db[c].source
               /\ db[c].status = "closed" => db'[c].status = "closed"
      BY <2>2, <3>1 DEF LockInv, RowOK, IsRow
    <3>2. CASE /\ c = t /\ db[c].status = "absent" /\ "insert" \in Done(t)
               /\ db'[c] = Inserted(t) /\ Inserted(t).table = "credentials"
      BY <1>3, <3>2, RegistrationCommits
    <3> QED
      BY <1>3, <2>2, <3>1, <3>2, CommitAdds
  <2>3. \A k \in Key : IsRow(k, "capabilities") =>
           /\ IsRow(k, "capabilities")'
           /\ db[k].status = "closed" => db'[k].status = "closed"
    BY <2>1 DEF RowsAge, Older, IsRow
  <2>4. ASSUME NEW c \in Key, IsRow(c, "credentials")'
        PROVE  Paid(c)'
    BY <2>2, <2>3, <2>4 DEF EnrolInv, Paid
  <2>5. ASSUME NEW c \in Key, NEW d \in Key, IsRow(c, "credentials")', IsRow(d, "credentials")', c # d,
               db'[c].source # None
        PROVE  db'[c].source # db'[d].source
    <3>1. ASSUME NEW k \in Key, IsRow(k, "credentials"), db[k].source # None
          PROVE  db[db[k].source].status = "closed"
      BY <3>1 DEF EnrolInv, Paid
    <3>2. CASE IsRow(c, "credentials") /\ IsRow(d, "credentials")
      BY <2>2, <2>5, <3>2 DEF EnrolInv, IsRow
    <3>3. CASE ~IsRow(c, "credentials")
      BY <2>2, <2>5, <3>1, <3>3 DEF IsRow
    <3>4. CASE ~IsRow(d, "credentials")
      BY <2>2, <2>5, <3>1, <3>4 DEF IsRow
    <3> QED
      BY <3>2, <3>3, <3>4
  <2>6. ASSUME NEW c \in Open(db'), NEW d \in Open(db'), db'[c].table = "credentials",
               db'[d].table = "credentials", db'[c].source = None, db'[d].source = None, c # d
        PROVE  FALSE
    <3>1. c \in Key /\ d \in Key /\ IsRow(c, "credentials")' /\ IsRow(d, "credentials")'
          /\ db'[c].status = "open" /\ db'[d].status = "open"
      BY <2>6 DEF Open, IsRow
    <3>2. ASSUME NEW k \in Key, IsRow(k, "credentials"), db[k].source = None, db[k].status = "open",
                 "count_operator_credentials" \in Done(t)
          PROVE  FALSE
      <4>1. Paid(k) /\ k \in Open(db) /\ db[k].table = "credentials"
        BY <3>2 DEF EnrolInv, Open, IsRow
      <4>2. db[k].user \in Operators
        BY <3>2, <4>1, RowAssumption DEF Paid, Key
      <4> QED
        BY <2>1, <3>2, <4>1, <4>2 DEF CountOK
    <3>3. CASE IsRow(c, "credentials") /\ IsRow(d, "credentials")
      BY <2>2, <2>6, <3>1, <3>3 DEF EnrolInv, BootstrapIsExclusive, IsRow, Open
    <3>4. CASE ~IsRow(c, "credentials")
      BY <2>2, <2>6, <3>1, <3>2, <3>4 DEF IsRow
    <3>5. CASE ~IsRow(d, "credentials")
      BY <2>2, <2>6, <3>1, <3>2, <3>5 DEF IsRow
    <3> QED
      BY <3>3, <3>4, <3>5
  <2> QED
    BY <1>1, <2>4, <2>5, <2>6 DEF EnrolInv, BootstrapIsExclusive
<1> QED
  BY <1>2, <1>3, OnlyCommits

(* The passkeys of a consistent database have tokens of their own. *)
LEMMA EnrolStart ==
    ASSUME Init
    PROVE  EnrolInv
<1>1. PICK rows \in Databases : db = [r \in Key |-> IF r \in DOMAIN rows THEN rows[r] ELSE Absent]
  BY DEF Init
<1>2. Consistent(rows)
  BY DatabasesAssumption
<1>3. \A t \in Tx : ~Active(t)
  BY DEF Init, Idle, Active
<1>4. ASSUME NEW c \in Key, NEW table, IsRow(c, table)
      PROVE  c \in DOMAIN rows /\ db[c] = rows[c] /\ rows[c].table = table
  BY <1>1, <1>4 DEF IsRow, Absent
<1>5. DOMAIN rows \subseteq Key /\ \A r \in DOMAIN rows : rows[r].status # "absent"
  <2>1. \A r \in DOMAIN rows : rows[r].table \in Table
    BY <1>2 DEF Consistent, RowType
  <2> QED
    BY <1>2, <2>1 DEF Consistent, Key, Table
<1>6. ASSUME NEW c \in Key, IsRow(c, "credentials")
      PROVE  Paid(c)
  <2>1. /\ c \in DOMAIN rows /\ db[c] = rows[c] /\ rows[c].table = "credentials"
    BY <1>4, <1>6
  <2>2. \/ rows[c].source = None /\ rows[c].user \in Operators
        \/ /\ rows[c].source \in DOMAIN rows
           /\ rows[rows[c].source].table = "capabilities" /\ rows[rows[c].source].status = "closed"
    BY <1>2, <2>1 DEF Consistent
  <2>3. \A r \in DOMAIN rows : db[r] = rows[r] /\ r \in Key
    BY <1>1, <1>5
  <2> QED
    BY <1>5, <2>1, <2>2, <2>3 DEF Paid, IsRow
<1>7. ASSUME NEW c \in Key, NEW d \in Key, IsRow(c, "credentials"), IsRow(d, "credentials"), c # d
      PROVE  db[c].source # db[d].source
  <2>1. /\ c \in DOMAIN rows /\ db[c] = rows[c] /\ rows[c].table = "credentials"
        /\ d \in DOMAIN rows /\ db[d] = rows[d] /\ rows[d].table = "credentials"
    BY <1>4, <1>7
  <2> QED
    BY <1>2, <1>7, <2>1 DEF Consistent
<1> QED
  BY <1>3, <1>6, <1>7 DEF EnrolInv, BootstrapIsExclusive, Open, IsRow

(* What every passkey was registered with, however enrolments interleave.   *)
THEOREM EnrolInvariant == Spec => []EnrolInv
<1>1. Init => EnrolInv
  BY EnrolStart
<1>2. LockInv /\ LockInv' /\ EnrolInv /\ [Next]_vars => EnrolInv'
  BY EnrolSteps
<1> QED
  BY <1>1, <1>2, LockInvariant, PTL DEF Spec

(* A setup token registers one passkey, although two finishes with it may   *)
(* run at the same time.                                                    *)
THEOREM CapabilitiesRegisterOnce == Spec => []CapabilityRegistersOnce
<1>1. EnrolInv => CapabilityRegistersOnce
  BY DEF EnrolInv, CapabilityRegistersOnce, Open, IsRow
<1> QED
  BY <1>1, EnrolInvariant, PTL

(* Bootstrap registers the first operator passkey or none: a count of live  *)
(* operator passkeys stays valid until its transaction ends.                *)
THEOREM BootstrapExcludes == Spec => []BootstrapIsExclusive
<1>1. EnrolInv => BootstrapIsExclusive
  BY DEF EnrolInv
<1> QED
  BY <1>1, EnrolInvariant, PTL

-----------------------------------------------------------------------------
(* The commits implement SessionAuthority.                                  *)

(* No session is of a later epoch than its user, and a table gets new rows  *)
(* from transactions only.                                                  *)
AuthorityInv ==
    /\ \A s \in Key : IsRow(s, "sessions") => db[s].epoch <= db[db[s].user].epoch
    /\ \A r \in Row : db[r].status # "absent" => r \in InitiallyIn(db[r].table)

(* A commit inserts sessions of the present epoch at most, and nothing else. *)
LEMMA AuthoritySteps ==
    ASSUME LockInv, LockInv', AuthorityInv, [Next]_vars
    PROVE  AuthorityInv'
<1>1. CASE db' = db
  BY <1>1 DEF AuthorityInv, IsRow
<1>2. ASSUME NEW t \in Tx, Commit(t)
      PROVE  AuthorityInv'
  <2>1. RowsAge /\ FrameOK(t) /\ Active(t) /\ \A r \in Key : RowOK(r, db[r])
    BY <1>2, CommitRows DEF Undisturbed, LockInv, Commit
  <2>2. \A u \in UserRows : /\ u \in Key /\ db[u].epoch \in Nat /\ db'[u].epoch \in Nat
                            /\ db[u].epoch <= db'[u].epoch
    BY <2>1 DEF UserRows, InitiallyIn, Key, LockInv, RowType, RowsAge, Older, RowOK
  <2>3. ASSUME NEW s \in Key, IsRow(s, "sessions")'
        PROVE  db'[s].epoch <= db'[db'[s].user].epoch
    <3>1. CASE IsRow(s, "sessions") /\ db'[s].user = db[s].user
      <4>1. db[s].user \in UserRows /\ db'[s].epoch = db[s].epoch /\ db[s].epoch \in Nat
        BY <2>1, <3>1 DEF IsRow, RowOK, RowsAge, Older, RowType
      <4> QED
        BY <2>2, <3>1, <4>1 DEF AuthorityInv
    <3>2. CASE /\ s = t /\ "insert" \in Done(t)
               /\ db'[s] = Inserted(t) /\ Inserted(t).table = "sessions"
      <4>1. /\ Inserted(t).user = tx[t].call.user /\ Inserted(t).epoch = tx[t].epoch
            /\ RowOK(t, Inserted(t))
        BY <2>1, <3>2, InsertedRow
      <4>2. tx[t].call.user \in UserRows /\ tx[t].call.user # None
        BY <3>2, <4>1, RowAssumption DEF RowOK, UserRows, InitiallyIn
      <4>3. tx[t].epoch \in Nat /\ tx[t].epoch <= db[tx[t].call.user].epoch
        BY <2>1, <4>2 DEF FrameOK
      <4> QED
        BY <2>2, <3>2, <4>1, <4>2, <4>3
    <3> QED
      BY <1>2, <2>3, <3>1, <3>2, CommitAdds
  <2>4. ASSUME NEW r \in Row, db'[r].status # "absent"
        PROVE  r \in InitiallyIn(db'[r].table)
    <3>1. r \in Key /\ r # t
      BY RowAssumption DEF Key
    <3>2. PICK table : table = db'[r].table
      OBVIOUS
    <3>3. IsRow(r, table)'
      BY <2>4, <3>2 DEF IsRow
    <3>4. IsRow(r, table)
      BY <1>2, <3>1, <3>3, CommitAdds
    <3> QED
      BY <3>2, <3>4 DEF AuthorityInv, IsRow
  <2> QED
    BY <2>3, <2>4 DEF AuthorityInv, InitiallyIn
<1> QED
  BY <1>1, <1>2, OnlyCommits

(* The rows of a consistent database are in their tables from the start. *)
LEMMA AuthorityStart ==
    ASSUME Init
    PROVE  AuthorityInv
<1>1. PICK rows \in Databases : db = [r \in Key |-> IF r \in DOMAIN rows THEN rows[r] ELSE Absent]
  BY DEF Init
<1>2. Consistent(rows) /\ DOMAIN rows \subseteq Key
  BY DatabasesAssumption DEF Consistent, Key
<1>3. ASSUME NEW r \in Key, db[r].status # "absent"
      PROVE  r \in DOMAIN rows /\ db[r] = rows[r]
  BY <1>1, <1>3 DEF Absent
<1>4. ASSUME NEW s \in Key, IsRow(s, "sessions")
      PROVE  db[s].epoch <= db[db[s].user].epoch
  <2>1. s \in DOMAIN rows /\ db[s] = rows[s] /\ rows[s].table = "sessions"
    BY <1>3, <1>4 DEF IsRow
  <2>2. rows[s].epoch = 1 /\ rows[s].user \in UserRows
    BY <1>2, <2>1 DEF Consistent
  <2>3. rows[s].user \in DOMAIN rows /\ rows[rows[s].user].table = "users"
    BY <1>2, <2>2 DEF Consistent
  <2>4. rows[rows[s].user].epoch = 1
    BY <1>2, <2>3 DEF Consistent
  <2>5. db[rows[s].user] = rows[rows[s].user]
    BY <1>1, <1>2, <2>3
  <2> QED
    BY <2>1, <2>2, <2>4, <2>5
<1>5. ASSUME NEW r \in Row, db[r].status # "absent"
      PROVE  r \in InitiallyIn(db[r].table)
  <2>1. r \in DOMAIN rows /\ db[r] = rows[r]
    BY <1>3, <1>5 DEF Key
  <2> QED
    BY <2>1 DEF InitiallyIn
<1> QED
  BY <1>4, <1>5 DEF AuthorityInv

(* No session is of a later epoch than its user has reached, and the rows   *)
(* of a table are those it had and those that transactions inserted: what   *)
(* the abstract state of sessions is read from.                             *)
THEOREM AuthorityInvariant == Spec => []AuthorityInv
<1>1. Init => AuthorityInv
  BY AuthorityStart
<1>2. LockInv /\ LockInv' /\ AuthorityInv /\ [Next]_vars => AuthorityInv'
  BY AuthoritySteps
<1> QED
  BY <1>1, <1>2, LockInvariant, PTL DEF Spec

(* What a commit does to passkeys and sessions that there are. *)
LEMMA CommitKeeps ==
    ASSUME LockInv, NEW t \in Tx, Commit(t), NEW r \in Key, r # t
    PROVE  /\ \A table \in Table : IsRow(r, table)' <=> IsRow(r, table)
           /\ db[r].status # "absent" =>
                 db'[r].user = db[r].user /\ db'[r].source = db[r].source
           /\ IsRow(r, "credentials") =>
                 \/ db'[r].status = db[r].status
                 \/ tx[t].call.method = "break_glass" /\ r = tx[t].call.source
           /\ IsRow(r, "sessions") =>
                 /\ db'[r].epoch = db[r].epoch
                 /\ \/ db'[r].status = db[r].status
                    \/ /\ tx[t].call.method = "delete_session" /\ r = tx[t].call.session
                       /\ db[r].status = "open" /\ db'[r].status = "closed"
                    \/ Invalidates(tx[t].call, db[r].user)
<1>1. /\ RowsAge /\ FrameOK(t) /\ Active(t) /\ \A k \in Key : RowOK(k, db[k])
  BY CommitRows DEF Undisturbed, LockInv, Commit
<1>2. /\ InProgram(t) /\ tx[t].call \in Calls /\ AtEnd(t)
      /\ db'[r] = IF r \in DOMAIN tx[t].writes THEN tx[t].writes[r] ELSE db[r]
  BY <1>1, CommitRows DEF FrameOK, InProgram, Commit
<1>3. CASE r \notin DOMAIN tx[t].writes
  <2>1. db'[r] = db[r]
    BY <1>2, <1>3
  <2> QED
    BY <2>1 DEF IsRow
<1>4. CASE r \in DOMAIN tx[t].writes
  <2>1. db[r].status # "absent"
    BY <1>4, CommittedRow
  <2>2. PICK statement \in Done(t) :
           /\ db[r].table = TableOf(statement) /\ Candidate(statement, tx[t].call, r, db[r])
           /\ Ready(statement, db[r])
           /\ statement # "advance_epoch" => tx[t].writes[r].epoch = db[r].epoch
           /\ statement \in {"revoke_session", "revoke_sessions", "consume_ceremonies",
                             "consume_capabilities", "use_ceremony", "use_capability",
                             "revoke_credential"} => tx[t].writes[r].status = "closed"
           /\ statement \in {"use_credential", "extend_session", "select_session"} =>
                 tx[t].writes[r] = db[r]
    BY <1>4, CommittedRow
  <2>3. db'[r] = tx[t].writes[r] /\ Older(db[r], db'[r])
    BY <1>1, <1>2, <1>4, <2>1 DEF RowsAge
  <2>4. ASSUME db[r].table = "credentials", db'[r].status # db[r].status
        PROVE  tx[t].call.method = "break_glass" /\ r = tx[t].call.source
    <3>1. statement = "revoke_credential"
      BY <2>2, <2>3, <2>4 DEF TableOf, Candidate
    <3> QED
      BY <1>2, <2>2, <3>1, Stages DEF Candidate
  <2>5. ASSUME db[r].table = "sessions"
        PROVE  /\ db'[r].epoch = db[r].epoch
               /\ \/ db'[r].status = db[r].status
                  \/ /\ tx[t].call.method = "delete_session" /\ r = tx[t].call.session
                     /\ db[r].status = "open" /\ db'[r].status = "closed"
                  \/ Invalidates(tx[t].call, db[r].user)
    <3>1. statement \in {"revoke_session", "revoke_sessions", "extend_session", "select_session"}
      BY <2>2, <2>5 DEF TableOf, Candidate
    <3>2. db'[r].epoch = db[r].epoch
      BY <2>2, <2>3, <3>1
    <3>3. CASE statement = "revoke_session"
      BY <1>2, <2>2, <2>3, <3>2, <3>3, Stages DEF Candidate, Ready
    <3>4. CASE statement = "revoke_sessions"
      BY <1>2, <2>2, <3>2, <3>4, Stages DEF Candidate, Invalidates, OfUser
    <3>5. CASE statement \in {"extend_session", "select_session"}
      BY <2>2, <2>3, <3>2, <3>5
    <3> QED
      BY <3>1, <3>3, <3>4, <3>5
  <2> QED
    BY <2>1, <2>3, <2>4, <2>5 DEF IsRow, Older
<1> QED
  BY <1>3, <1>4

(* What a commit adds to passkeys and sessions. *)
LEMMA CommitInserts ==
    ASSUME LockInv, NEW t \in Tx, Commit(t)
    PROVE  /\ db[t].status = "absent"
           /\ IsRow(t, "credentials")' <=> tx[t].call.method = "complete_registration"
           /\ IsRow(t, "sessions")' <=> tx[t].call.method = "complete_authentication"
           /\ tx[t].call.method \in {"complete_registration", "complete_authentication"} =>
                 /\ db'[t].status = "open" /\ db'[t].user = tx[t].call.user
                 /\ db'[t].source = tx[t].call.source
<1>1. /\ FrameOK(t) /\ Active(t) /\ AtEnd(t) /\ NeededAreLocked(t) /\ \A k \in Key : RowOK(k, db[k])
      /\ db[t].status = "absent" /\ t \in Key /\ InProgram(t) /\ tx[t].call \in Calls
  BY DEF LockInv, Commit, Active, Key, FrameOK, InProgram
<1>2. /\ db'[t] = IF t \in DOMAIN tx[t].writes THEN tx[t].writes[t] ELSE db[t]
      /\ "insert" \in Done(t) <=> t \in DOMAIN tx[t].writes
      /\ "insert" \in Done(t) => tx[t].writes[t] = Inserted(t)
  BY <1>1, CommitRows, WrittenRow DEF NeededAreLocked
<1>3. CASE "insert" \notin Done(t)
  <2>1. tx[t].call.method \notin {"complete_registration", "complete_authentication"}
    BY <1>1, <1>3, Stages
  <2> QED
    BY <1>1, <1>2, <1>3, <2>1 DEF IsRow
<1>4. CASE "insert" \in Done(t)
  <2>1. tx[t].call.method \in {"complete_registration", "complete_authentication",
                               "insert_ceremony", "issue_recovery_setup", "break_glass"}
    BY <1>1, <1>4, Stages
  <2>2. db'[t] = Inserted(t)
    BY <1>2, <1>4
  <2> QED
    BY <1>1, <1>4, <2>1, <2>2, InsertedRow DEF IsRow
<1> QED
  BY <1>3, <1>4

(* The passkey that a login or a break-glass has locked is live. *)
LEMMA CommitUses ==
    ASSUME LockInv, NEW t \in Tx, Commit(t),
           tx[t].call.method \in {"complete_authentication", "break_glass"}
    PROVE  LET c == tx[t].call.source IN
           /\ c \in Key /\ c # t /\ IsRow(c, "credentials") /\ db[c].user = tx[t].call.user
           /\ tx[t].call.user \in UserRows
           /\ db[c].status = "open"
           /\ tx[t].call.method = "break_glass" => db'[c].status = "closed"
<1>1. /\ FrameOK(t) /\ Active(t) /\ AtEnd(t) /\ NeededAreLocked(t) /\ \A k \in Key : RowOK(k, db[k])
      /\ db[t].status = "absent" /\ InProgram(t) /\ tx[t].call \in Calls /\ Arguments(tx[t].call)
  BY DEF LockInv, Commit, Active, FrameOK, InProgram
<1>2. PICK c : c = tx[t].call.source
  OBVIOUS
<1>3. /\ c \in Key /\ c # t /\ IsRow(c, "credentials") /\ db[c].user = tx[t].call.user
      /\ tx[t].call.user \in UserRows
  BY <1>1, <1>2, ArgumentRows DEF IsRow
<1>4. \/ /\ tx[t].call.method = "complete_authentication"
         /\ Done(t) = {"use_ceremony", "use_credential", "insert"}
      \/ /\ tx[t].call.method = "break_glass"
         /\ Done(t) = {"revoke_credential", "advance_epoch", "revoke_sessions",
                       "consume_ceremonies", "consume_capabilities", "insert"}
  BY <1>1, Stages
<1>5. c \in DOMAIN tx[t].writes
  BY <1>1, <1>2, <1>4 DEF NeededAreLocked, Reached, MustAffect, Needed
<1>6. PICK statement \in Done(t) : /\ db[c].table = TableOf(statement) /\ Ready(statement, db[c])
                                   /\ Candidate(statement, tx[t].call, c, db[c])
                                   /\ statement = "revoke_credential" => tx[t].writes[c].status = "closed"
  BY <1>3, <1>5, CommittedRow
<1>7. statement \in {"use_credential", "revoke_credential"}
  BY <1>3, <1>6 DEF TableOf, IsRow
<1>8. db'[c] = tx[t].writes[c]
  BY <1>3, <1>5, CommitRows
<1> QED
  BY <1>2, <1>3, <1>4, <1>6, <1>7, <1>8 DEF Ready

(* A commit leaves the passkeys it neither registers nor revokes. *)
LEMMA PasskeyKept ==
    ASSUME LockInv, NEW t \in Tx, Commit(t), NEW c \in Key,
           c = t => tx[t].call.method # "complete_registration",
           c = tx[t].call.source => tx[t].call.method # "break_glass"
    PROVE  PasskeyOf(c)' = PasskeyOf(c)
<1>1. CASE c = t
  BY <1>1, CommitInserts DEF PasskeyOf, IsRow
<1>2. CASE c # t
  <2>1. /\ IsRow(c, "credentials")' <=> IsRow(c, "credentials")
        /\ IsRow(c, "credentials") => db'[c].status = db[c].status /\ db'[c].user = db[c].user
    BY <1>2, CommitKeeps DEF Table, IsRow
  <2> QED
    BY <2>1 DEF PasskeyOf
<1> QED
  BY <1>1, <1>2

(* A commit leaves the sessions it neither opens, ends nor invalidates. *)
LEMMA LoginKept ==
    ASSUME LockInv, SweepInv, NEW t \in Tx, Commit(t), NEW s \in Key,
           s = t => tx[t].call.method # "complete_authentication",
           s = tx[t].call.session => tx[t].call.method # "delete_session" \/ db'[s].status = db[s].status,
           IsRow(s, "sessions") => ~Invalidates(tx[t].call, db[s].user)
    PROVE  LoginOf(s)' = LoginOf(s)
<1>1. CASE s = t
  BY <1>1, CommitInserts DEF LoginOf, IsRow
<1>2. CASE s # t
  <2>1. /\ IsRow(s, "sessions")' <=> IsRow(s, "sessions")
        /\ IsRow(s, "sessions") =>
              /\ db'[s].status = db[s].status /\ db'[s].user = db[s].user
              /\ db'[s].source = db[s].source /\ db'[s].epoch = db[s].epoch
    BY <1>2, CommitKeeps DEF Table, IsRow
  <2>2. ASSUME IsRow(s, "sessions")
        PROVE  UsableSession(s)' <=> UsableSession(s)
    <3>1. db[s].user \in UserRows
      BY <2>2 DEF IsRow, LockInv, RowOK
    <3>2. db'[db[s].user].epoch = db[db[s].user].epoch
      BY <2>2, <3>1, SweepCommits
    <3> QED
      BY <2>1, <2>2, <3>2 DEF UsableSession
  <2> QED
    BY <2>1, <2>2 DEF LoginOf
<1> QED
  BY <1>1, <1>2

(* The commit of an invalidation ends the sessions of its users. *)
LEMMA LoginEnded ==
    ASSUME LockInv, SweepInv, AuthorityInv, NEW t \in Tx, Commit(t), NEW s \in Key,
           IsRow(s, "sessions"), Invalidates(tx[t].call, db[s].user)
    PROVE  LoginOf(s)' = [LoginOf(s) EXCEPT !.state = "dead"]
<1>1. s # t
  BY CommitInserts DEF IsRow
<1>2. /\ IsRow(s, "sessions")' /\ db'[s].user = db[s].user
      /\ db'[s].source = db[s].source /\ db'[s].epoch = db[s].epoch
  BY <1>1, CommitKeeps DEF Table, IsRow
<1>3. db[s].user \in UserRows
  BY DEF IsRow, LockInv, RowOK
<1>4. db'[db[s].user].epoch = db[db[s].user].epoch + 1
  BY <1>3, SweepCommits
<1>5. db[s].epoch <= db[db[s].user].epoch /\ db[s].epoch \in Nat /\ db[db[s].user].epoch \in Nat
  BY <1>3 DEF AuthorityInv, LockInv, RowType, UserRows, InitiallyIn, Key
<1>6. ~UsableSession(s)'
  BY <1>2, <1>4, <1>5 DEF UsableSession
<1> QED
  BY <1>2, <1>6 DEF LoginOf

(* The rows of the three views. *)
LEMMA ViewRows ==
    ASSUME LockInv, AuthorityInv
    PROVE  /\ UserRows \subseteq Key /\ CredentialRows \subseteq Key /\ SessionRows \subseteq Key
           /\ Tx \subseteq CredentialRows /\ Tx \subseteq SessionRows
           /\ \A c \in Key : IsRow(c, "credentials") => c \in CredentialRows
           /\ \A s \in Key : IsRow(s, "sessions") => s \in SessionRows /\ db[s].user \in UserRows
<1>1. \A c \in Key : IsRow(c, "credentials") => c \in CredentialRows
  BY DEF AuthorityInv, CredentialRows, IsRow, Key
<1>2. \A s \in Key : IsRow(s, "sessions") => s \in SessionRows /\ db[s].user \in UserRows
  BY DEF AuthorityInv, SessionRows, IsRow, Key, LockInv, RowOK
<1> QED
  BY <1>1, <1>2 DEF UserRows, CredentialRows, SessionRows, InitiallyIn, Key

(* Equal views are a stutter of SessionAuthority. *)
LEMMA AuthorityStutters ==
    ASSUME EpochView' = EpochView, PasskeyView' = PasskeyView, LoginView' = LoginView
    PROVE  UNCHANGED Sessions!authorityVars
  BY DEF Sessions!authorityVars

(* A commit that is no invalidation leaves the epochs. *)
LEMMA EpochsKept ==
    ASSUME LockInv, SweepInv, NEW t \in Tx, Commit(t),
           tx[t].call.method \notin {"approve_recovery", "break_glass", "rotate_all_auth_epochs"}
    PROVE  EpochView' = EpochView /\ \A u : ~Invalidates(tx[t].call, u)
<1>1. \A u : ~Invalidates(tx[t].call, u)
  BY DEF Invalidates
<1>2. \A u \in UserRows : db'[u].epoch = db[u].epoch
  BY <1>1, SweepCommits
<1> QED
  BY <1>1, <1>2 DEF EpochView

(* Each commit is a step of SessionAuthority, or invisible to it. *)
LEMMA AuthorityCommits ==
    ASSUME LockInv, SweepInv, EpochCountsInvalidations, AuthorityInv, NEW t \in Tx, Commit(t)
    PROVE  Sessions!Next \/ UNCHANGED Sessions!authorityVars
<1> DEFINE call == tx[t].call
           method == tx[t].call.method
<1>1. /\ tx[t].call \in Calls /\ method \in Method /\ Arguments(tx[t].call)
      /\ \A r \in Key : RowOK(r, db[r])
  BY CallsAssumption DEF LockInv, Commit, FrameOK, InProgram
<1>2. /\ UserRows \subseteq Key /\ CredentialRows \subseteq Key /\ SessionRows \subseteq Key
      /\ t \in CredentialRows /\ t \in SessionRows /\ t \in Key
      /\ \A c \in Key : IsRow(c, "credentials") => c \in CredentialRows
      /\ \A s \in Key : IsRow(s, "sessions") => s \in SessionRows /\ db[s].user \in UserRows
  BY ViewRows DEF Key
<1>3. /\ db[t].status = "absent" /\ ~IsRow(t, "credentials") /\ ~IsRow(t, "sessions")
      /\ IsRow(t, "credentials")' <=> method = "complete_registration"
      /\ IsRow(t, "sessions")' <=> method = "complete_authentication"
      /\ method \in {"complete_registration", "complete_authentication"} =>
            /\ db'[t].status = "open" /\ db'[t].user = call.user /\ db'[t].source = call.source
  BY CommitInserts DEF IsRow
<1>4. Sessions!EnrolledUsers = UserRows
  <2>1. \A u \in UserRows : db[u].epoch > 0
    <3> SUFFICES ASSUME NEW u \in UserRows
                 PROVE  db[u].epoch > 0
      OBVIOUS
    <3>1. IsFiniteSet(Invalidations(u))
      BY RowAssumption, FS_Subset DEF Invalidations
    <3>2. Cardinality(Invalidations(u)) \in Nat
      BY <3>1, FS_CardinalityType
    <3> QED
      BY <3>2 DEF EpochCountsInvalidations, Invalidations
  <2> QED
    BY <2>1 DEF Sessions!EnrolledUsers, EpochView
<1>5. ASSUME NEW c \in Key, NEW U
      PROVE  c \in Sessions!LivePasskeys(U) <=>
                IsRow(c, "credentials") /\ db[c].status = "open" /\ db[c].user \in U
  BY <1>2 DEF Sessions!LivePasskeys, PasskeyView, PasskeyOf
<1>6. CASE method = "complete_registration"
  <2>1. EpochView' = EpochView /\ \A u : ~Invalidates(call, u)
    BY <1>6, EpochsKept
  <2>2. LoginView' = LoginView
    BY <1>2, <1>6, <2>1, LoginKept DEF LoginView
  <2>3. call.user \in UserRows
    BY <1>1, <1>6, ArgumentRows
  <2>4. PasskeyOf(t)' = [state |-> "live", user |-> call.user]
    BY <1>3, <1>6 DEF PasskeyOf
  <2>5. \A c \in CredentialRows : c # t => PasskeyOf(c)' = PasskeyOf(c)
    BY <1>2, <1>6, PasskeyKept
  <2>6. PasskeyView' = [PasskeyView EXCEPT ![t] = [state |-> "live", user |-> call.user]]
    BY <1>2, <2>4, <2>5 DEF PasskeyView
  <2>7. PasskeyView[t].state = "none"
    BY <1>2, <1>3 DEF PasskeyView, PasskeyOf
  <2>8. Sessions!Register(t, call.user)
    BY <1>4, <2>1, <2>2, <2>3, <2>6, <2>7 DEF Sessions!Register
  <2> QED
    BY <1>2, <2>3, <2>8 DEF Sessions!Next
<1>7. CASE method = "complete_authentication"
  <2>1. EpochView' = EpochView /\ \A u : ~Invalidates(call, u)
    BY <1>7, EpochsKept
  <2>2. PasskeyView' = PasskeyView
    BY <1>2, <1>7, PasskeyKept DEF PasskeyView
  <2>3. /\ call.source \in Key /\ IsRow(call.source, "credentials") /\ db[call.source].user = call.user
        /\ call.user \in UserRows /\ db[call.source].status = "open"
    BY <1>7, CommitUses
  <2>4. call.source \in CredentialRows /\ call.source \in Sessions!LivePasskeys({call.user})
    BY <1>2, <1>5, <2>3
  <2>5. PICK state \in {"usable", "dead"} :
           LoginOf(t)' = [state |-> state, user |-> call.user, passkey |-> call.source]
    BY <1>3, <1>7 DEF LoginOf
  <2>6. \A s \in SessionRows : s # t => LoginOf(s)' = LoginOf(s)
    BY <1>2, <1>7, <2>1, LoginKept
  <2>7. LoginView' = [LoginView EXCEPT ![t] = [state |-> state, user |-> call.user, passkey |-> call.source]]
    BY <1>2, <2>5, <2>6 DEF LoginView
  <2>8. LoginView[t].state = "none"
    BY <1>2, <1>3 DEF LoginView, LoginOf
  <2>9. Sessions!SignIn(t, call.source, call.user)
    BY <2>1, <2>2, <2>4, <2>7, <2>8 DEF Sessions!SignIn
  <2> QED
    BY <1>2, <2>3, <2>4, <2>9 DEF Sessions!Next
<1>8. CASE method = "delete_session"
  <2>1. EpochView' = EpochView /\ \A u : ~Invalidates(call, u)
    BY <1>8, EpochsKept
  <2>2. PasskeyView' = PasskeyView
    BY <1>2, <1>8, PasskeyKept DEF PasskeyView
  <2>3. PICK s \in Key : s = call.session /\ IsRow(s, "sessions") /\ s # t
    BY <1>1, <1>3, <1>8, ArgumentRows
  <2>4. \A k \in SessionRows : k # s => LoginOf(k)' = LoginOf(k)
    BY <1>2, <1>8, <2>1, <2>3, LoginKept
  <2>5. CASE LoginOf(s)' = LoginOf(s)
    <3>1. LoginView' = LoginView
      BY <2>4, <2>5 DEF LoginView
    <3> QED
      BY <2>1, <2>2, <3>1, AuthorityStutters
  <2>6. CASE LoginOf(s)' # LoginOf(s)
    <3>1. db'[s].status # db[s].status
      BY <1>8, <2>1, <2>3, <2>6, LoginKept
    <3>2. /\ db'[s].status = "closed" /\ IsRow(s, "sessions")'
          /\ db'[s].user = db[s].user /\ db'[s].source = db[s].source
      BY <1>8, <2>1, <2>3, <3>1, CommitKeeps DEF Table, IsRow
    <3>3. LoginOf(s)' = [LoginOf(s) EXCEPT !.state = "dead"]
      BY <2>3, <3>2 DEF LoginOf, UsableSession
    <3>4. LoginOf(s).state = "usable"
      BY <2>3, <2>6, <3>3 DEF LoginOf
    <3>5. LoginView' = [LoginView EXCEPT ![s].state = "dead"] /\ LoginView[s].state = "usable"
      BY <1>2, <2>3, <2>4, <3>3, <3>4 DEF LoginView
    <3>6. Sessions!SignOut(s) /\ s \in SessionRows
      BY <1>2, <2>1, <2>2, <2>3, <3>5 DEF Sessions!SignOut
    <3> QED
      BY <3>6 DEF Sessions!Next
  <2> QED
    BY <2>5, <2>6
<1>9. CASE method \in {"session", "insert_ceremony", "issue_recovery_setup"}
  <2>1. EpochView' = EpochView /\ \A u : ~Invalidates(call, u)
    BY <1>9, EpochsKept
  <2>2. PasskeyView' = PasskeyView
    BY <1>2, <1>9, PasskeyKept DEF PasskeyView
  <2>3. LoginView' = LoginView
    BY <1>2, <1>9, <2>1, LoginKept DEF LoginView
  <2> QED
    BY <2>1, <2>2, <2>3, AuthorityStutters
<1>10. CASE method \in {"approve_recovery", "break_glass", "rotate_all_auth_epochs"}
  <2> DEFINE U == {u \in UserRows : Invalidates(call, u)}
             revoked == IF method = "break_glass" THEN {call.source} ELSE {}
  <2>1. EpochView' = [u \in UserRows |-> IF u \in U THEN EpochView[u] + 1 ELSE EpochView[u]]
    <3>1. \A u \in UserRows :
             db'[u].epoch = IF Invalidates(call, u) THEN db[u].epoch + 1 ELSE db[u].epoch
      BY SweepCommits
    <3> QED
      BY <3>1 DEF EpochView
  <2>k. PICK k : k = call.source
    OBVIOUS
  <2>2. ASSUME method = "break_glass"
        PROVE  /\ k \in CredentialRows /\ k \in Sessions!LivePasskeys(U)
               /\ PasskeyOf(k)' = [PasskeyOf(k) EXCEPT !.state = "revoked"]
    <3>1. /\ k \in Key /\ k # t /\ IsRow(k, "credentials")
          /\ db[k].user = call.user /\ call.user \in UserRows
          /\ db[k].status = "open" /\ db'[k].status = "closed"
      BY <2>k, <2>2, CommitUses
    <3>2. call.user \in U
      BY <2>2, <3>1 DEF Invalidates
    <3>3. IsRow(k, "credentials")' /\ db'[k].user = db[k].user
      BY <3>1, CommitKeeps DEF Table, IsRow
    <3>4. PasskeyOf(k)' = [PasskeyOf(k) EXCEPT !.state = "revoked"]
      BY <3>1, <3>3 DEF PasskeyOf
    <3>5. k \in CredentialRows
      BY <1>2, <3>1
    <3>6. k \in Sessions!LivePasskeys(U)
      BY <1>5, <3>1, <3>2
    <3> QED
      BY <3>4, <3>5, <3>6
  <2>3. revoked \subseteq Sessions!LivePasskeys(U)
    BY <2>k, <2>2
  <2>4. \A c \in CredentialRows : c \notin revoked => PasskeyOf(c)' = PasskeyOf(c)
    BY <1>2, <1>10, PasskeyKept
  <2>5. PasskeyView' = [c \in CredentialRows |->
           IF c \in revoked THEN [PasskeyView[c] EXCEPT !.state = "revoked"] ELSE PasskeyView[c]]
    BY <2>k, <2>2, <2>4 DEF PasskeyView
  <2>6. ASSUME NEW s \in SessionRows
        PROVE  LoginOf(s)' = IF LoginOf(s).state = "usable" /\ LoginOf(s).user \in U
                             THEN [LoginOf(s) EXCEPT !.state = "dead"] ELSE LoginOf(s)
    <3>1. s \in Key
      BY <1>2
    <3>2. CASE IsRow(s, "sessions") /\ Invalidates(call, db[s].user)
      <4>1. LoginOf(s)' = [LoginOf(s) EXCEPT !.state = "dead"]
        BY <3>1, <3>2, LoginEnded
      <4>2. db[s].user \in U
        BY <1>2, <3>1, <3>2
      <4> QED
        BY <3>2, <4>1, <4>2 DEF LoginOf
    <3>3. CASE ~(IsRow(s, "sessions") /\ Invalidates(call, db[s].user))
      <4>1. LoginOf(s)' = LoginOf(s)
        BY <1>10, <3>1, <3>3, LoginKept
      <4>2. ~(LoginOf(s).state = "usable" /\ LoginOf(s).user \in U)
        BY <3>3 DEF LoginOf
      <4> QED
        BY <4>1, <4>2
    <3> QED
      BY <3>2, <3>3
  <2>7. LoginView' = [s \in SessionRows |->
           IF LoginView[s].state = "usable" /\ LoginView[s].user \in U
           THEN [LoginView[s] EXCEPT !.state = "dead"] ELSE LoginView[s]]
    BY <2>6 DEF LoginView
  <2>8. Sessions!Invalidate(U, revoked)
    BY <2>1, <2>3, <2>5, <2>7 DEF Sessions!Invalidate
  <2>9. U \in SUBSET Sessions!EnrolledUsers /\ revoked \in SUBSET Sessions!LivePasskeys(U)
    BY <1>4, <2>3
  <2> HIDE DEF U, revoked
  <2> QED
    BY <2>8, <2>9 DEF Sessions!Next
<1> QED
  BY <1>1, <1>6, <1>7, <1>8, <1>9, <1>10 DEF Method

(* A consistent database is an initial state of SessionAuthority. *)
LEMMA AuthorityBegins ==
    ASSUME Init, LockInv, AuthorityInv
    PROVE  Sessions!Init
<1>1. PICK rows \in Databases : db = [r \in Key |-> IF r \in DOMAIN rows THEN rows[r] ELSE Absent]
  BY DEF Init
<1>2. Consistent(rows) /\ DOMAIN rows \subseteq Key
  BY DatabasesAssumption DEF Consistent, Key
<1>3. ASSUME NEW r \in Key, db[r].status # "absent"
      PROVE  r \in DOMAIN rows /\ db[r] = rows[r]
  BY <1>1, <1>3 DEF Absent
<1>4. /\ UserRows \subseteq Key /\ CredentialRows \subseteq Key /\ SessionRows \subseteq Key
      /\ \A c \in Key : IsRow(c, "credentials") => c \in CredentialRows
  BY ViewRows
<1>5. \A u \in UserRows : EpochView[u] = 1
  <2> SUFFICES ASSUME NEW u \in UserRows
               PROVE  db[u].epoch = 1
    BY DEF EpochView
  <2>1. u \in DOMAIN rows /\ rows[u].table = "users"
    BY <1>2 DEF Consistent
  <2>2. rows[u].epoch = 1
    BY <1>2, <2>1 DEF Consistent
  <2> QED
    BY <1>1, <1>2, <2>1, <2>2
<1>6. ASSUME NEW c \in CredentialRows
      PROVE  PasskeyView[c].state \in {"none", "live"}
  <2>1. CASE ~IsRow(c, "credentials")
    BY <2>1 DEF PasskeyView, PasskeyOf
  <2>2. CASE IsRow(c, "credentials")
    <3>1. c \in DOMAIN rows /\ db[c] = rows[c] /\ rows[c].table = "credentials"
      BY <1>3, <1>4, <2>2 DEF IsRow
    <3>2. rows[c].status = "open"
      BY <1>2, <3>1 DEF Consistent
    <3> QED
      BY <2>2, <3>1, <3>2 DEF PasskeyView, PasskeyOf
  <2> QED
    BY <2>1, <2>2
<1>7. ASSUME NEW s \in SessionRows
      PROVE  \/ LoginView[s].state = "none"
             \/ /\ LoginView[s].state = "usable"
                /\ LoginView[s].passkey \in Sessions!LivePasskeys({LoginView[s].user})
  <2>1. CASE ~IsRow(s, "sessions")
    BY <2>1 DEF LoginView, LoginOf
  <2>2. CASE IsRow(s, "sessions")
    <3>1. s \in DOMAIN rows /\ db[s] = rows[s] /\ rows[s].table = "sessions"
      BY <1>3, <1>4, <2>2 DEF IsRow
    <3>2. PICK c : c = rows[s].source
      OBVIOUS
    <3>3. /\ rows[s].status = "open" /\ rows[s].epoch = 1 /\ rows[s].user \in UserRows
          /\ c \in DOMAIN rows /\ rows[c].table = "credentials" /\ rows[c].user = rows[s].user
      BY <1>2, <3>1, <3>2 DEF Consistent
    <3>4. rows[c].status = "open"
      BY <1>2, <3>3 DEF Consistent
    <3>5. c \in Key /\ db[c] = rows[c] /\ IsRow(c, "credentials")
      BY <1>1, <1>2, <3>3, <3>4 DEF IsRow
    <3>6. c \in Sessions!LivePasskeys({rows[s].user})
      BY <1>4, <3>3, <3>4, <3>5 DEF Sessions!LivePasskeys, PasskeyView, PasskeyOf
    <3>7. db[rows[s].user].epoch = 1
      BY <1>5, <3>3 DEF EpochView
    <3>8. LoginOf(s) = [state |-> "usable", user |-> rows[s].user, passkey |-> c]
      BY <2>2, <3>1, <3>2, <3>3, <3>7 DEF LoginOf, UsableSession
    <3> QED
      BY <3>6, <3>8 DEF LoginView
  <2> QED
    BY <2>1, <2>2
<1> QED
  BY <1>5, <1>6, <1>7 DEF Sessions!Init

(* The committed rows of the store implement the abstract specification of  *)
(* sessions: with interleaved statements too, an invalidation ends every    *)
(* session of its users in the step in which it commits.                    *)
THEOREM CommitsRefine == Spec => CommitsImplementSessionAuthority
<1>1. Init => Sessions!Init
  BY AuthorityBegins, LockStart, AuthorityStart
<1>2. LockInv /\ LockInv' /\ SweepInv /\ EpochCountsInvalidations /\ AuthorityInv /\ [Next]_vars
        => [Sessions!Next]_Sessions!authorityVars
  <2> SUFFICES ASSUME LockInv, LockInv', SweepInv, EpochCountsInvalidations, AuthorityInv, [Next]_vars
               PROVE  Sessions!Next \/ UNCHANGED Sessions!authorityVars
    OBVIOUS
  <2>1. CASE db' = db
    <3>1. EpochView' = EpochView /\ PasskeyView' = PasskeyView /\ LoginView' = LoginView
      BY <2>1 DEF EpochView, PasskeyView, LoginView, PasskeyOf, LoginOf, IsRow, UsableSession
    <3> QED
      BY <3>1, AuthorityStutters
  <2>2. CASE \E t \in Tx : Commit(t)
    BY <2>2, AuthorityCommits
  <2> QED
    BY <2>1, <2>2, OnlyCommits
<1> QED
  BY <1>1, <1>2, LockInvariant, SweepsMissNothing, EpochsCount, AuthorityInvariant, PTL
  DEF Spec, CommitsImplementSessionAuthority, Sessions!Spec

-----------------------------------------------------------------------------
(* The lock order.                                                          *)

(* The advisory lock is held by a registration that is past it. *)
HeldInv == \A t \in Tx : advisory = t => Active(t) /\ "advisory_lock" \in Done(t)

(* The lock ends with its transaction. *)
LEMMA HeldSteps ==
    ASSUME LockInv, LockInv', HeldInv, [Next]_vars
    PROVE  HeldInv'
<1> SUFFICES ASSUME NEW t \in Tx, advisory' = t
             PROVE  Active(t)' /\ ("advisory_lock" \in Done(t))'
  BY DEF HeldInv
<1>1. ASSUME advisory = t
      PROVE  Active(t) /\ "advisory_lock" \in Done(t)
  BY <1>1 DEF HeldInv
<1>2. ASSUME advisory = t, tx'[t] = tx[t]
      PROVE  Active(t)' /\ ("advisory_lock" \in Done(t))'
  BY <1>1, <1>2 DEF Active, Done
<1>3. ASSUME NEW k \in Tx, Begins(k)
      PROVE  Active(t)' /\ ("advisory_lock" \in Done(t))'
  <2>1. advisory = t /\ k # t /\ Alone(k)
    BY <1>1, <1>3 DEF Begins, Active
  <2> QED
    BY <1>2, <2>1, OthersKeep
<1>4. ASSUME NEW k \in Tx, Advances(k)
      PROVE  Active(t)' /\ ("advisory_lock" \in Done(t))'
  <2>1. /\ Alone(k) /\ Active(k)' /\ Done(k)' = Done(k) \cup {Statement(k)}
        /\ \/ Statement(k) = "advisory_lock" /\ advisory' = k
           \/ advisory' = advisory
    BY <1>4 DEF Advances, Keeps
  <2>2. CASE Statement(k) = "advisory_lock" /\ advisory' = k
    BY <2>1, <2>2
  <2>3. CASE advisory' = advisory /\ k = t
    BY <1>1, <2>1, <2>3
  <2>4. CASE advisory' = advisory /\ k # t
    BY <1>2, <2>1, <2>4, OthersKeep
  <2> QED
    BY <2>1, <2>2, <2>3, <2>4
<1>5. ASSUME NEW k \in Tx, Snapshots(k) \/ \E r \in Key : Visits(k, r)
      PROVE  Active(t)' /\ ("advisory_lock" \in Done(t))'
  <2>1. Alone(k) /\ Active(k)' /\ Done(k)' = Done(k) /\ advisory' = advisory
    BY <1>5 DEF Snapshots, Visits, Keeps
  <2> QED
    BY <1>1, <1>2, <2>1, OthersKeep
<1>6. ASSUME NEW k \in Tx, Fails(k) \/ Commit(k)
      PROVE  Active(t)' /\ ("advisory_lock" \in Done(t))'
  <2>1. advisory' = Release(k) /\ (Alone(k) \/ Commit(k))
    BY <1>6 DEF Fails, Commit
  <2>2. advisory = t /\ k # t
    BY <2>1, RowAssumption DEF Release
  <2> QED
    BY <1>2, <2>1, <2>2, OthersKeep
<1>7. CASE UNCHANGED vars
  BY <1>2, <1>7 DEF vars
<1> QED
  BY <1>3, <1>4, <1>5, <1>6, <1>7, Moves

(* The advisory lock of bootstrap is held by a running registration that    *)
(* has passed it, and by nobody once that transaction has ended.            *)
THEOREM AdvisoryIsHeld == Spec => []HeldInv
<1>1. Init => HeldInv
  BY RowAssumption DEF Init, HeldInv
<1>2. LockInv /\ LockInv' /\ HeldInv /\ [Next]_vars => HeldInv'
  BY HeldSteps
<1> QED
  BY <1>1, <1>2, LockInvariant, PTL DEF Spec

(* Transaction t waits for row r, which o has locked by a statement. *)
Holds(o, statement, r) ==
    /\ statement \in Reached(o) /\ r \in DOMAIN tx[o].writes
    /\ Candidate(statement, tx[o].call, r, db[r]) /\ Ready(statement, db[r])
    /\ db[r].table = TableOf(statement)

Wants(t, r) ==
    /\ r \in Key /\ r \notin DOMAIN tx[t].writes /\ db[r].status # "absent"
    /\ Candidate(Statement(t), tx[t].call, r, db[r]) /\ db[r].table = TableOf(Statement(t))

(* Who waits wants a row that the other has written, or the advisory lock. *)
LEMMA Waiting ==
    ASSUME LockInv, NEW t \in Tx, NEW o \in Tx, o \in WaitsFor(t)
    PROVE  /\ Active(t) /\ ~AtEnd(t) /\ InProgram(t) /\ tx[t].call \in Calls
           /\ Statement(t) \notin {"count_operator_credentials", "insert"}
           /\ IF Statement(t) = "advisory_lock" THEN advisory = o
              ELSE o # t /\ Active(o) /\ tx[t].running /\ InProgram(o)
                   /\ \E r \in Key : Wants(t, r) /\ \E statement \in Reached(o) : Holds(o, statement, r)
<1>1. Active(t) /\ ~AtEnd(t)
  BY DEF WaitsFor
<1>2. FrameOK(t) /\ TodoOK(t) /\ InProgram(t) /\ tx[t].call \in Calls /\ \A r \in Key : RowOK(r, db[r])
  BY <1>1 DEF LockInv, FrameOK, InProgram
<1>3. CASE Statement(t) = "advisory_lock"
  BY <1>1, <1>2, <1>3 DEF WaitsFor
<1>4. CASE Statement(t) # "advisory_lock"
  <2>1. tx[t].todo # <<>> /\ o \in Holder(Head(tx[t].todo)) \ {t}
    BY <1>1, <1>4 DEF WaitsFor
  <2>2. PICK r : r = Head(tx[t].todo)
    OBVIOUS
  <2>3. /\ r \in Key /\ r \in ToVisit(t) /\ tx[t].running /\ Statement(t) \notin Control
        /\ db[r].status # "absent" /\ Candidate(Statement(t), tx[t].call, r, db[r])
    BY <1>1, <2>1, <2>2, Visited
  <2>4. o # t /\ Active(o) /\ r \in DOMAIN tx[o].writes
    BY <2>1, <2>2 DEF Holder
  <2>5. r \notin DOMAIN tx[t].writes
    BY <1>1, <2>4 DEF LockInv, LocksExclude
  <2>6. db[r].table = TableOf(Statement(t))
    BY <1>1, <1>2, <2>3, CandidateTables
  <2>7. r # o /\ FrameOK(o) /\ InProgram(o)
    BY <2>3, <2>4 DEF LockInv, Active, FrameOK
  <2>8. PICK statement \in Reached(o) :
           Candidate(statement, tx[o].call, r, db[r]) /\ Ready(statement, db[r])
    BY <2>4, <2>7, WrittenRow
  <2>9. statement \in Done(o) \/ (~AtEnd(o) /\ statement = Statement(o))
    BY <2>7, <2>8 DEF Reached, FrameOK
  <2>10. db[r].table = TableOf(statement)
    BY <1>2, <2>3, <2>7, <2>8, <2>9, CandidateTables
  <2>11. Wants(t, r) /\ Holds(o, statement, r)
    BY <2>3, <2>4, <2>5, <2>6, <2>8, <2>10 DEF Wants, Holds
  <2> QED
    BY <1>1, <1>2, <1>4, <2>3, <2>4, <2>7, <2>8, <2>11 DEF Control
<1> QED
  BY <1>3, <1>4

(* Two transactions past the advisory lock are one, and two invalidations   *)
(* past the epoch of a user are.                                            *)
LEMMA Excluded ==
    ASSUME LockInv, SweepInv, EnrolInv, NEW t \in Tx, NEW o \in Tx, Active(t), Active(o)
    PROVE  /\ "advisory_lock" \in Done(t) /\ "advisory_lock" \in Done(o) => t = o
           /\ \A u \in UserRows :
                 (/\ "advance_epoch" \in Done(t) /\ OfUser(tx[t].call, u)
                  /\ "advance_epoch" \in Done(o) /\ OfUser(tx[o].call, u)) => t = o
<1>1. "advisory_lock" \in Done(t) /\ "advisory_lock" \in Done(o) => t = o
  BY DEF EnrolInv, CountOK
<1>2. ASSUME NEW k \in Tx, Active(k), NEW u \in UserRows,
             "advance_epoch" \in Done(k), OfUser(tx[k].call, u)
      PROVE  u \in DOMAIN tx[k].writes
  <2>1. u \in Key /\ db[u].table = "users" /\ db[u].status # "closed"
    BY DEF LockInv, RowOK, UserRows, InitiallyIn, Key
  <2>2. SweepOK(k) /\ "advance_epoch" \in Reached(k) \cap Sweeps
    BY <1>2 DEF SweepInv, Reached, Sweeps
  <2>3. Candidate("advance_epoch", tx[k].call, u, db[u])
    BY <1>2, <2>1 DEF Candidate
  <2> QED
    BY <1>2, <2>1, <2>2, <2>3 DEF SweepOK, Settled
<1> QED
  BY <1>1, <1>2 DEF LockInv, LocksExclude

(* What a transaction holds while it waits: a row of a statement that it    *)
(* has finished, or of the sweep that it is in.                             *)
Circles(t, o, h, r) ==
    /\ Wants(t, r) /\ Holds(o, h, r) /\ o # t
    /\ Statement(o) \notin {"advisory_lock", "count_operator_credentials", "insert"}
    /\ \/ h \in Done(o)
       \/ h = Statement(o) /\ h \in Sweeps \cup {"complete_recoveries"}
    /\ h = "advance_epoch" /\ Statement(o) = "advance_epoch" => tx[o].call.user = None
    /\ h = "select_session" => Statement(o) # "extend_session"

(* Who waits for one that waits wants a row the other keeps while it waits. *)
LEMMA Circling ==
    ASSUME LockInv, NEW t \in Tx, NEW o \in Tx, NEW p \in Tx, o \in WaitsFor(t), p \in WaitsFor(o),
           Statement(t) # "advisory_lock"
    PROVE  /\ Active(t) /\ ~AtEnd(t) /\ FrameOK(t) /\ Active(o) /\ ~AtEnd(o) /\ FrameOK(o)
           /\ \E r \in Key, h \in Reached(o) : Circles(t, o, h, r)
<1>1. /\ Active(t) /\ ~AtEnd(t) /\ FrameOK(t) /\ Active(o) /\ ~AtEnd(o) /\ FrameOK(o)
      /\ Statement(o) \notin {"count_operator_credentials", "insert"} /\ o # t
  BY Waiting DEF LockInv
<1>2. PICK r \in Key, h \in Reached(o) : Wants(t, r) /\ Holds(o, h, r)
  BY Waiting
<1>3. h \in Done(o) \/ (h = Statement(o) /\ tx[o].running)
  BY <1>2 DEF Reached
<1>4. Statement(o) # "advisory_lock"
  <2> SUFFICES ASSUME Statement(o) = "advisory_lock"
               PROVE  FALSE
    OBVIOUS
  <2>1. Done(o) = {}
    BY <1>1, Stages DEF FrameOK
  <2>2. ~tx[o].running
    BY <1>1 DEF FrameOK, Control
  <2> QED
    BY <1>3, <2>1, <2>2
<1>5. PICK k \in Key : Wants(o, k)
  BY <1>4, Waiting
<1>6. k # r
  BY <1>2, <1>5 DEF Wants, Holds
<1>7. ASSUME h = Statement(o)
      PROVE  /\ h \in Sweeps \cup {"complete_recoveries"}
             /\ h = "advance_epoch" => tx[o].call.user = None
  BY <1>2, <1>5, <1>6, <1>7 DEF Wants, Holds, Candidate, Sweeps, OfUser
<1>8. h = "select_session" => Statement(o) # "extend_session"
  BY <1>2, <1>5, <1>6 DEF Wants, Holds, Candidate
<1> QED
  BY <1>1, <1>2, <1>3, <1>4, <1>7, <1>8 DEF Circles

(* The order in which the methods lock. *)
Rank(t) ==
    IF Statement(t) = "complete_recoveries" THEN 7
    ELSE IF Statement(t) = "consume_capabilities" THEN 6
    ELSE IF Statement(t) = "use_capability" THEN 5
    ELSE IF Statement(t) = "consume_ceremonies" THEN 4
    ELSE IF Statement(t) = "revoke_sessions" THEN 3
    ELSE IF Statement(t) = "use_ceremony" /\ tx[t].call.method = "complete_registration" THEN 3
    ELSE IF Statement(t) \in {"select_session", "extend_session", "revoke_session", "advance_epoch"} THEN 2
    ELSE IF Statement(t) \in {"use_credential", "revoke_credential"} THEN 1
    ELSE 0

Rotates(t) == tx[t].call.method = "rotate_all_auth_epochs"

(* Waiting goes up in the order of statements, except where a rotation waits. *)
LEMMA LockOrder ==
    ASSUME LockInv, SweepInv, EnrolInv, HeldInv,
           NEW t \in Tx, NEW o \in Tx, NEW p \in Tx, o \in WaitsFor(t), p \in WaitsFor(o)
    PROVE  \/ Rank(t) < Rank(o)
           \/ Rotates(t) /\ Rotates(o) /\ t # o
           \/ /\ Statement(t) = "advance_epoch" /\ Statement(o) = "advance_epoch"
              /\ Rotates(o) /\ t # o
           \/ /\ Rotates(t) /\ tx[o].call.method = "complete_authentication"
              /\ Statement(o) = "use_credential"
<1>1. CASE Statement(t) = "advisory_lock"
  <2>1. /\ advisory = o /\ ~AtEnd(o) /\ InProgram(o)
        /\ Statement(o) \notin {"count_operator_credentials", "insert"}
    BY <1>1, Waiting
  <2>2. "advisory_lock" \in Done(o)
    BY <2>1 DEF HeldInv
  <2>3. /\ tx[o].call.method = "complete_registration"
        /\ Statement(o) \in {"use_ceremony", "use_capability", "complete_recoveries"}
    BY <2>1, <2>2, Stages
  <2> QED
    BY <1>1, <2>3 DEF Rank
<1>2. CASE Statement(t) # "advisory_lock"
  <2>1. /\ Active(t) /\ ~AtEnd(t) /\ FrameOK(t) /\ Active(o) /\ ~AtEnd(o) /\ FrameOK(o)
        /\ InProgram(t) /\ tx[t].call \in Calls /\ Arguments(tx[t].call)
        /\ InProgram(o) /\ tx[o].call \in Calls /\ Arguments(tx[o].call)
        /\ \A r \in Key : RowOK(r, db[r])
    BY <1>2, Circling DEF FrameOK, InProgram, LockInv
  <2>2. PICK r \in Key, h \in Reached(o) : Circles(t, o, h, r)
    BY <1>2, Circling
  <2>3. /\ t # o /\ db[r].status # "absent" /\ h \in Done(o) \cup {Statement(o)}
        /\ Candidate(Statement(t), tx[t].call, r, db[r]) /\ db[r].table = TableOf(Statement(t))
        /\ Candidate(h, tx[o].call, r, db[r]) /\ db[r].table = TableOf(h) /\ Ready(h, db[r])
        /\ Statement(o) \notin {"advisory_lock", "count_operator_credentials", "insert"}
        /\ h \in Done(o) \/ h \in Sweeps \cup {"complete_recoveries"}
        /\ h = "advance_epoch" /\ Statement(o) = "advance_epoch" => tx[o].call.user = None
        /\ h = "select_session" => Statement(o) # "extend_session"
    BY <2>2 DEF Circles, Wants, Holds
  <2>4. Rank(t) \in 0 .. 7 /\ Rank(o) \in 0 .. 7
    BY DEF Rank
  <2>5. "advisory_lock" \in Done(t) => "advisory_lock" \notin Done(o)
    BY <2>1, <2>3, Excluded
  <2>6. /\ Statement(t) \in Sweeps \ {"advance_epoch"} => OfUser(tx[t].call, db[r].user)
        /\ h \in Sweeps \ {"advance_epoch"} => OfUser(tx[o].call, db[r].user)
    BY <2>3 DEF Candidate, Sweeps
  <2>e. ~(/\ db[r].user \in UserRows /\ OfUser(tx[t].call, db[r].user) /\ OfUser(tx[o].call, db[r].user)
          /\ "advance_epoch" \in Done(t) /\ "advance_epoch" \in Done(o))
    BY <2>1, <2>3, Excluded
  <2>7. CASE Statement(t) \in {"complete_recoveries", "approve", "issue"}
    BY <2>1, <2>3, <2>5, <2>7, Stages DEF Candidate, Ready, TableOf, Rank, Sweeps
  <2>8. CASE Statement(t) \in {"use_capability", "consume_capabilities"}
    <3>1. h \in {"use_capability", "consume_capabilities"}
      BY <2>3, <2>8 DEF Candidate, TableOf
    <3>2. CASE h = "use_capability"
      <4>1. Statement(o) = "complete_recoveries"
        BY <2>1, <2>3, <3>2, Stages DEF Sweeps
      <4> QED
        BY <2>8, <4>1 DEF Rank
    <3>3. CASE h = "consume_capabilities"
      <4>1. Statement(o) = "consume_capabilities" /\ "advance_epoch" \in Done(o)
        BY <2>1, <2>3, <3>3, Stages
      <4>2. Statement(t) = "consume_capabilities" => "advance_epoch" \in Done(t)
        BY <2>1, Stages
      <4>3. db[r].user \in UserRows
        BY <2>1, <2>3, <2>8 DEF RowOK, TableOf
      <4> QED
        BY <2>6, <2>e, <2>8, <3>3, <4>1, <4>2, <4>3 DEF Rank, Sweeps
    <3> QED
      BY <3>1, <3>2, <3>3
  <2>9. CASE Statement(t) \in {"revoke_sessions", "select_session", "extend_session", "revoke_session"}
    <3>1. h \in {"revoke_sessions", "select_session", "extend_session", "revoke_session"}
      BY <2>3, <2>9 DEF Candidate, TableOf
    <3>2. h = "revoke_sessions" /\ "advance_epoch" \in Done(o) /\ Rank(o) > 2
      BY <2>1, <2>3, <3>1, Stages DEF Candidate, Rank, Sweeps
    <3>3. Statement(t) = "revoke_sessions" => "advance_epoch" \in Done(t)
      BY <2>1, Stages
    <3>4. db[r].user \in UserRows
      BY <2>1, <2>3, <2>9 DEF RowOK, TableOf
    <3> QED
      BY <2>6, <2>e, <2>9, <3>2, <3>3, <3>4 DEF Rank, Sweeps
  <2>10. CASE Statement(t) \in {"use_credential", "revoke_credential"}
    BY <2>1, <2>3, <2>10, Stages DEF Candidate, Ready, TableOf, Rank, Sweeps
  <2>11. CASE Statement(t) = "advance_epoch"
    BY <2>1, <2>3, <2>11, Stages, ArgumentRows DEF Candidate, Ready, TableOf, Rank, Sweeps, Rotates
  <2>12. CASE Statement(t) \in {"use_ceremony", "consume_ceremonies"}
    <3>1. h \in {"use_ceremony", "consume_ceremonies"}
      BY <2>3, <2>12 DEF Candidate, TableOf
    <3>2. db[r].user \in UserRows \/ db[r].user = None
      BY <2>1, <2>3, <2>12 DEF RowOK, TableOf
    <3>3. None \notin UserRows
      BY RowAssumption DEF UserRows, InitiallyIn
    <3>4. Statement(t) = "use_ceremony" =>
             \/ /\ tx[t].call.method = "complete_registration" /\ db[r].user \in UserRows
                /\ "advisory_lock" \in Done(t) /\ Rank(t) = 3
             \/ /\ tx[t].call.method = "complete_authentication" /\ db[r].user = None
                /\ Rank(t) = 0
      <4>1. Statement(t) = "use_ceremony" => r = tx[t].call.ceremony
        BY <2>3 DEF Candidate
      <4>2. Statement(t) = "use_ceremony" =>
               \/ tx[t].call.method = "complete_registration" /\ "advisory_lock" \in Done(t)
               \/ tx[t].call.method = "complete_authentication"
        BY <2>1, Stages
      <4>3. /\ tx[t].call.method = "complete_registration" =>
                  db[tx[t].call.ceremony].user = tx[t].call.user /\ tx[t].call.user \in UserRows
            /\ tx[t].call.method = "complete_authentication" => db[tx[t].call.ceremony].user = None
        BY <2>1, ArgumentRows
      <4> QED
        BY <4>1, <4>2, <4>3 DEF Rank
    <3>5. h = "use_ceremony" =>
             \/ /\ tx[o].call.method = "complete_registration" /\ db[r].user \in UserRows
                /\ "advisory_lock" \in Done(o) /\ Rank(o) > 4
             \/ /\ tx[o].call.method = "complete_authentication" /\ db[r].user = None
                /\ Statement(o) = "use_credential" /\ Rank(o) = 1
      <4>1. h = "use_ceremony" => r = tx[o].call.ceremony /\ h \in Done(o)
        BY <2>3 DEF Candidate, Sweeps
      <4>2. "use_ceremony" \in Done(o) =>
               \/ /\ tx[o].call.method = "complete_registration" /\ "advisory_lock" \in Done(o)
                  /\ Statement(o) \in {"use_capability", "complete_recoveries"}
               \/ tx[o].call.method = "complete_authentication" /\ Statement(o) = "use_credential"
        BY <2>1, <2>3, Stages
      <4>3. /\ tx[o].call.method = "complete_registration" =>
                  db[tx[o].call.ceremony].user = tx[o].call.user /\ tx[o].call.user \in UserRows
            /\ tx[o].call.method = "complete_authentication" => db[tx[o].call.ceremony].user = None
        BY <2>1, ArgumentRows
      <4> QED
        BY <4>1, <4>2, <4>3 DEF Rank
    <3>6. h = "consume_ceremonies" =>
             /\ "advance_epoch" \in Done(o) /\ Rank(o) >= 4
             /\ db[r].user = None => Rotates(o)
      <4>1. h = "consume_ceremonies" =>
               /\ "advance_epoch" \in Done(o)
               /\ Statement(o) \in {"consume_ceremonies", "consume_capabilities"}
               /\ tx[o].call.method \in {"approve_recovery", "break_glass", "rotate_all_auth_epochs"}
        BY <2>1, <2>3, Stages
      <4>2. h = "consume_ceremonies" /\ db[r].user = None => tx[o].call.user = None
        BY <2>6 DEF OfUser, Sweeps
      <4>3. tx[o].call.user = None => tx[o].call.method \in {"rotate_all_auth_epochs", "insert_ceremony"}
        BY <2>1, ArgumentRows
      <4> QED
        BY <4>1, <4>2, <4>3 DEF Rank, Rotates
    <3>7. Statement(t) = "consume_ceremonies" =>
             /\ "advance_epoch" \in Done(t) /\ Rank(t) = 4
             /\ db[r].user = None => Rotates(t)
      <4>1. Statement(t) = "consume_ceremonies" =>
               /\ "advance_epoch" \in Done(t)
               /\ tx[t].call.method \in {"approve_recovery", "break_glass", "rotate_all_auth_epochs"}
        BY <2>1, Stages
      <4>2. Statement(t) = "consume_ceremonies" /\ db[r].user = None => tx[t].call.user = None
        BY <2>6 DEF OfUser, Sweeps
      <4>3. tx[t].call.user = None => tx[t].call.method \in {"rotate_all_auth_epochs", "insert_ceremony"}
        BY <2>1, ArgumentRows
      <4> QED
        BY <4>1, <4>2, <4>3 DEF Rank, Rotates
    <3>8. CASE db[r].user = None
      BY <2>3, <2>4, <2>12, <3>1, <3>3, <3>4, <3>5, <3>6, <3>7, <3>8
    <3>9. CASE db[r].user \in UserRows
      BY <2>4, <2>5, <2>6, <2>e, <2>12, <3>1, <3>3, <3>4, <3>5, <3>6, <3>7, <3>9 DEF Sweeps
    <3> QED
      BY <3>2, <3>8, <3>9
  <2> QED
    BY <1>2, <2>1, <2>7, <2>8, <2>9, <2>10, <2>11, <2>12, Waiting, Stages
<1> QED
  BY <1>1, <1>2

(* Who holds a passkey and waits is a break-glass. *)
LEMMA PasskeyHolder ==
    ASSUME LockInv, NEW t \in Tx, NEW o \in Tx, NEW p \in Tx, o \in WaitsFor(t), p \in WaitsFor(o),
           Statement(t) = "use_credential"
    PROVE  tx[o].call.method = "break_glass"
<1>1. PICK r \in Key, h \in Reached(o) : Circles(t, o, h, r)
  BY Circling
<1>2. /\ ~AtEnd(o) /\ InProgram(o) /\ Statement(o) # "insert"
      /\ h \in Done(o) \/ h \in Sweeps \cup {"complete_recoveries"}
      /\ Candidate(h, tx[o].call, r, db[r]) /\ TableOf(h) = TableOf("use_credential")
  BY <1>1, Circling DEF Circles, Wants, Holds, FrameOK
<1> QED
  BY <1>2, Stages DEF Candidate, TableOf, Sweeps

(* Waiting leads to higher and higher ranks, except between rotations, and  *)
(* from a rotation to a login.                                              *)
LEMMA NoOtherDeadlock ==
    ASSUME LockInv, SweepInv, EnrolInv, HeldInv
    PROVE  OnlyRotationDeadlocks
<1> SUFFICES ASSUME NEW S \in SUBSET Tx, WaitCycle(S),
                    ~ \E t, o \in S : Rotates(t) /\ Rotates(o) /\ t # o,
                    ~ \E t, o, p \in S : /\ Rotates(t) /\ tx[o].call.method = "complete_authentication"
                                         /\ tx[p].call.method = "break_glass"
             PROVE  FALSE
  BY DEF OnlyRotationDeadlocks, Rotates
<1>1. \A t \in S : t \in Tx /\ \E o \in S : o \in WaitsFor(t)
  BY DEF WaitCycle
<1>2. ASSUME NEW t \in S
      PROVE  \E o \in S : \/ Rank(t) < Rank(o)
                          \/ /\ Statement(t) = "advance_epoch" /\ Statement(o) = "advance_epoch"
                             /\ Rotates(o) /\ t # o
  <2>1. PICK o \in S : o \in WaitsFor(t)
    BY <1>1
  <2>2. PICK p \in S : p \in WaitsFor(o)
    BY <1>1
  <2>3. PICK q \in S : q \in WaitsFor(p)
    BY <1>1
  <2>4. Statement(o) = "use_credential" => tx[p].call.method = "break_glass"
    BY <1>1, <2>2, <2>3, PasskeyHolder
  <2> QED
    BY <1>1, <2>1, <2>2, <2>4, LockOrder
<1>3. \A t \in S : Rank(t) \in 0 .. 7 /\ (Statement(t) = "advance_epoch" => Rank(t) = 2)
  BY DEF Rank
<1>4. \A t \in S : Rank(t) < 7
  BY <1>2, <1>3
<1>5. \A t \in S : Rank(t) < 6
  BY <1>2, <1>3, <1>4
<1>6. \A t \in S : Rank(t) < 5
  BY <1>2, <1>3, <1>5
<1>7. \A t \in S : Rank(t) < 4
  BY <1>2, <1>3, <1>6
<1>8. \A t \in S : Rank(t) < 3
  BY <1>2, <1>3, <1>7
<1>9. ASSUME NEW t \in S
      PROVE  Statement(t) # "advance_epoch"
  <2> SUFFICES ASSUME Statement(t) = "advance_epoch"
               PROVE  FALSE
    OBVIOUS
  <2>1. PICK o \in S : Statement(o) = "advance_epoch" /\ Rotates(o)
    BY <1>2, <1>3, <1>8
  <2>2. PICK p \in S : Rotates(p) /\ o # p
    BY <1>2, <1>3, <1>8, <2>1
  <2> QED
    BY <2>1, <2>2
<1>10. \A t \in S : Rank(t) < 2
  BY <1>2, <1>3, <1>8, <1>9
<1>11. \A t \in S : Rank(t) < 1
  BY <1>2, <1>3, <1>9, <1>10
<1>12. \A t \in S : Rank(t) < 0
  BY <1>2, <1>3, <1>9, <1>11
<1> QED
  BY <1>3, <1>12 DEF WaitCycle

(* The methods lock rows in one order, whatever the statements that run     *)
(* beside them: a circle of waiting transactions contains two rotations, or *)
(* a rotation, a break-glass and a login.                                   *)
THEOREM OnlyRotationsDeadlock == Spec => []OnlyRotationDeadlocks
<1>1. LockInv /\ SweepInv /\ EnrolInv /\ HeldInv => OnlyRotationDeadlocks
  BY NoOtherDeadlock
<1> QED
  BY <1>1, LockInvariant, SweepsMissNothing, EnrolInvariant, AdvisoryIsHeld, PTL

=============================================================================
