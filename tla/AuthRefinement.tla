---------------------------- MODULE AuthRefinement ----------------------------
(***************************************************************************)
(* AuthService implements SessionAuthority and TokenAuthority: however     *)
(* requests interleave, every step of the service is a step of the two     *)
(* abstract specifications or leaves their state alone.                    *)
(***************************************************************************)
EXTENDS AuthService

EpochView == [u \in UserId |-> users[u].epoch]

PasskeyState == [absent |-> "none", live |-> "live", revoked |-> "revoked"]

PasskeyView ==
    [c \in CredentialId |->
        [state |-> PasskeyState[credentials[c].status], user |-> credentials[c].user]]

(* A session is usable while the epoch comparison still lets it in. *)
SessionState(s) ==
    IF sessions[s].status = "absent" THEN "none" ELSE IF Usable(s) THEN "usable" ELSE "dead"

SessionView ==
    [s \in SessionId |->
        [state |-> SessionState(s), user |-> sessions[s].user, passkey |-> sessions[s].credential]]

Sessions == INSTANCE SessionAuthority
    WITH User    <- UserId,
         Passkey <- CredentialId,
         Session <- SessionId,
         epoch   <- EpochView,
         passkey <- PasskeyView,
         login   <- SessionView

(* Recovery approval, break-glass and rotation end every session of their   *)
(* users in the step that advances the epoch and revokes the passkey; no    *)
(* login in flight, late request or later step makes one usable again.      *)
ImplementsSessionAuthority == Sessions!Spec

(* A capability is spent if a passkey was registered with it, and void if   *)
(* an invalidation consumed it.                                             *)
TokenState(k) ==
    IF capabilities[k].status = "absent" THEN "unissued"
    ELSE IF capabilities[k].status = "open" THEN "open"
    ELSE IF \E c \in CredentialId : CapabilityOf(c) = k THEN "spent"
    ELSE "void"

TokenView ==
    [k \in CapabilityId |-> [state |-> TokenState(k), user |-> capabilities[k].user]]

TokenPasskeyView ==
    [c \in CredentialId |->
        [state |-> IF credentials[c].status = "absent" THEN "none" ELSE "registered",
         user  |-> credentials[c].user,
         token |-> CapabilityOf(c)]]

Tokens == INSTANCE TokenAuthority
    WITH User    <- UserId,
         Token   <- CapabilityId,
         Passkey <- CredentialId,
         epoch   <- EpochView,
         token   <- TokenView,
         passkey <- TokenPasskeyView

(* A setup, recovery or break-glass token pays for at most one passkey of   *)
(* its own user, and an invalidation voids all tokens of the user at once,  *)
(* whatever ceremonies they have started.                                   *)
ImplementsTokenAuthority == Tokens!Spec

=============================================================================
