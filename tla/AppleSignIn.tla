------------------------------- MODULE AppleSignIn -------------------------------
(***************************************************************************)
(* Sign in with Apple: the nonce that makes a token good for one sign-in,  *)
(* the refresh token that is traded for the authorization code by a task   *)
(* left running after the sign-in was answered, and what deleteAccount     *)
(* does with those tokens: it reads them, has Apple revoke each, and       *)
(* removes whatever rows the user has by then.                             *)
(*                                                                         *)
(* A grant is a refresh token Apple gave out.  Apple's keys are            *)
(* configured.  Users, sessions and the rest of the deletion are in        *)
(* Accounts; here a user is found for the subject, or refused when it was  *)
(* deleted.  Not modelled: the cached client secret, and the profile.      *)
(***************************************************************************)
EXTENDS Naturals, Sequences, FiniteSets

CONSTANTS AppleUsers, Nonces,
          SignIns,        \* slots for sign-ins, with the tasks they leave
          MaxGrants,      \* bound: grants ever given
          MaxAppleErrors  \* bound: revocations Apple refuses, or does not get

ASSUME AppleAssumption == MaxGrants \in Nat /\ MaxAppleErrors \in Nat

VARIABLES nonces,       \* AppleAuthNonce rows, and whether each has expired
          signIn,       \* what each sign-in is doing
          grants,       \* what Apple gave out, and what is stored of it
          removal,      \* what the deletion of each account is doing
          removed,      \* users with isDeleted set
          passes,       \* history: sign-ins each nonce let through
          appleErrors

appleVars == <<nonces, signIn, grants, removal, removed, passes, appleErrors>>

NoSignIn == [at |-> "idle"]
NoRemoval == [at |-> "idle", found |-> {}]
GrantIds == DOMAIN grants

AppleTypeOK ==
    /\ nonces \in [Nonces -> {"unissued", "live", "expired", "gone"}]
    /\ signIn \in [SignIns -> {NoSignIn} \cup
           [at : {"read", "burn", "resolve", "issue", "exchange"},
            user : AppleUsers, nonce : Nonces, late : BOOLEAN] \cup
           [at : {"store"}, user : AppleUsers, nonce : Nonces, late : BOOLEAN,
            grant : GrantIds]]
    /\ grants \in Seq([user : AppleUsers, stored : BOOLEAN, active : BOOLEAN,
                       late : BOOLEAN])
    /\ removal \in [AppleUsers -> [at : {"idle", "revoke", "delete"},
                                   found : SUBSET GrantIds]]
    /\ removed \subseteq AppleUsers
    /\ passes \in [Nonces -> Nat]
    /\ appleErrors \in Nat

AppleInit ==
    /\ nonces = [n \in Nonces |-> "unissued"]
    /\ signIn = [s \in SignIns |-> NoSignIn]
    /\ grants = << >>
    /\ removal = [u \in AppleUsers |-> NoRemoval]
    /\ removed = {}
    /\ passes = [n \in Nonces |-> 0]
    /\ appleErrors = 0

Advance(s, at) == signIn' = [signIn EXCEPT ![s].at = at]
Refuse(s) == signIn' = [signIn EXCEPT ![s] = NoSignIn]

-----------------------------------------------------------------------------
(* The nonce                                                               *)

issueNonce(n) ==
    /\ nonces[n] = "unissued"
    /\ nonces' = [nonces EXCEPT ![n] = "live"]
    /\ UNCHANGED <<signIn, grants, removal, removed, passes, appleErrors>>

NonceExpires(n) ==
    /\ nonces[n] = "live"
    /\ nonces' = [nonces EXCEPT ![n] = "expired"]
    /\ UNCHANGED <<signIn, grants, removal, removed, passes, appleErrors>>

\* POST /auth/apple.  It is late when the account's deletion is at work.
StartSignIn(s, u, n) ==
    /\ signIn[s] = NoSignIn
    /\ nonces[n] # "unissued"
    /\ signIn' = [signIn EXCEPT ![s] =
           [at |-> "read", user |-> u, nonce |-> n, late |-> removal[u].at # "idle"]]
    /\ UNCHANGED <<nonces, grants, removal, removed, passes, appleErrors>>

\* consumeNonce reads the nonce: an expired one is deleted, and refused.
ReadNonce(s) ==
    /\ signIn[s].at = "read"
    /\ LET n == signIn[s].nonce
       IN  /\ nonces' = IF nonces[n] = "expired"
                        THEN [nonces EXCEPT ![n] = "gone"] ELSE nonces
           /\ IF nonces[n] = "live" THEN Advance(s, "burn") ELSE Refuse(s)
    /\ UNCHANGED <<grants, removal, removed, passes, appleErrors>>

\* Mutant: deleting a nonce that is not there is no error.
DeleteAny(n) == TRUE

\* appleAuthNonce.delete throws when the row is gone.
Deletable(n) == nonces[n] # "gone"

BurnNonce(s) ==
    /\ signIn[s].at = "burn"
    /\ LET n == signIn[s].nonce
       IN  IF Deletable(n)
           THEN /\ nonces' = [nonces EXCEPT ![n] = "gone"]
                /\ passes' = [passes EXCEPT ![n] = @ + 1]
                /\ Advance(s, "resolve")
           ELSE Refuse(s) /\ UNCHANGED <<nonces, passes>>
    /\ UNCHANGED <<grants, removal, removed, appleErrors>>

-----------------------------------------------------------------------------
(* The grant                                                               *)

\* The token and its nonce were verified: resolveUserByIdentity.
ResolveUser(s) ==
    /\ signIn[s].at = "resolve"
    /\ IF signIn[s].user \in removed THEN Refuse(s) ELSE Advance(s, "issue")
    /\ UNCHANGED <<nonces, grants, removal, removed, passes, appleErrors>>

\* issueSession is done: the client is answered, and the exchange starts when
\* there is an authorization code.
AnswerSignIn(s, code) ==
    /\ signIn[s].at = "issue"
    /\ IF code THEN Advance(s, "exchange") ELSE Refuse(s)
    /\ UNCHANGED <<nonces, grants, removal, removed, passes, appleErrors>>

\* Apple trades the code for a refresh token.
Exchange(s) ==
    /\ signIn[s].at = "exchange"
    /\ Len(grants) < MaxGrants
    /\ grants' = Append(grants, [user |-> signIn[s].user, stored |-> FALSE,
                                 active |-> TRUE, late |-> signIn[s].late])
    /\ signIn' = [signIn EXCEPT ![s] =
           [at |-> "store", user |-> @.user, nonce |-> @.nonce, late |-> @.late,
            grant |-> Len(grants) + 1]]
    /\ UNCHANGED <<nonces, removal, removed, passes, appleErrors>>

StoreGrant(s) ==
    /\ signIn[s].at = "store"
    /\ grants' = [grants EXCEPT ![signIn[s].grant].stored = TRUE,
                                ![signIn[s].grant].late = signIn[s].late]
    /\ Refuse(s)
    /\ UNCHANGED <<nonces, removal, removed, passes, appleErrors>>

\* A step fails or the process dies: the sign-in or its task is gone.  What
\* Apple gave and was not stored can never be revoked, and is late.
SignInEnds(s) ==
    /\ signIn[s] # NoSignIn
    /\ grants' = IF signIn[s].at = "store"
                 THEN [grants EXCEPT ![signIn[s].grant].late = TRUE] ELSE grants
    /\ Refuse(s)
    /\ UNCHANGED <<nonces, removal, removed, passes, appleErrors>>

-----------------------------------------------------------------------------
(* deleteAccount                                                           *)

StoredFor(u) == {g \in GrantIds : grants[g].user = u /\ grants[g].stored}

\* revokeAllForUser's findMany; a sign-in at work on the account is late.
StartRemoval(u) ==
    /\ removal[u].at = "idle" /\ u \notin removed
    /\ removal' = [removal EXCEPT ![u] = [at |-> "revoke", found |-> StoredFor(u)]]
    /\ signIn' = [s \in SignIns |->
           IF signIn[s] # NoSignIn /\ signIn[s].user = u
           THEN [signIn[s] EXCEPT !.late = TRUE] ELSE signIn[s]]
    /\ UNCHANGED <<nonces, grants, removed, passes, appleErrors>>

\* Apple answers one of the revocations sent together.
Revoked(u, g) ==
    /\ removal[u].at = "revoke" /\ g \in removal[u].found
    /\ grants' = [grants EXCEPT ![g].active = FALSE]
    /\ removal' = [removal EXCEPT ![u].found = @ \ {g}]
    /\ UNCHANGED <<nonces, signIn, removed, passes, appleErrors>>

\* Apple refuses one, which is only logged.
RevokeFails(u, g) ==
    /\ removal[u].at = "revoke" /\ g \in removal[u].found
    /\ appleErrors < MaxAppleErrors
    /\ appleErrors' = appleErrors + 1
    /\ removal' = [removal EXCEPT ![u].found = @ \ {g}]
    /\ UNCHANGED <<nonces, signIn, grants, removed, passes>>

\* Mutant: the rows are removed without waiting for Apple's answers.
NotWaiting(u) == TRUE

\* Promise.allSettled.
AllSettled(u) == removal[u].found = {}

\* deleteMany: every row the user has now.
ForgetGrants(u) ==
    /\ removal[u].at = "revoke" /\ AllSettled(u)
    /\ grants' = [g \in GrantIds |->
           IF g \in StoredFor(u) THEN [grants[g] EXCEPT !.stored = FALSE] ELSE grants[g]]
    /\ removal' = [removal EXCEPT ![u] = [at |-> "delete", found |-> {}]]
    /\ UNCHANGED <<nonces, signIn, removed, passes, appleErrors>>

SoftDeleteUser(u) ==
    /\ removal[u].at = "delete"
    /\ removed' = removed \cup {u}
    /\ removal' = [removal EXCEPT ![u] = NoRemoval]
    /\ UNCHANGED <<nonces, signIn, grants, passes, appleErrors>>

\* The process dies, or a query fails: the account is not deleted.
RemovalEnds(u) ==
    /\ removal[u].at # "idle"
    /\ removal' = [removal EXCEPT ![u] = NoRemoval]
    /\ UNCHANGED <<nonces, signIn, grants, removed, passes, appleErrors>>

AppleNext ==
    \/ \E n \in Nonces : issueNonce(n) \/ NonceExpires(n)
    \/ \E s \in SignIns :
           \/ \E u \in AppleUsers, n \in Nonces : StartSignIn(s, u, n)
           \/ ReadNonce(s) \/ BurnNonce(s) \/ ResolveUser(s)
           \/ \E code \in BOOLEAN : AnswerSignIn(s, code)
           \/ Exchange(s) \/ StoreGrant(s) \/ SignInEnds(s)
    \/ \E u \in AppleUsers :
           \/ StartRemoval(u) \/ ForgetGrants(u) \/ SoftDeleteUser(u) \/ RemovalEnds(u)
           \/ \E g \in GrantIds : Revoked(u, g) \/ RevokeFails(u, g)

AppleSpec == AppleInit /\ [][AppleNext]_appleVars

\* However many sign-ins present one nonce at a time, it lets one through.
NonceIsSingleUse == \A n \in Nonces : passes[n] <= 1

\* No grant of a deleted account is left active at Apple, when Apple refused no
\* revocation, but those of sign-ins that were at work when the account was
\* being deleted, or that have not stored the grant or never will; a deletion
\* that was cut short and asked for again leaves none either.
GrantsAreRevoked ==
    appleErrors = 0 =>
        \A g \in GrantIds :
            grants[g].user \in removed /\ grants[g].active
                => grants[g].late
                   \/ \E s \in SignIns : signIn[s].at = "store" /\ signIn[s].grant = g
=============================================================================
