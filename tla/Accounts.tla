-------------------------------- MODULE Accounts --------------------------------
(***************************************************************************)
(* Sign-in, refresh, sign-out and account deletion: IdentityService,       *)
(* AuthService and the calls they make to Saleor. Every way to sign in    *)
(* ends in resolveUserByIdentity, which finds or makes the user of an      *)
(* identity, and issueSession.  Requests run concurrently: a handler's     *)
(* step is the code up to its next await, and what a handler read earlier  *)
(* may be stale when it is used.                                           *)
(*                                                                         *)
(* A subject stands for a pair (provider, subject).  A session id is the   *)
(* session's place in the order of creation, which refresh() goes by.      *)
(*                                                                         *)
(* bcrypt reads 72 bytes.  The first 72 bytes of a token are the header of *)
(* the JWT and the beginning of its payload, {"sessionId":"<the id>...:    *)
(* the stored hash tells sessions apart and not the tokens of one session, *)
(* so hashedRefreshToken is modelled by the session id.                    *)
(*                                                                         *)
(* Not modelled: the SMS and call codes and Apple's claims (a verified     *)
(* subject is an input), profile fields, isBanned and isActive, which no   *)
(* code writes, and linkIdentity, which no code calls.                     *)
(***************************************************************************)
EXTENDS Naturals, Sequences, FiniteSets

CONSTANTS Subjects,     \* verified identities
          UserIds,      \* ids nanoid may draw
          Hashes,       \* hashes of the messenger handshake
          Handlers,     \* slots for requests being handled at one time
          NoSubject, NoUser, NoHash,
          MaxSessions,  \* bound: sessions ever created
          MaxFaults     \* bound: faults in one behaviour

ASSUME AccountsAssumption ==
    /\ NoSubject \notin Subjects
    /\ NoUser \notin UserIds
    /\ NoHash \notin Hashes
    /\ MaxSessions \in Nat
    /\ MaxFaults \in Nat

VARIABLES identity,  \* AuthIdentity: the user of each subject
          drawn,     \* user ids drawn so far
          deleted,   \* users with isDeleted set
          refreshOf, \* hashedRefreshToken: the session it was minted for, or 0
          customers, \* users with a Saleor account
          sessions,  \* Session rows in order of creation
          request,   \* TelegramAuthRequest rows
          handler,   \* what each handler is doing
          asked,     \* history: users whose deletion was requested
          faults     \* faults so far

dbVars == <<identity, deleted, refreshOf, sessions, request>>
vars == <<dbVars, drawn, customers, handler, asked, faults>>

\* The steps from which a handler goes on to create a session for its user.
Admitted == {"tokens", "session"}
SigningIn == Admitted \cup {"claim", "find", "provision", "insert", "refind"}
Deleting == {"shop", "revoke", "delete"}
Steps == SigningIn \cup Deleting \cup {"idle", "latest", "keep"}

Idle == [pc |-> "idle", subject |-> NoSubject, hash |-> NoHash,
         user |-> NoUser, session |-> 0]

Closed == [open |-> FALSE, subject |-> NoSubject, used |-> FALSE, expired |-> FALSE]

TypeOK ==
    /\ identity \in [Subjects -> UserIds \cup {NoUser}]
    /\ drawn \subseteq UserIds
    /\ deleted \subseteq drawn
    /\ sessions \in Seq([owner : UserIds, revoked : BOOLEAN,
                         via : Hashes \cup {NoHash}])
    /\ refreshOf \in [UserIds -> 0 .. Len(sessions)]
    /\ customers \subseteq drawn
    /\ request \in [Hashes -> [open : BOOLEAN, subject : Subjects \cup {NoSubject},
                               used : BOOLEAN, expired : BOOLEAN]]
    /\ handler \in [Handlers ->
           [pc : Steps, subject : Subjects \cup {NoSubject},
            hash : Hashes \cup {NoHash}, user : UserIds \cup {NoUser},
            session : 0 .. Len(sessions)]]
    /\ asked \subseteq drawn
    /\ faults \in Nat

Init ==
    /\ identity = [s \in Subjects |-> NoUser]
    /\ drawn = {}
    /\ deleted = {}
    /\ refreshOf = [u \in UserIds |-> 0]
    /\ customers = {}
    /\ sessions = << >>
    /\ request = [x \in Hashes |-> Closed]
    /\ handler = [h \in Handlers |-> Idle]
    /\ asked = {}
    /\ faults = 0

Users == {identity[s] : s \in Subjects} \ {NoUser}
SessionIds == DOMAIN sessions
LiveSessions(u) ==
    {i \in SessionIds : sessions[i].owner = u /\ ~sessions[i].revoked}

\* A request that may end in a session begins only if it fits the bound.
Room ==
    Len(sessions) + Cardinality({h \in Handlers : handler[h].pc \in SigningIn})
        < MaxSessions

At(h, s) == handler[h].pc = s
Begin(h, f) == At(h, "idle") /\ handler' = [handler EXCEPT ![h] = f]
Goto(h, s) == handler' = [handler EXCEPT ![h].pc = s]
Leave(h) == handler' = [handler EXCEPT ![h] = Idle]

\* assertUserActive(u), then on to issueSession; a deleted user is refused.
Admit(h, u) ==
    IF u \in deleted THEN Leave(h)
    ELSE handler' = [handler EXCEPT ![h].pc = "tokens", ![h].user = u]

-----------------------------------------------------------------------------
(* The messenger handshake                                                 *)

\* POST /auth/tg, /auth/whatsapp: a hash is handed to the client.
authSocialMessenger(x) ==
    /\ ~request[x].open
    /\ request' = [request EXCEPT ![x].open = TRUE]
    /\ UNCHANGED <<identity, deleted, refreshOf, sessions, drawn, customers,
                   handler, asked, faults>>

\* The bot's message handler and the WhatsApp hook write the sender's phone.
WritePhone(x, s) ==
    /\ request[x].open
    /\ request' = [request EXCEPT ![x].subject = s]
    /\ UNCHANGED <<identity, deleted, refreshOf, sessions, drawn, customers,
                   handler, asked, faults>>

Expire(x) ==
    /\ request[x].open /\ ~request[x].expired
    /\ request' = [request EXCEPT ![x].expired = TRUE]
    /\ UNCHANGED <<identity, deleted, refreshOf, sessions, drawn, customers,
                   handler, asked, faults>>

Checkable(x) ==
    /\ request[x].open
    /\ ~request[x].used /\ ~request[x].expired
    /\ request[x].subject # NoSubject

\* POST /auth/tg/hash, /auth/whatsapp/hash: the row is read; null is answered
\* while it is not checkable, which changes nothing.
CheckHash(h, x) ==
    /\ Room
    /\ Checkable(x)
    /\ Begin(h, [Idle EXCEPT !.pc = "claim", !.hash = x, !.subject = request[x].subject])
    /\ UNCHANGED <<dbVars, drawn, customers, asked, faults>>

\* Mutant: usedAt is not part of the condition.
ClaimAgain(h) ==
    /\ At(h, "claim")
    /\ Goto(h, "find")
    /\ request' = [request EXCEPT ![handler[h].hash].used = TRUE]
    /\ UNCHANGED <<identity, deleted, refreshOf, sessions, drawn, customers,
                   asked, faults>>

\* updateMany where usedAt is null.
ClaimHash(h) ==
    /\ At(h, "claim")
    /\ IF request[handler[h].hash].used
       THEN Leave(h) /\ UNCHANGED request
       ELSE /\ Goto(h, "find")
            /\ request' = [request EXCEPT ![handler[h].hash].used = TRUE]
    /\ UNCHANGED <<identity, deleted, refreshOf, sessions, drawn, customers,
                   asked, faults>>


-----------------------------------------------------------------------------
(* resolveUserByIdentity                                                   *)

\* A subject is verified and its user is to be found or made.
Verified(h, s) ==
    /\ Room
    /\ Begin(h, [Idle EXCEPT !.pc = "find", !.subject = s])
    /\ UNCHANGED <<dbVars, drawn, customers, asked, faults>>

\* register() with an SMS code refuses a subject it finds.
register(h, s) == identity[s] = NoUser /\ Verified(h, s)

\* POST /auth/check-wait-code, after the call was confirmed.
authCallWaitCode(h, s) == Verified(h, s)

\* POST /auth/apple, after the token was verified.
appleSignIn(h, s) == Verified(h, s)

\* login() with an SMS code, by user id.
login(h, u) ==
    /\ Room
    /\ u \in Users \ deleted
    /\ Begin(h, [Idle EXCEPT !.pc = "tokens", !.user = u])
    /\ UNCHANGED <<dbVars, drawn, customers, asked, faults>>

Find(h) ==
    /\ At(h, "find")
    /\ LET u == identity[handler[h].subject]
       IN  IF u = NoUser THEN Goto(h, "provision") ELSE Admit(h, u)
    /\ UNCHANGED <<dbVars, drawn, customers, asked, faults>>

\* A fresh id is drawn and its Saleor account is made.
Provision(h) ==
    /\ At(h, "provision")
    /\ \E u \in UserIds \ drawn :
         /\ drawn' = drawn \cup {u}
         /\ customers' = customers \cup {u}
         /\ handler' = [handler EXCEPT ![h].pc = "insert", ![h].user = u]
    /\ UNCHANGED <<dbVars, asked, faults>>

\* Mutant: the answer of accountRegister is not looked at.
ProvisionUnchecked(h) ==
    /\ At(h, "provision")
    /\ faults < MaxFaults
    /\ faults' = faults + 1
    /\ \E u \in UserIds \ drawn :
         /\ drawn' = drawn \cup {u}
         /\ customers' \in {customers, customers \cup {u}}
         /\ handler' = [handler EXCEPT ![h].pc = "insert", ![h].user = u]
    /\ UNCHANGED <<dbVars, asked>>

\* Saleor refuses, or its answer is lost.
ProvisionFails(h) ==
    /\ At(h, "provision")
    /\ faults < MaxFaults
    /\ faults' = faults + 1
    /\ \E u \in UserIds \ drawn :
         /\ drawn' = drawn \cup {u}
         /\ customers' \in {customers, customers \cup {u}}
    /\ Goto(h, "refind")
    /\ UNCHANGED <<dbVars, asked>>

\* Mutant: the loser of the race goes on with the user it has made.
InsertAndGoOn(h) ==
    /\ At(h, "insert")
    /\ identity' = [identity EXCEPT ![handler[h].subject] =
                        IF @ = NoUser THEN handler[h].user ELSE @]
    /\ Goto(h, "tokens")
    /\ UNCHANGED <<deleted, refreshOf, sessions, request, drawn, customers, asked, faults>>

\* The transaction inserts User and AuthIdentity; both are unique per subject.
Insert(h) ==
    /\ At(h, "insert")
    /\ IF identity[handler[h].subject] # NoUser
       THEN Goto(h, "refind") /\ UNCHANGED identity
       ELSE /\ identity' = [identity EXCEPT ![handler[h].subject] = handler[h].user]
            /\ Goto(h, "tokens")
    /\ UNCHANGED <<deleted, refreshOf, sessions, request, drawn, customers, asked, faults>>

\* The transaction throws, committed or not.
InsertFails(h) ==
    /\ At(h, "insert")
    /\ faults < MaxFaults
    /\ faults' = faults + 1
    /\ identity' \in {identity, [identity EXCEPT ![handler[h].subject] =
                                     IF @ = NoUser THEN handler[h].user ELSE @]}
    /\ Goto(h, "refind")
    /\ UNCHANGED <<deleted, refreshOf, sessions, request, drawn, customers, asked>>

\* Mutant: the user found in the catch block is not checked.
RefindUnchecked(h) ==
    /\ At(h, "refind")
    /\ LET u == identity[handler[h].subject]
       IN  IF u = NoUser THEN Leave(h)
           ELSE handler' = [handler EXCEPT ![h].pc = "tokens", ![h].user = u]
    /\ UNCHANGED <<dbVars, drawn, customers, asked, faults>>

\* Mutant: the catch block throws the error on.
RefindThrows(h) ==
    /\ At(h, "refind")
    /\ Leave(h)
    /\ UNCHANGED <<dbVars, drawn, customers, asked, faults>>

\* The catch block looks the identity up again, and throws if there is none.
Refind(h) ==
    /\ At(h, "refind")
    /\ LET u == identity[handler[h].subject]
       IN  IF u = NoUser THEN Leave(h) ELSE Admit(h, u)
    /\ UNCHANGED <<dbVars, drawn, customers, asked, faults>>

-----------------------------------------------------------------------------
(* issueSession and refresh                                                *)

\* tokenCreate fails for a user without a Saleor account.
IssueTokens(h) ==
    /\ At(h, "tokens")
    /\ IF handler[h].user \in customers THEN Goto(h, "session") ELSE Leave(h)
    /\ UNCHANGED <<dbVars, drawn, customers, asked, faults>>

\* Mutant: the token is signed before the row is inserted.
MintFirst(h) ==
    /\ At(h, "session")
    /\ handler' = [handler EXCEPT ![h].pc = "keep", ![h].session = Len(sessions) + 1]
    /\ UNCHANGED <<dbVars, drawn, customers, asked, faults>>

CreateSession(h) ==
    /\ At(h, "session")
    /\ sessions' = Append(sessions, [owner |-> handler[h].user, revoked |-> FALSE,
                                     via |-> handler[h].hash])
    /\ handler' = [handler EXCEPT ![h].pc = "keep", ![h].session = Len(sessions) + 1]
    /\ UNCHANGED <<identity, deleted, refreshOf, request, drawn, customers, asked, faults>>

\* The last step of issueSession and of refresh.
KeepRefresh(h) ==
    /\ At(h, "keep")
    /\ refreshOf' = [refreshOf EXCEPT ![handler[h].user] = handler[h].session]
    /\ Leave(h)
    /\ UNCHANGED <<identity, deleted, sessions, request, drawn, customers, asked, faults>>

\* POST /auth/refresh with a token minted for session i.
Refresh(h, i) ==
    LET u == sessions[i].owner
    IN  /\ refreshOf[u] = i
        /\ Begin(h, [Idle EXCEPT !.pc = "latest", !.user = u])
        /\ UNCHANGED <<dbVars, drawn, customers, asked, faults>>

\* Mutant: the query lacks the user.
LatestOfAll(h) ==
    /\ At(h, "latest")
    /\ LET live == {i \in SessionIds : ~sessions[i].revoked}
       IN  IF live = {} THEN Leave(h)
           ELSE \E i \in live :
                  /\ \A j \in live : j <= i
                  /\ handler' = [handler EXCEPT ![h].pc = "keep", ![h].session = i]
    /\ UNCHANGED <<dbVars, drawn, customers, asked, faults>>

\* The latest live session of the user, whichever the token was minted for.
Latest(h) ==
    /\ At(h, "latest")
    /\ LET live == LiveSessions(handler[h].user)
       IN  IF live = {} THEN Leave(h)
           ELSE \E i \in live :
                  /\ \A j \in live : j <= i
                  /\ handler' = [handler EXCEPT ![h].pc = "keep", ![h].session = i]
    /\ UNCHANGED <<dbVars, drawn, customers, asked, faults>>

\* AuthGuard lets a live session through; it does not look at the user.
Authorized(i) == ~sessions[i].revoked

SignOut(i) ==
    /\ Authorized(i)
    /\ sessions' = [sessions EXCEPT ![i].revoked = TRUE]
    /\ UNCHANGED <<identity, deleted, refreshOf, request, drawn, customers,
                   handler, asked, faults>>

-----------------------------------------------------------------------------
(* deleteAccount                                                           *)

\* Apple's grants are revoked first, outside this module.
deleteAccount(h, i) ==
    /\ Authorized(i)
    /\ Begin(h, [Idle EXCEPT !.pc = "shop", !.user = sessions[i].owner])
    /\ asked' = asked \cup {sessions[i].owner}
    /\ UNCHANGED <<dbVars, drawn, customers, faults>>

DeleteCustomer(h) ==
    /\ At(h, "shop")
    /\ customers' = customers \ {handler[h].user}
    /\ Goto(h, "revoke")
    /\ UNCHANGED <<dbVars, drawn, asked, faults>>

\* Best-effort: the error is logged.
DeleteCustomerFails(h) ==
    /\ At(h, "shop")
    /\ faults < MaxFaults
    /\ faults' = faults + 1
    /\ Goto(h, "revoke")
    /\ UNCHANGED <<dbVars, drawn, customers, asked>>

RevokeSessions(h) ==
    /\ At(h, "revoke")
    /\ sessions' = [i \in SessionIds |->
                       IF sessions[i].owner = handler[h].user
                       THEN [sessions[i] EXCEPT !.revoked = TRUE]
                       ELSE sessions[i]]
    /\ Goto(h, "delete")
    /\ UNCHANGED <<identity, deleted, refreshOf, request, drawn, customers, asked, faults>>

SoftDelete(h) ==
    /\ At(h, "delete")
    /\ deleted' = deleted \cup {handler[h].user}
    /\ refreshOf' = [refreshOf EXCEPT ![handler[h].user] = 0]
    /\ Leave(h)
    /\ UNCHANGED <<identity, sessions, request, drawn, customers, asked, faults>>

-----------------------------------------------------------------------------

\* A query throws outside of any catch block, or the process dies.
Die(h) ==
    /\ ~At(h, "idle")
    /\ faults < MaxFaults
    /\ faults' = faults + 1
    /\ Leave(h)
    /\ UNCHANGED <<dbVars, drawn, customers, asked>>

-----------------------------------------------------------------------------

Messenger ==
    \E x \in Hashes :
        \/ authSocialMessenger(x)
        \/ Expire(x)
        \/ \E s \in Subjects : WritePhone(x, s)

Request(h) ==
    \/ \E x \in Hashes : CheckHash(h, x)
    \/ \E s \in Subjects : register(h, s) \/ authCallWaitCode(h, s) \/ appleSignIn(h, s)
    \/ \E u \in UserIds : login(h, u)
    \/ \E i \in SessionIds : Refresh(h, i) \/ deleteAccount(h, i)

Resolve(h) == ClaimHash(h) \/ Find(h) \/ Provision(h) \/ Insert(h) \/ Refind(h)
Issue(h)   == IssueTokens(h) \/ CreateSession(h) \/ Latest(h) \/ KeepRefresh(h)
Delete(h)  == DeleteCustomer(h) \/ RevokeSessions(h) \/ SoftDelete(h)
Step(h)    == Resolve(h) \/ Issue(h) \/ Delete(h)
Fault(h)   == ProvisionFails(h) \/ InsertFails(h) \/ DeleteCustomerFails(h) \/ Die(h)

Next ==
    \/ Messenger
    \/ \E i \in SessionIds : SignOut(i)
    \/ \E h \in Handlers : Request(h) \/ Step(h) \/ Fault(h)

Spec == Init /\ [][Next]_vars

\* An owner who asked for the deletion and still has the account signs in again
\* and asks again.
ReturnTo(u) ==
    /\ u \in asked \ deleted
    /\ \E h \in Handlers, s \in Subjects : identity[s] = u /\ Verified(h, s)

AskAgain(u) ==
    /\ u \in asked \ deleted
    /\ \E h \in Handlers, i \in LiveSessions(u) : deleteAccount(h, i)

FairSpec ==
    /\ Spec
    /\ \A h \in Handlers : WF_vars(Step(h))
    /\ \A u \in UserIds : SF_vars(ReturnTo(u)) /\ SF_vars(AskAgain(u))

-----------------------------------------------------------------------------
(* Properties                                                              *)

\* resolveUserByIdentity is idempotent under concurrent calls: every request
\* that goes on to a session for a subject does so for the subject's one user.
ResolvesToOneUser ==
    \A h \in Handlers :
        (handler[h].pc \in Admitted \cup {"keep"} /\ handler[h].subject # NoSubject)
            => handler[h].user = identity[handler[h].subject]

\* A hash of the messenger handshake gives one session, however many polls of
\* it race.
HashIsSingleUse ==
    \A x \in Hashes : Cardinality({i \in SessionIds : sessions[i].via = x}) <= 1

\* The hash is consumed before the user is resolved: without a failure, and
\* while nobody deletes an account, the handler that consumed it is at work or
\* has created the session.  Losing the race for the user is no failure.
ConsumedIsSignedIn ==
    \A x \in Hashes : request[x].used =>
        \/ \E h \in Handlers : handler[h].hash = x /\ handler[h].pc # "claim"
        \/ \E i \in SessionIds : sessions[i].via = x
        \/ faults > 0
        \/ asked # {}

\* Saleor first: a user row has its Saleor account, whatever Saleor answers and
\* whoever wins the race, until the owner asks for the deletion.
UserIsCustomer == Users \ asked \subseteq customers

\* A refresh token leads to sessions of its own account, through every
\* interleaving of sign-ins, refreshes, sign-outs and deletions.
RefreshStaysInAccount ==
    \A u \in UserIds : refreshOf[u] # 0 => sessions[refreshOf[u]].owner = u

\* Once an account is deleted and no sign-in that found it alive is running, no
\* later one gets past assertUserActive on any path.
Gone(u) ==
    /\ u \in deleted
    /\ \A h \in Handlers : handler[h].pc \in Admitted => handler[h].user # u

GoneStaysGone == [][\A u \in UserIds : Gone(u) => Gone(u)']_vars

\* deleteAccount revokes all sessions of the user.
DeletedIsSignedOut == \A u \in deleted : LiveSessions(u) = {}

\* The local soft delete always succeeds, if the owner keeps signing in
\* and asking for it.
DeletionCompletes == \A u \in UserIds : u \in asked ~> u \in deleted

=============================================================================
