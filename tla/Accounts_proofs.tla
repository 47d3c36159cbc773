-------------------------- MODULE Accounts_proofs --------------------------
(***************************************************************************)
(* Proofs about Accounts, for any number of subjects, users, requests and  *)
(* faults.  One inductive invariant, IInv, says what each handler has      *)
(* already made sure of; a step of one handler then leaves the others what *)
(* they rely on, because the tables only grow in what they say.            *)
(***************************************************************************)
EXTENDS Accounts, SequenceTheorems, FiniteSetTheorems, TLAPS

\* A request from which a session of its hash may still come.
Consuming(h) == handler[h].pc \in SigningIn \ {"claim"} /\ handler[h].hash # NoHash

HandlerOK(h) ==
    /\ At(h, "claim") => handler[h].hash \in Hashes
    /\ handler[h].pc \in {"claim", "find", "provision", "insert", "refind"} =>
           handler[h].subject \in Subjects
    /\ handler[h].pc \in {"idle", "latest"} \cup Deleting =>
           handler[h].subject = NoSubject /\ handler[h].hash = NoHash
    /\ handler[h].pc \in Admitted \cup Deleting \cup {"keep", "latest"} =>
           handler[h].user \in Users
    /\ handler[h].pc \in Deleting => handler[h].user \in asked
    /\ At(h, "insert") => handler[h].user \in (drawn \cap customers) \ Users
    /\ handler[h].pc \in Admitted \cup {"keep"} /\ handler[h].subject # NoSubject =>
           handler[h].user = identity[handler[h].subject]
    /\ At(h, "keep") => /\ handler[h].session \in SessionIds
                        /\ sessions[handler[h].session].owner = handler[h].user
                        /\ handler[h].hash # NoHash =>
                               sessions[handler[h].session].via = handler[h].hash
    /\ At(h, "refind") => faults > 0 \/ identity[handler[h].subject] # NoUser
    /\ Consuming(h) => /\ request[handler[h].hash].used
                       /\ \A i \in SessionIds : sessions[i].via # handler[h].hash

\* Handlers that make a user make different ones; those that consume a hash
\* consume different ones.
Apart ==
    \A g, h \in Handlers : g # h =>
        /\ At(g, "insert") /\ At(h, "insert") => handler[g].user # handler[h].user
        /\ Consuming(g) /\ Consuming(h) => handler[g].hash # handler[h].hash

UsersOK ==
    /\ Users \subseteq drawn
    /\ deleted \subseteq asked
    /\ asked \subseteq Users

SessionsOK ==
    \A i \in SessionIds :
        /\ sessions[i].owner \in Users
        /\ sessions[i].via # NoHash => /\ request[sessions[i].via].used
                                       /\ \A j \in SessionIds :
                                              sessions[j].via = sessions[i].via => j = i

IInv ==
    /\ TypeOK
    /\ UsersOK
    /\ UserIsCustomer
    /\ SessionsOK
    /\ RefreshStaysInAccount
    /\ \A h \in Handlers : HandlerOK(h)
    /\ Apart
    /\ ConsumedIsSignedIn

USE AccountsAssumption DEF Admitted, SigningIn, Deleting, Steps, At

-----------------------------------------------------------------------------
(* The types of the parts                                                  *)

RequestRecords ==
    [open : BOOLEAN, subject : Subjects \cup {NoSubject}, used : BOOLEAN, expired : BOOLEAN]
SessionRecords == [owner : UserIds, revoked : BOOLEAN, via : Hashes \cup {NoHash}]
Records(n) ==
    [pc : Steps, subject : Subjects \cup {NoSubject}, hash : Hashes \cup {NoHash},
     user : UserIds \cup {NoUser}, session : 0 .. n]

LEMMA Types ==
    ASSUME TypeOK
    PROVE  /\ sessions \in Seq(SessionRecords)
           /\ Len(sessions) \in Nat
           /\ SessionIds = 1 .. Len(sessions)
           /\ \A i \in SessionIds : sessions[i] \in SessionRecords
           /\ handler \in [Handlers -> Records(Len(sessions))]
           /\ Users \subseteq UserIds
           /\ drawn \subseteq UserIds
           /\ identity \in [Subjects -> UserIds \cup {NoUser}]
  <1>1. sessions \in Seq(SessionRecords)
    BY DEF TypeOK, SessionRecords
  <1>2. Len(sessions) \in Nat /\ SessionIds = 1 .. Len(sessions)
    BY <1>1, LenProperties DEF SessionIds
  <1>3. \A i \in SessionIds : sessions[i] \in SessionRecords
    BY <1>1, <1>2, ElementOfSeq
  <1>4. /\ handler \in [Handlers -> Records(Len(sessions))]
        /\ Users \subseteq UserIds
        /\ drawn \subseteq UserIds
        /\ identity \in [Subjects -> UserIds \cup {NoUser}]
    BY DEF TypeOK, Records, Users
  <1>5. QED
    BY <1>1, <1>2, <1>3, <1>4

LEMMA InitIInv == Init => IInv
  <1> SUFFICES ASSUME Init PROVE IInv
    OBVIOUS
  <1> USE DEF Init
  <1>1. sessions \in Seq(SessionRecords) /\ Len(sessions) = 0 /\ SessionIds = {}
    BY DEF SessionIds
  <1>2. Users = {}
    BY DEF Users
  <1>3. TypeOK
    BY <1>1 DEF TypeOK, SessionRecords, Closed, Idle
  <1>4. UsersOK /\ UserIsCustomer /\ SessionsOK /\ RefreshStaysInAccount
    BY <1>1, <1>2 DEF UsersOK, UserIsCustomer, SessionsOK, RefreshStaysInAccount
  <1>5. (\A h \in Handlers : HandlerOK(h)) /\ Apart
    BY DEF HandlerOK, Consuming, Apart, Idle
  <1>6. ConsumedIsSignedIn
    BY DEF ConsumedIsSignedIn, Closed
  <1>7. QED
    BY <1>3, <1>4, <1>5, <1>6 DEF IInv

-----------------------------------------------------------------------------
(* What a step of one handler leaves to the others                         *)

\* What the tables say of a user, a session or a hash stays said.
Grows ==
    /\ \A s \in Subjects : identity[s] # NoUser => identity'[s] = identity[s]
    /\ drawn \subseteq drawn'
    /\ asked \subseteq asked'
    /\ SessionIds \subseteq SessionIds'
    /\ \A i \in SessionIds : /\ sessions'[i].owner = sessions[i].owner
                             /\ sessions'[i].via = sessions[i].via
    /\ faults > 0 => faults' > 0
    /\ \A x \in Hashes : request[x].used => request'[x].used

LEMMA GrownUsers ==
    ASSUME Grows PROVE Users \subseteq Users'
  BY DEF Grows, Users

\* A handler that takes no step keeps what it has made sure of, if nobody makes
\* its user or its session.
LEMMA OtherHandler ==
    ASSUME IInv, Grows, NEW g \in Handlers, handler'[g] = handler[g],
           At(g, "insert") => handler[g].user \in customers' \ Users',
           Consuming(g) => \A i \in SessionIds' \ SessionIds :
                               sessions'[i].via # handler[g].hash
    PROVE  HandlerOK(g)'
  <1> USE DEF IInv
  <1>1. Users \subseteq Users'
    BY GrownUsers
  <1>2. /\ handler[g] \in Records(Len(sessions))
        /\ SessionIds = 1 .. Len(sessions)
    BY Types
  <1>3. HandlerOK(g)
    OBVIOUS
  <1>4. handler[g].pc \in {"claim", "find", "provision", "insert", "refind"} =>
            handler[g].subject \in Subjects
    BY <1>3 DEF HandlerOK
  <1>5. At(g, "refind") =>
            faults' > 0 \/ identity'[handler[g].subject] # NoUser
    BY <1>3, <1>4 DEF HandlerOK, Grows
  <1>6. handler[g].pc \in Admitted \cup {"keep"} /\ handler[g].subject # NoSubject =>
            handler[g].user = identity'[handler[g].subject]
    <2> SUFFICES ASSUME handler[g].pc \in Admitted \cup {"keep"},
                        handler[g].subject # NoSubject
                 PROVE  handler[g].user = identity'[handler[g].subject]
      OBVIOUS
    <2>1. handler[g].subject \in Subjects
      BY <1>2 DEF Records
    <2>2. handler[g].user = identity[handler[g].subject] /\ handler[g].user \in Users
      BY <1>3 DEF HandlerOK
    <2>3. QED
      BY <2>1, <2>2 DEF Grows, Users
  <1>7. At(g, "keep") => /\ handler[g].session \in SessionIds'
                         /\ sessions'[handler[g].session].owner = handler[g].user
                         /\ handler[g].hash # NoHash =>
                                sessions'[handler[g].session].via = handler[g].hash
    BY <1>3 DEF HandlerOK, Grows
  <1>8. Consuming(g) => /\ request'[handler[g].hash].used
                        /\ \A i \in SessionIds' : sessions'[i].via # handler[g].hash
    <2> SUFFICES ASSUME Consuming(g)
                 PROVE  /\ request'[handler[g].hash].used
                        /\ \A i \in SessionIds' : sessions'[i].via # handler[g].hash
      OBVIOUS
    <2>1. handler[g].hash \in Hashes
      BY <1>2 DEF Consuming, Records
    <2>2. QED
      BY <1>3, <2>1 DEF HandlerOK, Grows
  <1>9. handler[g].pc \in Admitted \cup Deleting \cup {"keep", "latest"} =>
            handler[g].user \in Users'
    BY <1>1, <1>3 DEF HandlerOK
  <1>10. /\ handler[g].pc \in Deleting => handler[g].user \in asked'
         /\ At(g, "insert") => handler[g].user \in (drawn' \cap customers') \ Users'
    BY <1>3 DEF HandlerOK, Grows
  <1>11. QED
    BY <1>3, <1>4, <1>5, <1>6, <1>7, <1>8, <1>9, <1>10 DEF HandlerOK, Consuming

\* The step of a handler: only its own record changes, and it makes no new user
\* and consumes no hash it did not.
Moves(h) ==
    /\ handler' \in [Handlers -> Records(Len(sessions))]
    /\ \A g \in Handlers \ {h} : handler'[g] = handler[g]

\* Nothing but handlers, and the count of faults, changes.
LEMMA MoveKeepsIInv ==
    ASSUME IInv, NEW h \in Handlers, Moves(h),
           UNCHANGED <<dbVars, drawn, customers, asked>>,
           faults' \in Nat, faults' >= faults,
           HandlerOK(h)',
           ~At(h, "insert")',
           Consuming(h)' => Consuming(h) /\ handler'[h].hash = handler[h].hash,
           handler[h].hash # NoHash /\ ~At(h, "claim") =>
               \/ handler'[h].hash = handler[h].hash /\ ~At(h, "claim")'
               \/ \E i \in SessionIds : sessions[i].via = handler[h].hash
               \/ faults' > 0
               \/ asked # {}
    PROVE  IInv'
  <1> USE DEF IInv, dbVars
  <1>1. TypeOK'
    BY DEF TypeOK, Moves, Records
  <1>2. UsersOK' /\ UserIsCustomer' /\ RefreshStaysInAccount'
    BY DEF UsersOK, UserIsCustomer, RefreshStaysInAccount, Users
  <1>3. SessionsOK'
    BY DEF SessionsOK, SessionIds, Users
  <1>4. \A g \in Handlers : HandlerOK(g)'
    <2> SUFFICES ASSUME NEW g \in Handlers, g # h PROVE HandlerOK(g)'
      OBVIOUS
    <2>1. handler'[g] = handler[g]
      BY DEF Moves
    <2>2. Grows /\ SessionIds' = SessionIds /\ Users' = Users
      BY DEF TypeOK, Grows, SessionIds, Users
    <2>3. HandlerOK(g)
      OBVIOUS
    <2>4. At(g, "insert") => handler[g].user \in customers' \ Users'
      BY <2>2, <2>3 DEF HandlerOK
    <2>5. QED
      BY <2>1, <2>2, <2>4, OtherHandler
  <1>5. Apart'
    <2> SUFFICES ASSUME NEW f \in Handlers, NEW g \in Handlers, f # g
                 PROVE  /\ At(f, "insert")' /\ At(g, "insert")' =>
                               handler'[f].user # handler'[g].user
                        /\ Consuming(f)' /\ Consuming(g)' =>
                               handler'[f].hash # handler'[g].hash
      BY DEF Apart
    <2>1. CASE f # h /\ g # h
      BY <2>1 DEF Moves, Apart, Consuming
    <2>2. CASE f = h
      BY <2>2 DEF Moves, Apart, Consuming
    <2>3. CASE g = h
      BY <2>3 DEF Moves, Apart, Consuming
    <2>4. QED
      BY <2>1, <2>2, <2>3
  <1>6. ConsumedIsSignedIn'
    <2> SUFFICES ASSUME NEW x \in Hashes, request[x].used, faults' = 0, asked = {},
                        \A i \in SessionIds : sessions[i].via # x
                 PROVE  \E g \in Handlers : handler'[g].hash = x /\ handler'[g].pc # "claim"
      BY DEF TypeOK, ConsumedIsSignedIn, SessionIds
    <2>1. faults = 0
      BY DEF TypeOK
    <2>2. PICK g \in Handlers : handler[g].hash = x /\ handler[g].pc # "claim"
      BY <2>1 DEF ConsumedIsSignedIn
    <2>3. QED
      BY <2>2 DEF Moves
  <1>7. QED
    BY <1>1, <1>2, <1>3, <1>4, <1>5, <1>6

-----------------------------------------------------------------------------
(* Steps that change no table                                              *)

\* A handler's new record is of its type, and the others' are as they were.
LEMMA MovesTo ==
    ASSUME TypeOK, NEW h \in Handlers, NEW r \in Records(Len(sessions)),
           handler' = [handler EXCEPT ![h] = r]
    PROVE  Moves(h) /\ handler'[h] = r
  BY Types DEF Moves

LEMMA IdleRecord == ASSUME TypeOK PROVE Idle \in Records(Len(sessions))
  <1>1. 0 \in 0 .. Len(sessions)
    BY Types
  <1>2. QED
    BY <1>1 DEF Idle, Records

LEMMA GotoMoves ==
    ASSUME TypeOK, NEW h \in Handlers, NEW s \in Steps, Goto(h, s)
    PROVE  /\ Moves(h)
           /\ handler'[h].pc = s
           /\ handler'[h].subject = handler[h].subject
           /\ handler'[h].hash = handler[h].hash
           /\ handler'[h].user = handler[h].user
           /\ handler'[h].session = handler[h].session
  <1> DEFINE r == [handler[h] EXCEPT !.pc = s]
  <1> HIDE DEF Steps
  <1>1. handler[h] \in Records(Len(sessions))
    BY Types
  <1>2. r \in Records(Len(sessions))
    BY <1>1 DEF Records
  <1>3. handler' = [handler EXCEPT ![h] = r]
    BY DEF Goto
  <1>4. Moves(h) /\ handler'[h] = r
    BY <1>2, <1>3, MovesTo
  <1>5. QED
    BY <1>1, <1>4 DEF Records

\* The step to s, with or for a user u.
GotoAs(h, s, u) == handler' = [handler EXCEPT ![h].pc = s, ![h].user = u]

LEMMA GotoAsMoves ==
    ASSUME TypeOK, NEW h \in Handlers, NEW s \in Steps, NEW u \in UserIds, GotoAs(h, s, u)
    PROVE  /\ Moves(h)
           /\ handler'[h].pc = s
           /\ handler'[h].subject = handler[h].subject
           /\ handler'[h].hash = handler[h].hash
           /\ handler'[h].user = u
  <1> DEFINE r == [handler[h] EXCEPT !.pc = s, !.user = u]
  <1> HIDE DEF Steps
  <1>1. handler[h] \in Records(Len(sessions)) /\ handler \in [Handlers -> Records(Len(sessions))]
    BY Types
  <1>2. r \in Records(Len(sessions))
    BY <1>1 DEF Records
  <1>3. handler' = [handler EXCEPT ![h] = r]
    BY <1>1 DEF Records, GotoAs
  <1>4. Moves(h) /\ handler'[h] = r
    BY <1>2, <1>3, MovesTo
  <1>5. QED
    BY <1>1, <1>4 DEF Records

LEMMA LeaveKeepsIInv ==
    ASSUME IInv, NEW h \in Handlers, Leave(h),
           UNCHANGED <<dbVars, drawn, customers, asked>>,
           faults' \in Nat, faults' >= faults,
           handler[h].hash # NoHash /\ ~At(h, "claim") =>
               \/ \E i \in SessionIds : sessions[i].via = handler[h].hash
               \/ faults' > 0
               \/ asked # {}
    PROVE  IInv'
  <1>1. Idle \in Records(Len(sessions))
    BY IdleRecord DEF IInv
  <1>2. Moves(h) /\ handler'[h] = Idle
    BY <1>1, MovesTo DEF IInv, Leave
  <1>3. HandlerOK(h)' /\ ~At(h, "insert")' /\ ~Consuming(h)'
    BY <1>2 DEF HandlerOK, Consuming, Idle
  <1>4. QED
    BY <1>2, <1>3, MoveKeepsIInv

\* The requests that begin by reading.
LEMMA BeginKeepsIInv ==
    ASSUME IInv, NEW h \in Handlers,
           \/ \E x \in Hashes : CheckHash(h, x)
           \/ \E s \in Subjects : Verified(h, s)
           \/ \E u \in UserIds : login(h, u)
           \/ \E i \in SessionIds : Refresh(h, i)
    PROVE  IInv'
  <1> USE DEF IInv
  <1>1. /\ At(h, "idle") /\ handler[h].hash = NoHash
        /\ UNCHANGED <<dbVars, drawn, customers, asked, faults>>
    BY DEF CheckHash, Verified, login, Refresh, Begin, HandlerOK
  <1>2. faults' \in Nat /\ faults' >= faults
    BY <1>1 DEF TypeOK
  <1>3. Idle \in Records(Len(sessions)) /\ {"claim", "find", "tokens", "latest"} \subseteq Steps
    BY IdleRecord
  <1> HIDE DEF Steps
  <1>4. ASSUME NEW x \in Hashes, CheckHash(h, x) PROVE IInv'
    <2> DEFINE r == [Idle EXCEPT !.pc = "claim", !.hash = x, !.subject = request[x].subject]
    <2>1. request[x].subject \in Subjects /\ handler' = [handler EXCEPT ![h] = r]
      BY <1>4 DEF CheckHash, Checkable, Begin, TypeOK
    <2>2. /\ r \in Records(Len(sessions))
          /\ r.pc = "claim" /\ r.hash = x /\ r.subject = request[x].subject
      BY <1>3, <2>1 DEF Records
    <2>3. Moves(h) /\ handler'[h] = r
      BY <2>1, <2>2, MovesTo
    <2>4. HandlerOK(h)' /\ ~At(h, "insert")' /\ ~Consuming(h)'
      BY <2>1, <2>2, <2>3, ZenonT(40) DEF HandlerOK, Consuming
    <2>5. QED
      BY <1>1, <1>2, <2>3, <2>4, MoveKeepsIInv
  <1>5. ASSUME NEW s \in Subjects, Verified(h, s) PROVE IInv'
    <2> DEFINE r == [Idle EXCEPT !.pc = "find", !.subject = s]
    <2>1. handler' = [handler EXCEPT ![h] = r]
      BY <1>5 DEF Verified, Begin
    <2>2. /\ r \in Records(Len(sessions))
          /\ r.pc = "find" /\ r.hash = NoHash /\ r.subject = s
      BY <1>3 DEF Records, Idle
    <2>3. Moves(h) /\ handler'[h] = r
      BY <2>1, <2>2, MovesTo
    <2>4. HandlerOK(h)' /\ ~At(h, "insert")' /\ ~Consuming(h)'
      BY <2>2, <2>3 DEF HandlerOK, Consuming
    <2>5. QED
      BY <1>1, <1>2, <2>3, <2>4, MoveKeepsIInv
  <1>6. ASSUME NEW u \in UserIds, login(h, u) PROVE IInv'
    <2> DEFINE r == [Idle EXCEPT !.pc = "tokens", !.user = u]
    <2>1. handler' = [handler EXCEPT ![h] = r] /\ u \in Users'
      BY <1>1, <1>6 DEF login, Begin, Users, dbVars
    <2>2. /\ r \in Records(Len(sessions))
          /\ r.pc = "tokens" /\ r.hash = NoHash /\ r.subject = NoSubject /\ r.user = u
      BY <1>3 DEF Records, Idle
    <2>3. Moves(h) /\ handler'[h] = r
      BY <2>1, <2>2, MovesTo
    <2>4. HandlerOK(h)' /\ ~At(h, "insert")' /\ ~Consuming(h)'
      BY <2>1, <2>2, <2>3 DEF HandlerOK, Consuming
    <2>5. QED
      BY <1>1, <1>2, <2>3, <2>4, MoveKeepsIInv
  <1>7. ASSUME NEW i \in SessionIds, Refresh(h, i) PROVE IInv'
    <2> DEFINE u == sessions[i].owner
               r == [Idle EXCEPT !.pc = "latest", !.user = u]
    <2>1. u \in Users' /\ u \in UserIds
      BY <1>1, Types DEF SessionsOK, Users, dbVars
    <2>2. handler' = [handler EXCEPT ![h] = r]
      BY <1>7 DEF Refresh, Begin
    <2> HIDE DEF u
    <2>3. /\ r \in Records(Len(sessions))
          /\ r.pc = "latest" /\ r.hash = NoHash /\ r.subject = NoSubject /\ r.user = u
      BY <1>3, <2>1 DEF Records, Idle
    <2>4. Moves(h) /\ handler'[h] = r
      BY <2>2, <2>3, MovesTo
    <2>5. HandlerOK(h)' /\ ~At(h, "insert")' /\ ~Consuming(h)'
      BY <2>1, <2>3, <2>4 DEF HandlerOK, Consuming
    <2>6. QED
      BY <1>1, <1>2, <2>4, <2>5, MoveKeepsIInv
  <1>8. QED
    BY <1>4, <1>5, <1>6, <1>7

\* A user was found: the handler goes on to a session, or refuses a deleted one.
LEMMA AdmitKeepsIInv ==
    ASSUME IInv, NEW h \in Handlers, handler[h].pc \in {"find", "refind"},
           identity[handler[h].subject] # NoUser,
           Admit(h, identity[handler[h].subject]),
           UNCHANGED <<dbVars, drawn, customers, asked, faults>>
    PROVE  IInv'
  <1> USE DEF IInv
  <1> DEFINE u == identity[handler[h].subject]
  <1>1. handler[h].subject \in Subjects /\ u \in Users
    BY DEF HandlerOK, Users
  <1>2. faults' \in Nat /\ faults' >= faults
    BY DEF TypeOK
  <1>3. CASE u \in deleted
    <2>1. asked # {}
      BY <1>3 DEF UsersOK
    <2>2. Leave(h)
      BY <1>3 DEF Admit
    <2>3. QED
      BY <1>2, <2>1, <2>2, LeaveKeepsIInv
  <1>4. CASE u \notin deleted
    <2>1. GotoAs(h, "tokens", u) /\ u \in UserIds
      BY <1>1, <1>4, Types DEF Admit, GotoAs
    <2> HIDE DEF u
    <2>2. /\ Moves(h) /\ At(h, "tokens")' /\ handler'[h].user = u
          /\ handler'[h].subject = handler[h].subject /\ handler'[h].hash = handler[h].hash
      BY <2>1, GotoAsMoves
    <2>3. Consuming(h)' => Consuming(h)
      BY <2>2 DEF Consuming
    <2>4. u \in Users' /\ u = identity'[handler[h].subject]
      BY <1>1 DEF u, Users, dbVars
    <2>5. HandlerOK(h)
      OBVIOUS
    <2>6. HandlerOK(h)' /\ ~At(h, "insert")' /\ ~At(h, "claim")'
      BY <2>2, <2>3, <2>4, <2>5 DEF HandlerOK, dbVars, SessionIds
    <2>7. QED
      BY <1>2, <2>2, <2>3, <2>6, MoveKeepsIInv
  <1>5. QED
    BY <1>3, <1>4

LEMMA FindKeepsIInv ==
    ASSUME IInv, NEW h \in Handlers, Find(h) \/ Refind(h)
    PROVE  IInv'
  <1> USE DEF IInv
  <1>1. /\ UNCHANGED <<dbVars, drawn, customers, asked, faults>>
        /\ faults' \in Nat /\ faults' >= faults
    BY DEF Find, Refind, TypeOK
  <1>2. CASE identity[handler[h].subject] # NoUser
    BY <1>1, <1>2, AdmitKeepsIInv DEF Find, Refind
  <1>3. CASE Refind(h) /\ identity[handler[h].subject] = NoUser
    <2>1. Leave(h) /\ faults' > 0
      BY <1>1, <1>3 DEF Refind, HandlerOK
    <2>2. QED
      BY <1>1, <2>1, LeaveKeepsIInv
  <1>4. CASE Find(h) /\ identity[handler[h].subject] = NoUser
    <2>1. At(h, "find") /\ Goto(h, "provision")
      BY <1>4 DEF Find
    <2>2. /\ Moves(h) /\ At(h, "provision")'
          /\ handler'[h].subject = handler[h].subject /\ handler'[h].hash = handler[h].hash
      BY <2>1, GotoMoves
    <2>3. HandlerOK(h)
      OBVIOUS
    <2>4. Consuming(h)' => Consuming(h)
      BY <2>1, <2>2 DEF Consuming
    <2>5. HandlerOK(h)' /\ ~At(h, "insert")' /\ ~At(h, "claim")'
      BY <1>1, <2>1, <2>2, <2>3, <2>4 DEF HandlerOK, dbVars, SessionIds
    <2>6. QED
      BY <1>1, <2>2, <2>4, <2>5, MoveKeepsIInv
  <1>5. QED
    BY <1>2, <1>3, <1>4

LEMMA TokensKeepIInv ==
    ASSUME IInv, NEW h \in Handlers, IssueTokens(h)
    PROVE  IInv'
  <1> USE DEF IInv
  <1>1. /\ UNCHANGED <<dbVars, drawn, customers, asked, faults>>
        /\ faults' \in Nat /\ faults' >= faults
        /\ At(h, "tokens")
    BY DEF IssueTokens, TypeOK
  <1>2. CASE handler[h].user \notin customers
    <2>1. asked # {}
      BY <1>1, <1>2 DEF HandlerOK, UserIsCustomer
    <2>2. QED
      BY <1>1, <1>2, <2>1, LeaveKeepsIInv DEF IssueTokens
  <1>3. CASE handler[h].user \in customers
    <2>1. /\ Moves(h) /\ At(h, "session")' /\ handler'[h].user = handler[h].user
          /\ handler'[h].subject = handler[h].subject /\ handler'[h].hash = handler[h].hash
      BY <1>3, GotoMoves DEF IssueTokens
    <2>2. HandlerOK(h)
      OBVIOUS
    <2>3. Consuming(h)' => Consuming(h)
      BY <1>1, <2>1 DEF Consuming
    <2>4. Users' = Users
      BY <1>1 DEF Users, dbVars
    <2>5. HandlerOK(h)' /\ ~At(h, "insert")' /\ ~At(h, "claim")'
      BY <1>1, <2>1, <2>2, <2>3, <2>4 DEF HandlerOK, dbVars, SessionIds
    <2>6. QED
      BY <1>1, <2>1, <2>3, <2>5, MoveKeepsIInv
  <1>4. QED
    BY <1>2, <1>3

\* refresh's session is one of the user's.
LEMMA LatestKeepsIInv ==
    ASSUME IInv, NEW h \in Handlers, Latest(h)
    PROVE  IInv'
  <1> USE DEF IInv
  <1>1. /\ UNCHANGED <<dbVars, drawn, customers, asked, faults>>
        /\ faults' \in Nat /\ faults' >= faults
        /\ At(h, "latest")
    BY DEF Latest, TypeOK
  <1>2. handler[h].hash = NoHash /\ handler[h].subject = NoSubject
    BY <1>1 DEF HandlerOK
  <1>3. CASE Leave(h)
    BY <1>1, <1>2, <1>3, LeaveKeepsIInv
  <1>4. ASSUME NEW i \in LiveSessions(handler[h].user),
               handler' = [handler EXCEPT ![h].pc = "keep", ![h].session = i]
        PROVE  IInv'
    <2> DEFINE r == [handler[h] EXCEPT !.pc = "keep", !.session = i]
    <2>1. i \in SessionIds /\ sessions[i].owner = handler[h].user
      BY DEF LiveSessions
    <2>2. handler[h] \in Records(Len(sessions)) /\ i \in 0 .. Len(sessions)
      BY <2>1, Types
    <2>3. handler' = [handler EXCEPT ![h] = r]
      BY <1>4, <2>2, Types DEF Records
    <2>4. r \in Records(Len(sessions))
      BY <2>2 DEF Records
    <2>5. Moves(h) /\ handler'[h] = r
      BY <2>3, <2>4, MovesTo
    <2>6. /\ r.pc = "keep" /\ r.subject = NoSubject /\ r.hash = NoHash
          /\ r.user = handler[h].user /\ r.session = i
      BY <1>2, <2>2 DEF Records
    <2>7. handler[h].user \in Users'
      BY <1>1 DEF HandlerOK, Users, dbVars
    <2>8. HandlerOK(h)' /\ ~At(h, "insert")' /\ ~Consuming(h)'
      BY <1>1, <2>1, <2>5, <2>6, <2>7 DEF HandlerOK, Consuming, dbVars, SessionIds
    <2>9. QED
      BY <1>1, <1>2, <2>5, <2>8, MoveKeepsIInv
  <1>5. QED
    BY <1>3, <1>4 DEF Latest

-----------------------------------------------------------------------------
(* Steps that change tables                                                *)

LEMMA StepKeepsIInv ==
    ASSUME IInv, NEW h \in Handlers, Grows,
           TypeOK', UsersOK', UserIsCustomer', SessionsOK', RefreshStaysInAccount',
           HandlerOK(h)', ConsumedIsSignedIn',
           \A g \in Handlers \ {h} :
               /\ handler'[g] = handler[g]
               /\ At(g, "insert") =>
                      /\ handler[g].user \in customers' \ Users'
                      /\ At(h, "insert")' => handler[g].user # handler'[h].user
               /\ Consuming(g) =>
                      /\ \A i \in SessionIds' \ SessionIds :
                             sessions'[i].via # handler[g].hash
                      /\ Consuming(h)' => handler[g].hash # handler'[h].hash
    PROVE  IInv'
  <1>1. \A g \in Handlers : HandlerOK(g)'
    BY OtherHandler
  <1>2. Apart'
    <2> SUFFICES ASSUME NEW f \in Handlers, NEW g \in Handlers, f # g
                 PROVE  /\ At(f, "insert")' /\ At(g, "insert")' =>
                               handler'[f].user # handler'[g].user
                        /\ Consuming(f)' /\ Consuming(g)' =>
                               handler'[f].hash # handler'[g].hash
      BY DEF Apart
    <2>1. CASE f # h /\ g # h
      BY <2>1 DEF IInv, Apart, Consuming
    <2>2. CASE f = h
      BY <2>2 DEF Consuming
    <2>3. CASE g = h
      BY <2>3 DEF Consuming
    <2>4. QED
      BY <2>1, <2>2, <2>3
  <1>3. QED
    BY <1>1, <1>2 DEF IInv

\* A hash that was consumed is still accounted for.
LEMMA ConsumedKept ==
    ASSUME IInv, Grows, NEW h \in Handlers,
           \A x \in Hashes : request'[x].used => request[x].used,
           \A g \in Handlers \ {h} : handler'[g] = handler[g],
           handler[h].hash # NoHash /\ ~At(h, "claim") =>
               \/ handler'[h].hash = handler[h].hash /\ ~At(h, "claim")'
               \/ \E i \in SessionIds' : sessions'[i].via = handler[h].hash
               \/ faults' > 0
               \/ asked' # {}
    PROVE  ConsumedIsSignedIn'
  <1> SUFFICES ASSUME NEW x \in Hashes, request[x].used, ~(faults' > 0), asked' = {},
                      \A i \in SessionIds' : sessions'[i].via # x
               PROVE  \E g \in Handlers : handler'[g].hash = x /\ handler'[g].pc # "claim"
    BY DEF ConsumedIsSignedIn
  <1>1. /\ ~(faults > 0) /\ asked = {}
        /\ \A i \in SessionIds : sessions[i].via # x
    BY DEF Grows
  <1>2. PICK g \in Handlers : handler[g].hash = x /\ handler[g].pc # "claim"
    BY <1>1 DEF IInv, ConsumedIsSignedIn
  <1>3. QED
    BY <1>2

LEMMA ClaimHashKeepsIInv ==
    ASSUME IInv, NEW h \in Handlers, ClaimHash(h)
    PROVE  IInv'
  <1> USE DEF IInv
  <1> DEFINE x == handler[h].hash
  <1>1. /\ At(h, "claim") /\ x \in Hashes /\ handler[h].subject \in Subjects
        /\ UNCHANGED <<identity, deleted, refreshOf, sessions, drawn, customers, asked, faults>>
    BY DEF ClaimHash, HandlerOK
  <1>2. CASE request[x].used
    BY <1>1, <1>2, LeaveKeepsIInv DEF ClaimHash, dbVars, TypeOK
  <1>3. CASE ~request[x].used
    <2>1. /\ Goto(h, "find")
          /\ request' = [request EXCEPT ![x].used = TRUE]
      BY <1>3 DEF ClaimHash
    <2>2. /\ Moves(h) /\ At(h, "find")' /\ handler'[h].hash = x
          /\ handler'[h].subject = handler[h].subject
      BY <2>1, GotoMoves
    <2>3. /\ request' \in [Hashes -> RequestRecords]
          /\ request'[x].used
          /\ \A y \in Hashes \ {x} : request'[y] = request[y]
      <3> DEFINE r == [request[x] EXCEPT !.used = TRUE]
      <3>1. request \in [Hashes -> RequestRecords] /\ request[x] \in RequestRecords
        BY <1>1 DEF TypeOK, RequestRecords
      <3>2. r \in RequestRecords /\ r.used
        BY <3>1 DEF RequestRecords
      <3>3. request' = [request EXCEPT ![x] = r]
        BY <1>1, <2>1, <3>1 DEF RequestRecords
      <3> HIDE DEF r
      <3>4. QED
        BY <1>1, <3>1, <3>2, <3>3
    <2>4. Grows
      BY <1>1, <2>3 DEF Grows, SessionIds
    <2>5. TypeOK'
      BY <1>1, <2>2, <2>3 DEF TypeOK, Moves, Records, RequestRecords
    <2>6. SessionIds' = SessionIds /\ Users' = Users
      BY <1>1 DEF SessionIds, Users
    <2>7. UsersOK' /\ UserIsCustomer' /\ RefreshStaysInAccount'
      BY <1>1, <2>6 DEF UsersOK, UserIsCustomer, RefreshStaysInAccount
    <2>8. SessionsOK'
      <3>1. \A i \in SessionIds : sessions[i].via \in Hashes \cup {NoHash}
        BY Types DEF SessionRecords
      <3>2. QED
        BY <1>1, <2>4, <2>6, <3>1 DEF SessionsOK, Grows
    <2>9. \A i \in SessionIds : sessions[i].via # x
      BY <1>1, <1>3 DEF SessionsOK
    <2>10. \A g \in Handlers : Consuming(g) => handler[g].hash # x
      BY <1>3 DEF HandlerOK
    <2>11. HandlerOK(h)'
      BY <1>1, <2>2, <2>3, <2>6, <2>9 DEF HandlerOK, Consuming
    <2>12. ConsumedIsSignedIn'
      <3>1. \A y \in Hashes \ {x} : \A g \in Handlers :
                handler[g].hash = y /\ handler[g].pc # "claim" => handler'[g] = handler[g]
        BY <1>1, <2>2 DEF Moves
      <3>2. QED
        BY <1>1, <2>2, <2>3, <2>6, <3>1 DEF ConsumedIsSignedIn
    <2>13. \A g \in Handlers : At(g, "insert") => handler[g].user \in customers' \ Users'
      BY <1>1, <2>6 DEF HandlerOK
    <2>14. QED
      BY <2>2, <2>4, <2>5, <2>6, <2>7, <2>8, <2>10, <2>11, <2>12, <2>13, StepKeepsIInv
         DEF Moves
  <1>4. QED
    BY <1>2, <1>3

-----------------------------------------------------------------------------
(* Messenger, sign-out and deletion                                        *)

\* A sign-out changes what a session's row says of its status only.
StatusChange ==
    /\ sessions' \in Seq(SessionRecords)
    /\ Len(sessions') = Len(sessions)
    /\ SessionIds' = SessionIds
    /\ \A i \in SessionIds : /\ sessions'[i].owner = sessions[i].owner
                             /\ sessions'[i].via = sessions[i].via

\* Nobody makes a user or a session, and no hash is consumed; the handlers of M
\* (one, or none) end their sign-in or are about a deletion.
LEMMA QuietKeepsIInv ==
    ASSUME IInv, NEW M \in SUBSET Handlers,
           handler' \in [Handlers -> Records(Len(sessions))],
           \A g \in Handlers \ M : handler'[g] = handler[g],
           \A h \in M : /\ HandlerOK(h)' /\ ~At(h, "insert")' /\ ~Consuming(h)'
                        /\ handler[h].hash = NoHash \/ faults' > 0,
           UNCHANGED <<identity, drawn>>,
           StatusChange,
           request' \in [Hashes -> RequestRecords],
           \A x \in Hashes : request'[x].used = request[x].used,
           refreshOf' \in [UserIds -> 0 .. Len(sessions)],
           \A u \in UserIds : refreshOf'[u] = 0 \/ refreshOf'[u] = refreshOf[u],
           customers' \subseteq customers, customers \ customers' \subseteq asked,
           asked \subseteq asked', asked' \subseteq Users,
           deleted' \subseteq asked',
           deleted' \subseteq drawn,
           faults' \in Nat, faults' >= faults
    PROVE  IInv'
  <1> USE DEF IInv
  <1>1. /\ SessionIds = 1 .. Len(sessions) /\ Len(sessions) \in Nat
        /\ \A i \in SessionIds : sessions[i] \in SessionRecords
    BY Types
  <1>2. Users' = Users
    BY DEF Users
  <1>3. Grows
    BY <1>1 DEF Grows, StatusChange, TypeOK
  <1>4. TypeOK'
    <2>1. /\ identity' \in [Subjects -> UserIds \cup {NoUser}]
          /\ drawn' \subseteq UserIds /\ customers' \subseteq drawn' /\ asked' \subseteq drawn'
      BY DEF TypeOK, UsersOK
    <2>2. /\ sessions' \in Seq(SessionRecords)
          /\ refreshOf' \in [UserIds -> 0 .. Len(sessions')]
          /\ handler' \in [Handlers -> Records(Len(sessions'))]
      BY DEF StatusChange
    <2>3. QED
      BY <2>1, <2>2 DEF TypeOK, SessionRecords, RequestRecords, Records
  <1>5. UsersOK' /\ UserIsCustomer'
    BY <1>2 DEF UsersOK, UserIsCustomer
  <1>6. SessionsOK'
    <2>1. \A i \in SessionIds : sessions[i].via \in Hashes \cup {NoHash}
      BY <1>1 DEF SessionRecords
    <2>2. QED
      BY <1>2, <2>1 DEF SessionsOK, StatusChange
  <1>7. RefreshStaysInAccount'
    <2>1. \A u \in UserIds : refreshOf[u] # 0 => refreshOf[u] \in SessionIds
      BY <1>1 DEF TypeOK
    <2>2. QED
      BY <2>1 DEF RefreshStaysInAccount, StatusChange
  <1>8. \A g \in Handlers : HandlerOK(g)'
    <2> SUFFICES ASSUME NEW g \in Handlers, g \notin M PROVE HandlerOK(g)'
      OBVIOUS
    <2>1. At(g, "insert") => handler[g].user \in customers' \ Users'
      BY <1>2 DEF HandlerOK
    <2>2. QED
      BY <1>3, <2>1, OtherHandler DEF StatusChange
  <1>9. Apart'
    BY DEF Apart, Consuming
  <1>10. ConsumedIsSignedIn'
    <2> SUFFICES ASSUME NEW x \in Hashes, request[x].used, ~(faults' > 0), asked' = {},
                        \A i \in SessionIds : sessions[i].via # x
                 PROVE  \E g \in Handlers : handler'[g].hash = x /\ handler'[g].pc # "claim"
      BY DEF ConsumedIsSignedIn, StatusChange
    <2>1. ~(faults > 0) /\ asked = {}
      BY <1>3 DEF Grows
    <2>2. PICK g \in Handlers : handler[g].hash = x /\ handler[g].pc # "claim"
      BY <2>1 DEF ConsumedIsSignedIn
    <2>3. QED
      BY <2>2
  <1>11. QED
    BY <1>4, <1>5, <1>6, <1>7, <1>8, <1>9, <1>10

LEMMA SameSessions ==
    ASSUME TypeOK, sessions' = sessions PROVE StatusChange
  BY Types DEF StatusChange, SessionIds

LEMMA MessengerKeepsIInv ==
    ASSUME IInv, Messenger
    PROVE  IInv'
  <1> USE DEF IInv
  <1>1. /\ UNCHANGED <<identity, deleted, refreshOf, sessions, drawn, customers,
                       handler, asked, faults>>
        /\ \E x \in Hashes : \/ request' = [request EXCEPT ![x].open = TRUE]
                             \/ request' = [request EXCEPT ![x].expired = TRUE]
                             \/ \E s \in Subjects : request' = [request EXCEPT ![x].subject = s]
    BY DEF Messenger, authSocialMessenger, Expire, WritePhone
  <1>2. /\ request' \in [Hashes -> RequestRecords]
        /\ \A x \in Hashes : request'[x].used = request[x].used
    <2>1. request \in [Hashes -> RequestRecords]
      BY DEF TypeOK, RequestRecords
    <2>2. PICK x \in Hashes : \/ request' = [request EXCEPT ![x].open = TRUE]
                              \/ request' = [request EXCEPT ![x].expired = TRUE]
                              \/ \E s \in Subjects :
                                     request' = [request EXCEPT ![x].subject = s]
      BY <1>1
    <2>3. \E r \in RequestRecords : r.used = request[x].used
                                    /\ request' = [request EXCEPT ![x] = r]
      <3>1. request[x] \in RequestRecords
        BY <2>1
      <3>2. CASE request' = [request EXCEPT ![x].open = TRUE]
        <4> DEFINE r == [request[x] EXCEPT !.open = TRUE]
        <4>1. r \in RequestRecords /\ r.used = request[x].used
          BY <3>1 DEF RequestRecords
        <4>2. request' = [request EXCEPT ![x] = r]
          BY <2>1, <3>1, <3>2 DEF RequestRecords
        <4>3. QED
          BY <4>1, <4>2
      <3>3. CASE request' = [request EXCEPT ![x].expired = TRUE]
        <4> DEFINE r == [request[x] EXCEPT !.expired = TRUE]
        <4>1. r \in RequestRecords /\ r.used = request[x].used
          BY <3>1 DEF RequestRecords
        <4>2. request' = [request EXCEPT ![x] = r]
          BY <2>1, <3>1, <3>3 DEF RequestRecords
        <4>3. QED
          BY <4>1, <4>2
      <3>4. ASSUME NEW s \in Subjects, request' = [request EXCEPT ![x].subject = s]
            PROVE  \E r \in RequestRecords : r.used = request[x].used
                                             /\ request' = [request EXCEPT ![x] = r]
        <4> DEFINE r == [request[x] EXCEPT !.subject = s]
        <4>1. r \in RequestRecords /\ r.used = request[x].used
          BY <3>1 DEF RequestRecords
        <4>2. request' = [request EXCEPT ![x] = r]
          BY <2>1, <3>1, <3>4 DEF RequestRecords
        <4>3. QED
          BY <4>1, <4>2
      <3>5. QED
        BY <2>2, <3>2, <3>3, <3>4
    <2>4. QED
      BY <2>1, <2>3
  <1>3. /\ handler' \in [Handlers -> Records(Len(sessions))] /\ StatusChange
        /\ refreshOf' \in [UserIds -> 0 .. Len(sessions)]
        /\ deleted' \subseteq drawn
        /\ asked' \subseteq Users /\ deleted' \subseteq asked'
        /\ faults' \in Nat /\ faults' >= faults
    BY <1>1, Types, SameSessions DEF TypeOK, UsersOK
  <1>4. {} \in SUBSET Handlers
    OBVIOUS
  <1>5. \A g \in Handlers \ {} : handler'[g] = handler[g]
    BY <1>1
  <1> HIDE DEF IInv
  <1>6. QED
    BY <1>1, <1>2, <1>3, <1>4, <1>5, QuietKeepsIInv

LEMMA SignOutKeepsIInv ==
    ASSUME IInv, NEW i \in SessionIds, SignOut(i)
    PROVE  IInv'
  <1> DEFINE r == [sessions[i] EXCEPT !.revoked = TRUE]
  <1>1. /\ sessions \in Seq(SessionRecords) /\ sessions[i] \in SessionRecords
        /\ SessionIds = 1 .. Len(sessions)
    BY Types DEF IInv
  <1>2. r \in SessionRecords /\ r.owner = sessions[i].owner /\ r.via = sessions[i].via
    BY <1>1 DEF SessionRecords
  <1>3. sessions' = [sessions EXCEPT ![i] = r]
    BY <1>1 DEF SignOut, SessionRecords
  <1> HIDE DEF r
  <1>4. /\ sessions' \in Seq(SessionRecords) /\ Len(sessions') = Len(sessions)
        /\ \A j \in 1 .. Len(sessions) : sessions'[j] = IF j = i THEN r ELSE sessions[j]
    BY <1>1, <1>2, <1>3, ExceptSeq
  <1>5. SessionIds' = SessionIds
    BY <1>1, <1>4, LenProperties DEF SessionIds
  <1>6. StatusChange
    BY <1>1, <1>2, <1>4, <1>5 DEF StatusChange
  <1>7. /\ UNCHANGED <<identity, deleted, refreshOf, request, drawn, customers,
                       handler, asked, faults>>
        /\ handler' \in [Handlers -> Records(Len(sessions))]
        /\ refreshOf' \in [UserIds -> 0 .. Len(sessions)]
        /\ request' \in [Hashes -> RequestRecords]
        /\ deleted' \subseteq drawn
        /\ asked' \subseteq Users /\ deleted' \subseteq asked'
        /\ faults' \in Nat /\ faults' >= faults
    BY Types DEF SignOut, IInv, TypeOK, UsersOK, RequestRecords
  <1>8. {} \in SUBSET Handlers /\ \A g \in Handlers \ {} : handler'[g] = handler[g]
    BY <1>7
  <1>9. QED
    BY <1>6, <1>7, <1>8, QuietKeepsIInv

\* deleteAccount is about a user there is.
LEMMA AskKeepsIInv ==
    ASSUME IInv, NEW h \in Handlers, NEW i \in SessionIds, deleteAccount(h, i)
    PROVE  IInv'
  <1> DEFINE u == sessions[i].owner
             r == [Idle EXCEPT !.pc = "shop", !.user = u]
  <1>1. /\ UNCHANGED <<dbVars, drawn, customers, faults>>
        /\ At(h, "idle") /\ handler[h].hash = NoHash
        /\ handler' = [handler EXCEPT ![h] = r] /\ asked' = asked \cup {u}
    BY DEF deleteAccount, Begin, IInv, HandlerOK
  <1>2. u \in Users /\ u \in UserIds
    BY Types DEF IInv, SessionsOK
  <1> HIDE DEF u
  <1>3. Idle \in Records(Len(sessions)) /\ "shop" \in Steps
    BY IdleRecord DEF IInv
  <1> HIDE DEF Steps
  <1>4. /\ r \in Records(Len(sessions))
        /\ r.pc = "shop" /\ r.user = u /\ r.subject = NoSubject /\ r.hash = NoHash
    BY <1>2, <1>3 DEF Records, Idle
  <1>5. Moves(h) /\ handler'[h] = r
    BY <1>1, <1>4, MovesTo DEF IInv
  <1>6. u \in Users'
    BY <1>1, <1>2 DEF Users, dbVars
  <1>7. HandlerOK(h)' /\ ~At(h, "insert")' /\ ~Consuming(h)'
    <2>1. u \in asked'
      BY <1>1
    <2> HIDE DEF r
    <2>2. QED
      BY <1>4, <1>5, <1>6, <2>1 DEF HandlerOK, Consuming
  <1>8. /\ StatusChange
        /\ refreshOf' \in [UserIds -> 0 .. Len(sessions)]
        /\ request' \in [Hashes -> RequestRecords]
        /\ deleted' \subseteq drawn
        /\ asked' \subseteq Users /\ deleted' \subseteq asked'
        /\ faults' \in Nat /\ faults' >= faults
    BY <1>1, <1>2, SameSessions DEF IInv, TypeOK, UsersOK, RequestRecords, dbVars
  <1>9. {h} \in SUBSET Handlers
    OBVIOUS
  <1>10. QED
    BY <1>1, <1>5, <1>7, <1>8, <1>9, QuietKeepsIInv, ZenonT(40) DEF Moves, dbVars

\* The account at Saleor is removed, or its removal fails and is logged.
LEMMA ShopKeepsIInv ==
    ASSUME IInv, NEW h \in Handlers, DeleteCustomer(h) \/ DeleteCustomerFails(h)
    PROVE  IInv'
  <1>1. /\ UNCHANGED <<dbVars, drawn, asked>>
        /\ At(h, "shop") /\ Goto(h, "revoke")
        /\ customers' \subseteq customers /\ customers \ customers' \subseteq {handler[h].user}
        /\ faults' \in Nat /\ faults' >= faults
    BY DEF DeleteCustomer, DeleteCustomerFails, IInv, TypeOK
  <1>2. /\ Moves(h) /\ At(h, "revoke")' /\ handler'[h].user = handler[h].user
        /\ handler'[h].subject = handler[h].subject /\ handler'[h].hash = handler[h].hash
    BY <1>1, GotoMoves DEF IInv
  <1>3. /\ handler[h].user \in Users /\ handler[h].user \in asked
        /\ handler[h].subject = NoSubject /\ handler[h].hash = NoHash
    BY <1>1 DEF IInv, HandlerOK
  <1>4. HandlerOK(h)' /\ ~At(h, "insert")' /\ ~Consuming(h)'
    BY <1>1, <1>2, <1>3 DEF HandlerOK, Consuming, Users, dbVars
  <1>5. /\ StatusChange
        /\ refreshOf' \in [UserIds -> 0 .. Len(sessions)]
        /\ request' \in [Hashes -> RequestRecords]
        /\ deleted' \subseteq drawn
        /\ asked' \subseteq Users /\ deleted' \subseteq asked'
    BY <1>1, SameSessions DEF IInv, TypeOK, UsersOK, RequestRecords, dbVars
  <1>6. {h} \in SUBSET Handlers /\ customers \ customers' \subseteq asked
    BY <1>1, <1>3
  <1>7. QED
    BY <1>1, <1>2, <1>3, <1>4, <1>5, <1>6, QuietKeepsIInv DEF Moves, dbVars

LEMMA RevokeKeepsIInv ==
    ASSUME IInv, NEW h \in Handlers, RevokeSessions(h)
    PROVE  IInv'
  <1>1. /\ UNCHANGED <<identity, deleted, refreshOf, request, drawn, customers, asked, faults>>
        /\ At(h, "revoke") /\ Goto(h, "delete")
    BY DEF RevokeSessions
  <1>2. /\ Moves(h) /\ At(h, "delete")' /\ handler'[h].user = handler[h].user
        /\ handler'[h].subject = handler[h].subject /\ handler'[h].hash = handler[h].hash
    BY <1>1, GotoMoves DEF IInv
  <1>3. /\ handler[h].user \in Users /\ handler[h].user \in asked
        /\ handler[h].subject = NoSubject /\ handler[h].hash = NoHash
    BY <1>1 DEF IInv, HandlerOK
  <1>4. HandlerOK(h)' /\ ~At(h, "insert")' /\ ~Consuming(h)'
    BY <1>1, <1>2, <1>3 DEF HandlerOK, Consuming, Users
  <1>5. StatusChange
    <2> DEFINE revoked(i) == IF sessions[i].owner = handler[h].user
                             THEN [sessions[i] EXCEPT !.revoked = TRUE]
                             ELSE sessions[i]
    <2>1. /\ SessionIds = 1 .. Len(sessions) /\ Len(sessions) \in Nat
          /\ \A i \in SessionIds : sessions[i] \in SessionRecords
      BY Types DEF IInv
    <2>2. \A i \in SessionIds : /\ revoked(i) \in SessionRecords
                                /\ revoked(i).owner = sessions[i].owner
                                /\ revoked(i).via = sessions[i].via
      BY <2>1 DEF SessionRecords
    <2>3. sessions' = [i \in SessionIds |-> revoked(i)]
      BY DEF RevokeSessions
    <2> HIDE DEF revoked
    <2>4. sessions' \in [1 .. Len(sessions) -> SessionRecords]
      BY <2>1, <2>2, <2>3
    <2>5. sessions' \in Seq(SessionRecords)
      BY <2>1, <2>4, SeqDef
    <2>6. SessionIds' = SessionIds
      BY <2>1, <2>4 DEF SessionIds
    <2>7. Len(sessions') \in Nat /\ SessionIds' = 1 .. Len(sessions')
      BY <2>5, LenProperties DEF SessionIds
    <2>8. Len(sessions') = Len(sessions)
      BY <2>1, <2>6, <2>7
    <2>9. QED
      BY <2>2, <2>3, <2>5, <2>6, <2>8 DEF StatusChange
  <1>6. /\ refreshOf' \in [UserIds -> 0 .. Len(sessions)]
        /\ request' \in [Hashes -> RequestRecords]
        /\ deleted' \subseteq drawn
        /\ asked' \subseteq Users /\ deleted' \subseteq asked'
        /\ faults' \in Nat /\ faults' >= faults
    BY <1>1 DEF IInv, TypeOK, UsersOK, RequestRecords
  <1>7. {h} \in SUBSET Handlers
    OBVIOUS
  <1>8. QED
    BY <1>1, <1>2, <1>3, <1>4, <1>5, <1>6, <1>7, QuietKeepsIInv DEF Moves

LEMMA SoftDeleteKeepsIInv ==
    ASSUME IInv, NEW h \in Handlers, SoftDelete(h)
    PROVE  IInv'
  <1>1. /\ UNCHANGED <<identity, sessions, request, drawn, customers, asked, faults>>
        /\ At(h, "delete") /\ Leave(h)
        /\ deleted' = deleted \cup {handler[h].user}
        /\ refreshOf' = [refreshOf EXCEPT ![handler[h].user] = 0]
    BY DEF SoftDelete
  <1>2. Moves(h) /\ handler'[h] = Idle
    BY <1>1, IdleRecord, MovesTo DEF IInv, Leave
  <1>3. /\ handler[h].user \in Users /\ handler[h].user \in asked
        /\ handler[h].subject = NoSubject /\ handler[h].hash = NoHash
    BY <1>1 DEF IInv, HandlerOK
  <1>4. HandlerOK(h)' /\ ~At(h, "insert")' /\ ~Consuming(h)'
    BY <1>2 DEF HandlerOK, Consuming, Idle
  <1>5. 0 \in 0 .. Len(sessions)
    BY Types DEF IInv
  <1>6. /\ refreshOf' \in [UserIds -> 0 .. Len(sessions)]
        /\ \A u \in UserIds : refreshOf'[u] = 0 \/ refreshOf'[u] = refreshOf[u]
    BY <1>1, <1>5 DEF IInv, TypeOK
  <1>7. /\ StatusChange
        /\ request' \in [Hashes -> RequestRecords]
        /\ deleted' \subseteq drawn
        /\ asked' \subseteq Users /\ deleted' \subseteq asked'
        /\ faults' \in Nat /\ faults' >= faults
    BY <1>1, <1>3, SameSessions DEF IInv, TypeOK, UsersOK, RequestRecords
  <1>8. {h} \in SUBSET Handlers
    OBVIOUS
  <1>9. QED
    BY <1>1, <1>2, <1>3, <1>4, <1>6, <1>7, <1>8, QuietKeepsIInv, ZenonT(40) DEF Moves

LEMMA DieKeepsIInv ==
    ASSUME IInv, NEW h \in Handlers, Die(h)
    PROVE  IInv'
  <1>1. /\ Leave(h)
        /\ UNCHANGED <<dbVars, drawn, customers, asked>>
        /\ faults' \in Nat /\ faults' >= faults /\ faults' > 0
    BY DEF Die, IInv, TypeOK
  <1>2. QED
    BY <1>1, LeaveKeepsIInv

-----------------------------------------------------------------------------
(* A user and a session are made                                           *)

\* The id is fresh, so no other handler makes this user.
LEMMA ProvisionKeepsIInv ==
    ASSUME IInv, NEW h \in Handlers, Provision(h) \/ ProvisionFails(h)
    PROVE  IInv'
  <1>1. /\ At(h, "provision") /\ UNCHANGED <<dbVars, asked>>
        /\ faults' \in Nat /\ faults' >= faults
    BY DEF Provision, ProvisionFails, IInv, TypeOK
  <1>2. PICK u \in UserIds \ drawn :
            /\ drawn' = drawn \cup {u}
            /\ customers' = customers \/ customers' = customers \cup {u}
            /\ \/ GotoAs(h, "insert", u) /\ customers' = customers \cup {u}
               \/ Goto(h, "refind") /\ faults' > 0
    <2>1. CASE Provision(h)
      BY <2>1 DEF Provision, GotoAs
    <2>2. CASE ProvisionFails(h)
      <3>1. faults' > 0 /\ Goto(h, "refind")
        BY <2>2 DEF ProvisionFails, IInv, TypeOK
      <3>2. QED
        BY <2>2, <3>1 DEF ProvisionFails
    <2>3. QED
      BY <2>1, <2>2
  <1>3. /\ Moves(h)
        /\ handler'[h].subject = handler[h].subject /\ handler'[h].hash = handler[h].hash
        /\ \/ At(h, "insert")' /\ handler'[h].user = u /\ u \in customers'
           \/ At(h, "refind")' /\ faults' > 0
    BY <1>2, GotoMoves, GotoAsMoves DEF IInv
  <1>4. SessionIds' = SessionIds /\ Users' = Users
    BY <1>1 DEF SessionIds, Users, dbVars
  <1>5. Grows
    BY <1>1, <1>2, <1>4 DEF Grows, dbVars, IInv, TypeOK
  <1>6. TypeOK'
    BY <1>1, <1>2, <1>3 DEF IInv, TypeOK, Moves, Records, dbVars
  <1>7. UsersOK' /\ UserIsCustomer' /\ RefreshStaysInAccount' /\ SessionsOK'
    BY <1>1, <1>2, <1>4 DEF IInv, UsersOK, UserIsCustomer, RefreshStaysInAccount,
                            SessionsOK, dbVars
  <1>8. HandlerOK(h)'
    <2>1. HandlerOK(h) /\ u \notin Users
      BY <1>2 DEF IInv, UsersOK
    <2>2. Consuming(h)' => Consuming(h)
      BY <1>1, <1>3 DEF Consuming
    <2>3. /\ handler'[h].subject \in Subjects
          /\ Consuming(h)' => /\ request'[handler'[h].hash].used
                              /\ \A i \in SessionIds' : sessions'[i].via # handler'[h].hash
      BY <1>1, <1>3, <1>4, <2>1, <2>2 DEF HandlerOK, dbVars
    <2>4. At(h, "insert")' => handler'[h].user \in (drawn' \cap customers') \ Users'
      BY <1>2, <1>3, <1>4, <2>1
    <2>5. QED
      BY <1>3, <2>3, <2>4 DEF HandlerOK
  <1>9. ConsumedIsSignedIn'
    BY <1>1, <1>3, <1>5, ConsumedKept DEF Moves, dbVars
  <1>10. \A g \in Handlers \ {h} : At(g, "insert") =>
            handler[g].user \in customers' \ Users' /\ handler[g].user # u
    BY <1>2, <1>4 DEF IInv, HandlerOK
  <1>11. \A g \in Handlers \ {h} : Consuming(g) /\ Consuming(h)' =>
            handler[g].hash # handler'[h].hash
    BY <1>1, <1>3 DEF IInv, Apart, Consuming
  <1>12. QED
    BY <1>3, <1>4, <1>5, <1>6, <1>7, <1>8, <1>9, <1>10, <1>11, StepKeepsIInv DEF Moves

\* The transaction inserts the handler's user, or finds the subject taken.
LEMMA InsertKeepsIInv ==
    ASSUME IInv, NEW h \in Handlers, Insert(h) \/ InsertFails(h)
    PROVE  IInv'
  <1> DEFINE s == handler[h].subject
             u == handler[h].user
  <1>1. /\ At(h, "insert")
        /\ UNCHANGED <<deleted, refreshOf, sessions, request, drawn, customers, asked>>
        /\ faults' \in Nat /\ faults' >= faults
    BY DEF Insert, InsertFails, IInv, TypeOK
  <1>2. /\ s \in Subjects /\ u \in (drawn \cap customers) \ Users /\ u \in UserIds
    BY <1>1, Types DEF IInv, HandlerOK
  <1>3. \/ /\ identity' = identity /\ Goto(h, "refind")
           /\ faults' > 0 \/ identity[s] # NoUser
        \/ /\ identity[s] = NoUser /\ identity' = [identity EXCEPT ![s] = u]
           /\ Goto(h, "tokens") \/ (Goto(h, "refind") /\ faults' > 0)
    <2>1. CASE Insert(h)
      BY <2>1 DEF Insert
    <2>2. CASE InsertFails(h)
      <3>1. /\ faults' > 0 /\ Goto(h, "refind")
            /\ \/ identity' = identity
               \/ identity' = [identity EXCEPT ![s] = IF @ = NoUser THEN u ELSE @]
        BY <2>2 DEF InsertFails, IInv, TypeOK
      <3>2. CASE identity[s] = NoUser
        BY <1>2, <3>1, <3>2 DEF IInv, TypeOK
      <3>3. CASE identity[s] # NoUser
        <4>1. identity' = identity
          BY <1>2, <3>1, <3>3 DEF IInv, TypeOK
        <4>2. QED
          BY <3>1, <4>1
      <3>4. QED
        BY <3>2, <3>3
    <2>3. QED
      BY <2>1, <2>2
  <1>4. /\ Moves(h)
        /\ At(h, "tokens")' \/ At(h, "refind")'
        /\ handler'[h].subject = s /\ handler'[h].hash = handler[h].hash
        /\ handler'[h].user = u
    BY <1>3, GotoMoves DEF IInv
  <1>5. /\ identity' \in [Subjects -> UserIds \cup {NoUser}]
        /\ \A t \in Subjects : identity[t] # NoUser => identity'[t] = identity[t]
        /\ Users' \subseteq Users \cup {u}
        /\ At(h, "tokens")' => identity'[s] = u /\ u \in Users'
        /\ At(h, "refind")' => faults' > 0 \/ identity'[s] # NoUser
    <2>1. identity \in [Subjects -> UserIds \cup {NoUser}]
      BY DEF IInv, TypeOK
    <2>2. CASE identity' = identity /\ Goto(h, "refind")
      <3>1. At(h, "refind")'
        BY <2>2, GotoMoves DEF IInv
      <3>2. Users' = Users
        BY <2>2 DEF Users
      <3>3. faults' > 0 \/ identity'[s] # NoUser
        BY <1>2, <1>3, <2>1, <2>2
      <3>4. QED
        BY <2>1, <2>2, <3>1, <3>2, <3>3
    <2>3. CASE identity[s] = NoUser /\ identity' = [identity EXCEPT ![s] = u]
      <3>1. identity'[s] = u /\ u # NoUser
        BY <1>2, <2>1, <2>3
      <3>2. QED
        BY <1>2, <2>1, <2>3, <3>1 DEF Users
    <2>4. QED
      BY <1>3, <2>2, <2>3
  <1>6. SessionIds' = SessionIds
    BY <1>1 DEF SessionIds
  <1>7. Grows
    BY <1>1, <1>5, <1>6 DEF Grows, IInv, TypeOK
  <1>8. Users \subseteq Users'
    BY <1>7, GrownUsers
  <1> HIDE DEF s, u
  <1>9. TypeOK'
    BY <1>1, <1>4, <1>5 DEF IInv, TypeOK, Moves, Records
  <1>10. UsersOK' /\ UserIsCustomer' /\ RefreshStaysInAccount' /\ SessionsOK'
    BY <1>1, <1>2, <1>5, <1>6, <1>8 DEF IInv, UsersOK, UserIsCustomer,
                                        RefreshStaysInAccount, SessionsOK
  <1>11. HandlerOK(h)'
    <2>1. HandlerOK(h)
      BY DEF IInv
    <2>2. Consuming(h)' => Consuming(h)
      BY <1>1, <1>4 DEF Consuming
    <2>3. Consuming(h)' => /\ request'[handler'[h].hash].used
                           /\ \A i \in SessionIds' : sessions'[i].via # handler'[h].hash
      BY <1>1, <1>4, <1>6, <2>1, <2>2 DEF HandlerOK
    <2>4. QED
      BY <1>2, <1>4, <1>5, <2>3 DEF HandlerOK
  <1>12. ConsumedIsSignedIn'
    BY <1>1, <1>4, <1>7, ConsumedKept DEF Moves
  <1>13. \A g \in Handlers \ {h} : At(g, "insert") => handler[g].user \in customers' \ Users'
    BY <1>1, <1>5 DEF IInv, HandlerOK, Apart, u
  <1>14. \A g \in Handlers \ {h} : Consuming(g) /\ Consuming(h)' =>
            handler[g].hash # handler'[h].hash
    BY <1>1, <1>4 DEF IInv, Apart, Consuming
  <1>15. ~At(h, "insert")'
    BY <1>4
  <1>16. QED
    BY <1>4, <1>6, <1>7, <1>9, <1>10, <1>11, <1>12, <1>13, <1>14, <1>15, StepKeepsIInv
       DEF Moves

\* The new row is the only one of its hash.
LEMMA CreateKeepsIInv ==
    ASSUME IInv, NEW h \in Handlers, CreateSession(h)
    PROVE  IInv'
  <1> DEFINE n == Len(sessions) + 1
             row == [owner |-> handler[h].user, revoked |-> FALSE, via |-> handler[h].hash]
             r == [handler[h] EXCEPT !.pc = "keep", !.session = n]
  <1>1. /\ At(h, "session") /\ sessions' = Append(sessions, row)
        /\ UNCHANGED <<identity, deleted, refreshOf, request, drawn, customers, asked, faults>>
    BY DEF CreateSession
  <1>2. /\ handler[h].user \in Users /\ Users \subseteq UserIds
        /\ handler[h] \in Records(Len(sessions))
        /\ handler \in [Handlers -> Records(Len(sessions))]
        /\ sessions \in Seq(SessionRecords)
        /\ Len(sessions) \in Nat /\ SessionIds = 1 .. Len(sessions)
        /\ \A i \in SessionIds : sessions[i] \in SessionRecords
    BY <1>1, Types DEF IInv, HandlerOK
  <1>3. row \in SessionRecords
    BY <1>2 DEF SessionRecords, Records
  <1>4. /\ sessions' \in Seq(SessionRecords) /\ Len(sessions') = n
        /\ \A i \in 1 .. Len(sessions) : sessions'[i] = sessions[i]
        /\ sessions'[n] = row
    <2> HIDE DEF row
    <2>1. QED
      BY <1>1, <1>2, <1>3
  <1>5. /\ SessionIds' = SessionIds \cup {n} /\ n \notin SessionIds
        /\ \A i \in SessionIds : sessions'[i] = sessions[i]
    <2>1. SessionIds' = 1 .. n
      BY <1>4, LenProperties DEF SessionIds
    <2>2. QED
      BY <1>2, <1>4, <2>1
  <1>6. Users' = Users
    BY <1>1 DEF Users
  <1>7. /\ handler' \in [Handlers -> Records(n)]
        /\ \A g \in Handlers \ {h} : handler'[g] = handler[g]
        /\ At(h, "keep")' /\ handler'[h].user = handler[h].user /\ handler'[h].session = n
        /\ handler'[h].hash = handler[h].hash /\ handler'[h].subject = handler[h].subject
    <2>1. handler' = [handler EXCEPT ![h] = r]
      BY <1>2 DEF CreateSession, Records
    <2>2. \A x \in Records(Len(sessions)) : x \in Records(n)
      BY <1>2 DEF Records
    <2>3. /\ r \in Records(n) /\ r.pc = "keep" /\ r.session = n
          /\ r.user = handler[h].user /\ r.hash = handler[h].hash
          /\ r.subject = handler[h].subject
      <3>1. "keep" \in Steps /\ n \in 0 .. n
        BY <1>2
      <3>2. handler[h] \in Records(n)
        BY <1>2, <2>2
      <3> HIDE DEF Steps, n
      <3>3. QED
        BY <3>1, <3>2 DEF Records
    <2> HIDE DEF r
    <2>4. QED
      BY <1>2, <2>1, <2>2, <2>3
  <1>8. Grows
    BY <1>1, <1>5 DEF Grows
  <1>9. TypeOK'
    <2>1. \A u \in UserIds : refreshOf[u] \in 0 .. n
      BY <1>2 DEF IInv, TypeOK
    <2>2. refreshOf' \in [UserIds -> 0 .. n]
      BY <1>1, <2>1 DEF IInv, TypeOK
    <2>3. /\ sessions' \in Seq(SessionRecords)
          /\ refreshOf' \in [UserIds -> 0 .. Len(sessions')]
          /\ handler' \in [Handlers -> Records(Len(sessions'))]
      BY <1>4, <1>7, <2>2
    <2> HIDE DEF n
    <2>4. QED
      BY <1>1, <2>3 DEF IInv, TypeOK, SessionRecords, Records
  <1>10. UsersOK' /\ UserIsCustomer'
    BY <1>1, <1>6 DEF IInv, UsersOK, UserIsCustomer
  <1>11. RefreshStaysInAccount'
    <2>1. \A u \in UserIds : refreshOf[u] # 0 => refreshOf[u] \in SessionIds
      BY <1>2 DEF IInv, TypeOK
    <2>2. QED
      BY <1>1, <1>5, <2>1 DEF IInv, RefreshStaysInAccount
  <1> HIDE DEF n
  <1>12. handler[h].hash # NoHash =>
             /\ request[handler[h].hash].used
             /\ \A i \in SessionIds : sessions[i].via # handler[h].hash
    BY <1>1 DEF IInv, HandlerOK, Consuming
  <1>13. SessionsOK'
    <2>1. row.owner \in Users' /\ row.via = handler[h].hash
      BY <1>2, <1>6
    <2> HIDE DEF row
    <2>2. ASSUME NEW i \in SessionIds'
          PROVE  /\ sessions'[i].owner \in Users'
                 /\ sessions'[i].via # NoHash =>
                        /\ request'[sessions'[i].via].used
                        /\ \A j \in SessionIds' : sessions'[j].via = sessions'[i].via => j = i
      <3>1. CASE i = n
        BY <1>1, <1>4, <1>5, <1>12, <2>1, <3>1, ZenonT(40)
      <3>2. CASE i \in SessionIds
        <4>1. sessions'[i] = sessions[i] /\ i # n
          BY <1>5, <3>2
        <4>2. sessions[i].via # NoHash => sessions'[n].via # sessions[i].via
          BY <1>4, <1>12, <2>1, <3>2
        <4>3. /\ sessions[i].owner \in Users
              /\ sessions[i].via # NoHash =>
                     /\ request[sessions[i].via].used
                     /\ \A j \in SessionIds : sessions[j].via = sessions[i].via => j = i
          BY <3>2 DEF IInv, SessionsOK
        <4>4. \A j \in SessionIds' : sessions'[j].via = sessions[i].via /\ j # n =>
                  j \in SessionIds /\ sessions[j].via = sessions[i].via
          BY <1>5
        <4>5. QED
          BY <1>1, <1>6, <4>1, <4>2, <4>3, <4>4
      <3>3. QED
        BY <1>5, <2>2, <3>1, <3>2
    <2>3. QED
      BY <2>2 DEF SessionsOK
  <1>14. HandlerOK(h)'
    <2>1. /\ n \in SessionIds' /\ sessions'[n].owner = handler[h].user
          /\ sessions'[n].via = handler[h].hash
      BY <1>4, <1>5
    <2>2. handler[h].subject # NoSubject => handler[h].user = identity'[handler[h].subject]
      BY <1>1 DEF IInv, HandlerOK
    <2>3. QED
      BY <1>2, <1>6, <1>7, <2>1, <2>2 DEF HandlerOK, Consuming
  <1>15. ConsumedIsSignedIn'
    BY <1>1, <1>7, <1>8, ConsumedKept
  <1>16. \A g \in Handlers \ {h} :
             /\ At(g, "insert") => handler[g].user \in customers' \ Users'
             /\ Consuming(g) => \A i \in SessionIds' \ SessionIds :
                                    sessions'[i].via # handler[g].hash
    <2> SUFFICES ASSUME NEW g \in Handlers \ {h}
                 PROVE  /\ At(g, "insert") => handler[g].user \in customers' \ Users'
                        /\ Consuming(g) => \A i \in SessionIds' \ SessionIds :
                                               sessions'[i].via # handler[g].hash
      OBVIOUS
    <2>1. At(g, "insert") => handler[g].user \in customers' \ Users'
      BY <1>1, <1>6 DEF IInv, HandlerOK
    <2>2. Consuming(g) => handler[g].hash # handler[h].hash
      BY <1>1 DEF IInv, Apart, Consuming
    <2>3. sessions'[n].via = handler[h].hash
      BY <1>4
    <2>4. QED
      BY <1>5, <2>1, <2>2, <2>3
  <1>17. ~At(h, "insert")' /\ ~Consuming(h)'
    BY <1>7 DEF Consuming
  <1>18. QED
    BY <1>7, <1>8, <1>9, <1>10, <1>11, <1>13, <1>14, <1>15, <1>16, <1>17, StepKeepsIInv

LEMMA KeepKeepsIInv ==
    ASSUME IInv, NEW h \in Handlers, KeepRefresh(h)
    PROVE  IInv'
  <1> DEFINE u == handler[h].user
             i == handler[h].session
  <1>1. /\ At(h, "keep") /\ Leave(h)
        /\ refreshOf' = [refreshOf EXCEPT ![u] = i]
        /\ UNCHANGED <<identity, deleted, sessions, request, drawn, customers, asked, faults>>
    BY DEF KeepRefresh
  <1>2. /\ i \in SessionIds /\ sessions[i].owner = u
        /\ handler[h].hash # NoHash => sessions[i].via = handler[h].hash
    BY <1>1 DEF IInv, HandlerOK
  <1>3. SessionIds' = SessionIds /\ Users' = Users
    BY <1>1 DEF SessionIds, Users
  <1>4. Moves(h) /\ handler'[h] = Idle
    BY <1>1, IdleRecord, MovesTo DEF IInv, Leave
  <1>5. HandlerOK(h)' /\ ~At(h, "insert")' /\ ~Consuming(h)'
    BY <1>4 DEF HandlerOK, Consuming, Idle
  <1>6. Grows
    BY <1>1, <1>3 DEF Grows
  <1>7. refreshOf' \in [UserIds -> 0 .. Len(sessions)]
    <2>1. i \in 0 .. Len(sessions) /\ refreshOf \in [UserIds -> 0 .. Len(sessions)]
      BY <1>2, Types DEF IInv, TypeOK
    <2> HIDE DEF i
    <2>2. QED
      BY <1>1, <2>1
  <1>8. TypeOK'
    BY <1>1, <1>4, <1>7 DEF IInv, TypeOK, Moves, Records
  <1>9. UsersOK' /\ UserIsCustomer' /\ SessionsOK'
    BY <1>1, <1>3 DEF IInv, UsersOK, UserIsCustomer, SessionsOK
  <1>10. RefreshStaysInAccount'
    <2>1. \A v \in UserIds : refreshOf'[v] = IF v = u THEN i ELSE refreshOf[v]
      BY <1>1 DEF IInv, TypeOK
    <2>2. QED
      BY <1>1, <1>2, <2>1 DEF IInv, RefreshStaysInAccount
  <1>11. ConsumedIsSignedIn'
    BY <1>1, <1>2, <1>3, <1>4, <1>6, ConsumedKept DEF Moves
  <1>12. \A g \in Handlers \ {h} :
             /\ At(g, "insert") => handler[g].user \in customers' \ Users'
             /\ handler'[g] = handler[g]
    BY <1>1, <1>3, <1>4 DEF IInv, HandlerOK, Moves
  <1>13. QED
    BY <1>3, <1>5, <1>6, <1>8, <1>9, <1>10, <1>11, <1>12, StepKeepsIInv

-----------------------------------------------------------------------------
(* The invariant                                                           *)

LEMMA NextIInv ==
    ASSUME IInv, [Next]_vars PROVE IInv'
  <1>1. CASE UNCHANGED vars
    <2>1. UNCHANGED <<dbVars, drawn, customers, handler, asked, faults>>
      BY <1>1 DEF vars
    <2>2. /\ handler' \in [Handlers -> Records(Len(sessions))] /\ StatusChange
          /\ refreshOf' \in [UserIds -> 0 .. Len(sessions)]
          /\ request' \in [Hashes -> RequestRecords]
          /\ deleted' \subseteq drawn
          /\ asked' \subseteq Users /\ deleted' \subseteq asked'
          /\ faults' \in Nat /\ faults' >= faults
      BY <2>1, Types, SameSessions DEF IInv, TypeOK, UsersOK, RequestRecords, dbVars
    <2>3. {} \in SUBSET Handlers /\ \A g \in Handlers \ {} : handler'[g] = handler[g]
      BY <2>1
    <2>4. QED
      BY <2>1, <2>2, <2>3, QuietKeepsIInv DEF dbVars
  <1>2. CASE Messenger
    BY <1>2, MessengerKeepsIInv
  <1>3. ASSUME NEW i \in SessionIds, SignOut(i) PROVE IInv'
    BY <1>3, SignOutKeepsIInv
  <1>4. ASSUME NEW h \in Handlers, Request(h) PROVE IInv'
    <2>1. CASE \E i \in SessionIds : deleteAccount(h, i)
      BY <2>1, AskKeepsIInv
    <2>2. CASE \/ \E x \in Hashes : CheckHash(h, x)
               \/ \E s \in Subjects : Verified(h, s)
               \/ \E u \in UserIds : login(h, u)
               \/ \E i \in SessionIds : Refresh(h, i)
      BY <2>2, BeginKeepsIInv
    <2>3. QED
      BY <1>4, <2>1, <2>2 DEF Request, register, authCallWaitCode, appleSignIn
  <1>5. ASSUME NEW h \in Handlers, Resolve(h) PROVE IInv'
    BY <1>5, ClaimHashKeepsIInv, FindKeepsIInv, ProvisionKeepsIInv, InsertKeepsIInv DEF Resolve
  <1>6. ASSUME NEW h \in Handlers, Issue(h) PROVE IInv'
    BY <1>6, TokensKeepIInv, CreateKeepsIInv, LatestKeepsIInv, KeepKeepsIInv DEF Issue
  <1>7. ASSUME NEW h \in Handlers, Delete(h) PROVE IInv'
    BY <1>7, ShopKeepsIInv, RevokeKeepsIInv, SoftDeleteKeepsIInv DEF Delete
  <1>8. ASSUME NEW h \in Handlers, Fault(h) PROVE IInv'
    BY <1>8, ProvisionKeepsIInv, InsertKeepsIInv, ShopKeepsIInv, DieKeepsIInv DEF Fault
  <1>9. QED
    BY <1>1, <1>2, <1>3, <1>4, <1>5, <1>6, <1>7, <1>8 DEF Next, Step

LEMMA Invariance == Spec => []IInv
  <1>1. Init => IInv
    BY InitIInv
  <1>2. IInv /\ [Next]_vars => IInv'
    BY NextIInv
  <1>3. QED
    BY <1>1, <1>2, PTL DEF Spec

-----------------------------------------------------------------------------
(* Theorems                                                                *)

\* Every variable keeps its type: the tables of auth.service.ts and
\* identity.service.ts refer only to rows there are.
THEOREM TypeCorrect == Spec => []TypeOK
  <1>1. IInv => TypeOK
    BY DEF IInv
  <1>2. QED
    BY <1>1, Invariance, PTL

\* resolveUserByIdentity: however many requests resolve a subject at one time,
\* each that goes on to a session does so for the subject's one user.
THEOREM OneUser == Spec => []ResolvesToOneUser
  <1>1. IInv => ResolvesToOneUser
    BY DEF IInv, HandlerOK, ResolvesToOneUser
  <1>2. QED
    BY <1>1, Invariance, PTL

\* The updateMany on usedAt: any number of polls of a messenger hash create one
\* session between them.
THEOREM HashSingleUse == Spec => []HashIsSingleUse
  <1>1. IInv => HashIsSingleUse
    <2> SUFFICES ASSUME IInv, NEW x \in Hashes
                 PROVE  Cardinality({i \in SessionIds : sessions[i].via = x}) <= 1
      BY DEF HashIsSingleUse
    <2> DEFINE S == {i \in SessionIds : sessions[i].via = x}
    <2>1. \A i, j \in S : i = j
      BY DEF IInv, SessionsOK
    <2>2. CASE S = {}
      BY <2>2, FS_EmptySet
    <2>3. CASE S # {}
      <3>1. PICK i \in S : TRUE
        BY <2>3
      <3>2. S = {i}
        BY <2>1, <3>1
      <3> HIDE DEF S
      <3>3. Cardinality(S) = 1
        BY <3>2, FS_Singleton
      <3>4. QED
        BY <3>3 DEF S
    <2>4. QED
      BY <2>2, <2>3
  <1>2. QED
    BY <1>1, Invariance, PTL

\* The hash is consumed before the user is resolved, and still no sign-in is
\* lost to another request: without a fault or a deletion, whoever consumed the
\* hash is at work or has made its session.
THEOREM ConsumedSignedIn == Spec => []ConsumedIsSignedIn
  <1>1. IInv => ConsumedIsSignedIn
    BY DEF IInv
  <1>2. QED
    BY <1>1, Invariance, PTL

\* createUser provisions Saleor first: a user row has its Saleor account until
\* its owner asks for the deletion, whatever Saleor answers.
THEOREM UserCustomer == Spec => []UserIsCustomer
  <1>1. IInv => UserIsCustomer
    BY DEF IInv
  <1>2. QED
    BY <1>1, Invariance, PTL

\* issueSession and refresh: the refresh token a user's row admits was minted for
\* a session of that user.
THEOREM RefreshInAccount == Spec => []RefreshStaysInAccount
  <1>1. IInv => RefreshStaysInAccount
    BY DEF IInv
  <1>2. QED
    BY <1>1, Invariance, PTL

\* A handler that gets to issueSession, or goes on in it, has a user that was not
\* deleted when it got there.
LEMMA AdmittedAlive ==
    ASSUME IInv, [Next]_vars, NEW g \in Handlers, handler'[g].pc \in Admitted
    PROVE  \/ handler[g].pc \in Admitted /\ handler'[g].user = handler[g].user
           \/ handler'[g].user \notin deleted
  <1> DEFINE Goal == \/ handler[g].pc \in Admitted /\ handler'[g].user = handler[g].user
                     \/ handler'[g].user \notin deleted
             n == Len(sessions)
  <1>1. handler \in [Handlers -> Records(n)] /\ Idle \in Records(n)
    BY Types, IdleRecord DEF IInv
  <1>2. CASE UNCHANGED handler
    BY <1>2
  <1>3. ASSUME NEW h \in Handlers, Leave(h) PROVE Goal
    BY <1>1, <1>3 DEF Leave, Idle
  <1>4. ASSUME NEW h \in Handlers, NEW s \in Steps \ Admitted, Goto(h, s) PROVE Goal
    <2>1. CASE g = h
      BY <1>4, <2>1, GotoMoves DEF IInv
    <2>2. CASE g # h
      BY <1>4, <2>2, GotoMoves DEF IInv, Moves
    <2>3. QED
      BY <2>1, <2>2
  <1>5. ASSUME NEW h \in Handlers, NEW u \in UserIds \ deleted, NEW s \in Steps,
               GotoAs(h, s, u)
        PROVE  Goal
    BY <1>5, GotoAsMoves DEF IInv, Moves
  <1>6. ASSUME NEW h \in Handlers, Request(h) PROVE Goal
    <2>1. CASE g # h
      BY <1>1, <1>6, <2>1 DEF Request, CheckHash, register, authCallWaitCode, appleSignIn,
                              Verified, login, Refresh, deleteAccount, Begin
    <2>2. CASE g = h
      <3>1. ASSUME NEW u \in UserIds, login(h, u) PROVE Goal
        <4>1. handler'[h] = [Idle EXCEPT !.pc = "tokens", !.user = u] /\ u \notin deleted
          BY <1>1, <3>1 DEF login, Begin
        <4>2. QED
          BY <2>2, <4>1 DEF Idle
      <3>2. CASE \E s \in Subjects : Verified(h, s)
        BY <1>1, <2>2, <3>2 DEF Verified, Begin, Idle
      <3>3. CASE \E x \in Hashes : CheckHash(h, x)
        BY <1>1, <2>2, <3>3 DEF CheckHash, Begin, Idle
      <3>4. CASE \E i \in SessionIds : Refresh(h, i) \/ deleteAccount(h, i)
        BY <1>1, <2>2, <3>4, ZenonT(40) DEF Refresh, deleteAccount, Begin, Idle
      <3>5. QED
        BY <1>6, <3>1, <3>2, <3>3, <3>4 DEF Request, register, authCallWaitCode, appleSignIn
    <2>3. QED
      BY <2>1, <2>2
  <1>7. ASSUME NEW h \in Handlers, Resolve(h) PROVE Goal
    <2>1. CASE ClaimHash(h)
      BY <1>3, <1>4, <2>1 DEF ClaimHash
    <2>2. CASE Find(h) \/ Refind(h)
      <3>1. handler[h].subject \in Subjects
        BY <2>2 DEF IInv, HandlerOK, Find, Refind
      <3>2. identity[handler[h].subject] \in UserIds \cup {NoUser}
        BY <3>1 DEF IInv, TypeOK
      <3>3. QED
        BY <1>3, <1>4, <1>5, <2>2, <3>2 DEF Find, Refind, Admit, GotoAs
    <2>3. CASE Provision(h)
      <3>1. PICK u \in UserIds \ drawn : GotoAs(h, "insert", u)
        BY <2>3 DEF Provision, GotoAs
      <3>2. u \notin deleted
        BY <3>1 DEF IInv, TypeOK
      <3>3. QED
        BY <1>5, <3>1, <3>2
    <2>4. CASE Insert(h)
      <3>1. handler[h].user \notin deleted
        BY <2>4 DEF Insert, IInv, HandlerOK, UsersOK
      <3>2. Goto(h, "refind") \/ Goto(h, "tokens")
        BY <2>4 DEF Insert
      <3>3. Moves(h) /\ handler'[h].user = handler[h].user
        BY <3>2, GotoMoves DEF IInv
      <3>4. QED
        BY <3>1, <3>3 DEF Moves
    <2>5. QED
      BY <1>7, <2>1, <2>2, <2>3, <2>4 DEF Resolve
  <1>8. ASSUME NEW h \in Handlers, Issue(h) PROVE Goal
    <2>1. CASE IssueTokens(h)
      <3>1. CASE Goto(h, "session")
        BY <2>1, <3>1, GotoMoves DEF IInv, Moves, IssueTokens
      <3>2. QED
        BY <1>3, <2>1, <3>1 DEF IssueTokens
    <2>2. CASE CreateSession(h)
      BY <1>1, <2>2 DEF CreateSession, Records
    <2>3. CASE Latest(h)
      BY <1>1, <1>3, <2>3 DEF Latest, Records
    <2>4. QED
      BY <1>3, <1>8, <2>1, <2>2, <2>3 DEF Issue, KeepRefresh
  <1>9. ASSUME NEW h \in Handlers, Delete(h) \/ Fault(h) PROVE Goal
    BY <1>3, <1>4, <1>9 DEF Delete, DeleteCustomer, RevokeSessions, SoftDelete, Fault,
                            ProvisionFails, InsertFails, DeleteCustomerFails, Die
  <1>10. QED
    BY <1>2, <1>6, <1>7, <1>8, <1>9 DEF Next, Step, Messenger, authSocialMessenger, Expire,
                                        WritePhone, SignOut, vars

LEMMA GoneStep ==
    ASSUME IInv, [Next]_vars, NEW u \in UserIds, Gone(u)
    PROVE  Gone(u)'
  <1>1. deleted \subseteq deleted'
    BY ZenonT(40) DEF Next, Messenger, authSocialMessenger, Expire, WritePhone, SignOut,
                  Request, CheckHash, register, authCallWaitCode, appleSignIn, Verified,
                  login, Refresh, deleteAccount, Step, Resolve, ClaimHash, Find, Provision,
                  Insert, Refind, Issue, IssueTokens, CreateSession, Latest, KeepRefresh,
                  Delete, DeleteCustomer, RevokeSessions, SoftDelete, Fault,
                  ProvisionFails, InsertFails, DeleteCustomerFails, Die, vars, dbVars
  <1>2. \A g \in Handlers : handler'[g].pc \in Admitted => handler'[g].user # u
    BY AdmittedAlive DEF Gone
  <1>3. QED
    BY <1>1, <1>2 DEF Gone

\* assertUserActive is on every path to a session: a deleted user that no
\* running sign-in found alive is let in by no later step.
THEOREM GoneStays == Spec => GoneStaysGone
  <1>1. ASSUME IInv, [Next]_vars, NEW u \in UserIds, Gone(u)
        PROVE  Gone(u)'
    BY <1>1, GoneStep
  <1>2. IInv /\ [Next]_vars => [\A u \in UserIds : Gone(u) => Gone(u)']_vars
    BY <1>1
  <1>3. QED
    BY <1>2, Invariance, PTL DEF Spec, GoneStaysGone

\* A live session was live before, for the same owner, or was just created by a
\* request that had got to issueSession.
LEMMA LiveComesFrom ==
    ASSUME IInv, [Next]_vars, NEW i \in SessionIds', ~ sessions'[i].revoked
    PROVE  \/ /\ i \in SessionIds /\ ~ sessions[i].revoked
              /\ sessions'[i].owner = sessions[i].owner
           \/ \E h \in Handlers : At(h, "session") /\ handler[h].user = sessions'[i].owner
  <1> DEFINE Goal == \/ /\ i \in SessionIds /\ ~ sessions[i].revoked
                        /\ sessions'[i].owner = sessions[i].owner
                     \/ \E h \in Handlers :
                            At(h, "session") /\ handler[h].user = sessions'[i].owner
  <1>1. /\ sessions \in Seq(SessionRecords) /\ Len(sessions) \in Nat
        /\ SessionIds = 1 .. Len(sessions)
        /\ \A j \in SessionIds : sessions[j] \in SessionRecords
    BY Types DEF IInv
  <1>2. CASE UNCHANGED sessions
    BY <1>2 DEF SessionIds
  <1>3. ASSUME NEW j \in SessionIds, SignOut(j) PROVE Goal
    <2>1. sessions' = [sessions EXCEPT ![j].revoked = TRUE] /\ SessionIds' = SessionIds
      BY <1>1, <1>3, SameSessions DEF SignOut, SessionIds
    <2>2. CASE i = j
      <3>1. sessions'[i] = [sessions[i] EXCEPT !.revoked = TRUE]
        BY <1>1, <2>1, <2>2
      <3>2. QED
        BY <1>1, <1>3, <2>2, <3>1 DEF SessionRecords
    <2>3. CASE i # j
      BY <1>1, <2>1, <2>3
    <2>4. QED
      BY <2>2, <2>3
  <1>4. ASSUME NEW h \in Handlers, RevokeSessions(h) PROVE Goal
    <2>1. /\ SessionIds' = SessionIds
          /\ sessions'[i] = IF sessions[i].owner = handler[h].user
                            THEN [sessions[i] EXCEPT !.revoked = TRUE]
                            ELSE sessions[i]
      BY <1>4 DEF RevokeSessions, SessionIds
    <2>2. sessions[i] \in SessionRecords
      BY <1>1, <2>1
    <2>3. QED
      BY <2>1, <2>2 DEF SessionRecords
  <1>5. ASSUME NEW h \in Handlers, CreateSession(h) PROVE Goal
    <2> DEFINE new == [owner |-> handler[h].user, revoked |-> FALSE, via |-> handler[h].hash]
    <2>1. sessions' = Append(sessions, new) /\ At(h, "session")
      BY <1>5 DEF CreateSession
    <2>2. /\ SessionIds' = 1 .. Len(sessions) + 1
          /\ sessions'[Len(sessions) + 1] = new
          /\ \A j \in SessionIds : sessions'[j] = sessions[j]
      BY <1>1, <2>1 DEF SessionIds
    <2>3. CASE i \in SessionIds
      BY <2>2, <2>3
    <2>4. CASE i = Len(sessions) + 1
      BY <2>1, <2>2, <2>4
    <2>5. QED
      BY <1>1, <2>2, <2>3, <2>4
  <1>6. CASE UNCHANGED vars \/ Messenger
    BY <1>2, <1>6, ZenonT(20) DEF Messenger, authSocialMessenger, Expire, WritePhone, vars, dbVars
  <1>7. ASSUME NEW h \in Handlers, Request(h) \/ Resolve(h) \/ Fault(h) PROVE Goal
    <2>1. UNCHANGED sessions
      BY <1>7, ZenonT(20) DEF Request, CheckHash, register, authCallWaitCode, appleSignIn,
                              Verified, login, Refresh, deleteAccount, Resolve, ClaimHash,
                              Find, Provision, Insert, Refind, Fault, ProvisionFails,
                              InsertFails, DeleteCustomerFails, Die, dbVars
    <2>2. QED
      BY <1>2, <2>1
  <1>8. ASSUME NEW h \in Handlers, Issue(h) \/ Delete(h) PROVE Goal
    <2>1. UNCHANGED sessions \/ CreateSession(h) \/ RevokeSessions(h)
      BY <1>8 DEF Issue, IssueTokens, Latest, KeepRefresh, Delete, DeleteCustomer,
                  SoftDelete, dbVars
    <2>2. QED
      BY <1>2, <1>4, <1>5, <2>1
  <1>9. QED
    BY <1>3, <1>6, <1>7, <1>8 DEF Next, Step

\* What DeletedIsSignedOut gets right: deleteAccount loses only to sign-ins that
\* found the user alive before it did.  A deleted user who has no session left,
\* and none of them running, is signed out for good.
SignedOutStaysOut ==
    [][\A u \in UserIds : Gone(u) /\ LiveSessions(u) = {} =>
           Gone(u)' /\ LiveSessions(u)' = {}]_vars

THEOREM SignedOut == Spec => SignedOutStaysOut
  <1>1. ASSUME IInv, [Next]_vars, NEW u \in UserIds, Gone(u), LiveSessions(u) = {}
        PROVE  Gone(u)' /\ LiveSessions(u)' = {}
    <2>1. Gone(u)'
      BY <1>1, GoneStep
    <2>2. ASSUME NEW i \in SessionIds', sessions'[i].owner = u, ~ sessions'[i].revoked
          PROVE  FALSE
      <3>1. CASE /\ i \in SessionIds /\ ~ sessions[i].revoked
                 /\ sessions'[i].owner = sessions[i].owner
        BY <1>1, <2>2, <3>1 DEF LiveSessions
      <3>2. ASSUME NEW h \in Handlers, At(h, "session"), handler[h].user = sessions'[i].owner
            PROVE  FALSE
        BY <1>1, <2>2, <3>2 DEF Gone
      <3>3. QED
        BY <1>1, <2>2, <3>1, <3>2, LiveComesFrom
    <2>3. LiveSessions(u)' = {}
      BY <2>2 DEF LiveSessions
    <2>4. QED
      BY <2>1, <2>3
  <1>2. IInv /\ [Next]_vars =>
            [\A u \in UserIds : Gone(u) /\ LiveSessions(u) = {} =>
                 Gone(u)' /\ LiveSessions(u)' = {}]_vars
    BY <1>1
  <1>3. QED
    BY <1>2, Invariance, PTL DEF Spec, SignedOutStaysOut
=============================================================================
