--------------------------- MODULE AppleSignIn_proofs ---------------------------
(***************************************************************************)
(* Proofs about AppleSignIn, for any number of sign-ins, nonces, grants    *)
(* and deletions.  The invariant says where a grant that is still active   *)
(* can be: with a sign-in that is about to store it, in a row that the     *)
(* next deletion finds, or in one that a deletion at work has found.       *)
(***************************************************************************)
EXTENDS AppleSignIn, SequenceTheorems, TLAPS

USE AppleAssumption

Working ==
    [at : {"read", "burn", "resolve", "issue", "exchange"},
     user : AppleUsers, nonce : Nonces, late : BOOLEAN]
Storing(G) ==
    [at : {"store"}, user : AppleUsers, nonce : Nonces, late : BOOLEAN, grant : G]
GrantRecords == [user : AppleUsers, stored : BOOLEAN, active : BOOLEAN, late : BOOLEAN]
Removals(G) == [at : {"idle", "revoke", "delete"}, found : SUBSET G]

NonceOK ==
    \A n \in Nonces : passes[n] = 0 \/ (passes[n] = 1 /\ nonces[n] = "gone")

\* A sign-in that is not late has seen no deletion of its account.
OnTime(s) ==
    signIn[s] # NoSignIn /\ ~signIn[s].late =>
        /\ removal[signIn[s].user].at = "idle"
        /\ signIn[s].at \in {"issue", "exchange", "store"} => signIn[s].user \notin removed

Pending(g) == \E s \in SignIns : signIn[s].at = "store" /\ signIn[s].grant = g

\* The next deletion of the account revokes the grant, or the one at work does.
Found(g) ==
    LET u == grants[g].user
    IN  /\ grants[g].stored
        /\ u \notin removed
        /\ removal[u].at # "delete"
        /\ removal[u].at = "revoke" => g \in removal[u].found

GrantOK(g) ==
    appleErrors = 0 /\ grants[g].active => grants[g].late \/ Pending(g) \/ Found(g)

AInv ==
    /\ AppleTypeOK
    /\ NonceOK
    /\ \A s \in SignIns :
           OnTime(s) /\ (signIn[s].at = "store" =>
                             grants[signIn[s].grant].user = signIn[s].user)
    /\ \A g \in GrantIds : GrantOK(g)

LEMMA AppleTypes ==
    ASSUME AppleTypeOK
    PROVE  /\ grants \in Seq(GrantRecords)
           /\ Len(grants) \in Nat
           /\ GrantIds = 1 .. Len(grants)
           /\ \A g \in GrantIds : grants[g] \in GrantRecords
           /\ signIn \in [SignIns -> {NoSignIn} \cup Working \cup Storing(GrantIds)]
           /\ removal \in [AppleUsers -> Removals(GrantIds)]
  <1>1. grants \in Seq(GrantRecords)
    BY DEF AppleTypeOK, GrantRecords
  <1>2. Len(grants) \in Nat /\ GrantIds = 1 .. Len(grants)
    BY <1>1, LenProperties DEF GrantIds
  <1>3. \A g \in GrantIds : grants[g] \in GrantRecords
    BY <1>1, <1>2, ElementOfSeq
  <1>4. /\ signIn \in [SignIns -> {NoSignIn} \cup Working \cup Storing(GrantIds)]
        /\ removal \in [AppleUsers -> Removals(GrantIds)]
    BY DEF AppleTypeOK, Working, Storing, Removals
  <1>5. QED
    BY <1>1, <1>2, <1>3, <1>4

LEMMA InitAInv == AppleInit => AInv
  <1> SUFFICES ASSUME AppleInit PROVE AInv
    OBVIOUS
  <1> USE DEF AppleInit
  <1>1. grants \in Seq(GrantRecords) /\ GrantIds = {}
    BY DEF GrantIds
  <1>2. NoRemoval \in Removals(GrantIds)
    BY DEF NoRemoval, Removals
  <1>3. AppleTypeOK
    BY <1>1, <1>2 DEF AppleTypeOK, GrantRecords, Removals
  <1>4. NonceOK /\ \A s \in SignIns : OnTime(s) /\ signIn[s].at # "store"
    BY DEF NonceOK, OnTime, NoSignIn
  <1>5. QED
    BY <1>1, <1>3, <1>4 DEF AInv

\* A sign-in that stores nothing takes a step to r; grants and deletions are as
\* they were.
LEMMA WorkKeepsAInv ==
    ASSUME AInv, NEW s \in SignIns, signIn[s] \in {NoSignIn} \cup Working,
           NEW r \in {NoSignIn} \cup Working,
           signIn' = [signIn EXCEPT ![s] = r],
           r # NoSignIn /\ ~r.late =>
               /\ removal[r.user].at = "idle"
               /\ r.at \in {"issue", "exchange"} => r.user \notin removed,
           nonces' \in [Nonces -> {"unissued", "live", "expired", "gone"}],
           passes' \in [Nonces -> Nat],
           NonceOK',
           UNCHANGED <<grants, removal, removed, appleErrors>>
    PROVE  AInv'
  <1>1. /\ signIn \in [SignIns -> {NoSignIn} \cup Working \cup Storing(GrantIds)]
        /\ GrantIds' = GrantIds
    BY AppleTypes DEF AInv, GrantIds
  <1>2. /\ signIn'[s] = r /\ \A t \in SignIns \ {s} : signIn'[t] = signIn[t]
        /\ signIn' \in [SignIns -> {NoSignIn} \cup Working \cup Storing(GrantIds)]
    BY <1>1
  <1>3. AppleTypeOK'
    BY <1>1, <1>2 DEF AInv, AppleTypeOK, Working, Storing
  <1>4. signIn[s].at # "store" /\ r.at # "store"
    BY DEF NoSignIn, Working
  <1>5. \A t \in SignIns :
            OnTime(t)' /\ ((signIn[t].at = "store")' =>
                               grants'[signIn'[t].grant].user = signIn'[t].user)
    BY <1>2, <1>4 DEF AInv, OnTime
  <1>6. \A g \in GrantIds : Pending(g)' <=> Pending(g)
    BY <1>2, <1>4 DEF Pending
  <1>7. \A g \in GrantIds : GrantOK(g)'
    BY <1>6 DEF AInv, GrantOK, Found
  <1>8. QED
    BY <1>1, <1>3, <1>5, <1>7 DEF AInv

\* A sign-in's record with another stage.
LEMMA AdvanceWorks ==
    ASSUME AppleTypeOK, NEW s \in SignIns, signIn[s] \in Working,
           NEW p \in {"read", "burn", "resolve", "issue", "exchange"}, Advance(s, p)
    PROVE  \E r \in Working : /\ signIn' = [signIn EXCEPT ![s] = r]
                              /\ r.at = p /\ r.user = signIn[s].user
                              /\ r.late = signIn[s].late
  <1> DEFINE r == [signIn[s] EXCEPT !.at = p]
  <1>1. signIn' = [signIn EXCEPT ![s] = r]
    BY AppleTypes DEF Advance, Working
  <1>2. r \in Working /\ r.at = p /\ r.user = signIn[s].user /\ r.late = signIn[s].late
    BY DEF Working
  <1>3. QED
    BY <1>1, <1>2

-----------------------------------------------------------------------------
(* The nonce and the sign-in                                               *)

LEMMA NonceStepKeepsAInv ==
    ASSUME AInv, NEW n \in Nonces, issueNonce(n) \/ NonceExpires(n)
    PROVE  AInv'
  <1>1. /\ UNCHANGED <<signIn, grants, removal, removed, passes, appleErrors>>
        /\ nonces[n] \in {"unissued", "live"}
        /\ nonces' \in [Nonces -> {"unissued", "live", "expired", "gone"}]
        /\ \A m \in Nonces \ {n} : nonces'[m] = nonces[m]
    BY DEF issueNonce, NonceExpires, AInv, AppleTypeOK
  <1>2. AppleTypeOK' /\ GrantIds' = GrantIds
    BY <1>1 DEF AInv, AppleTypeOK, GrantIds
  <1>3. NonceOK'
    BY <1>1 DEF AInv, NonceOK
  <1>4. QED
    BY <1>1, <1>2, <1>3 DEF AInv, OnTime, GrantOK, Pending, Found

LEMMA StageIsWorking ==
    ASSUME AInv, NEW s \in SignIns,
           signIn[s].at \in {"read", "burn", "resolve", "issue", "exchange"}
    PROVE  signIn[s] \in Working /\ signIn[s] # NoSignIn
  <1>1. signIn[s] \in {NoSignIn} \cup Working \cup Storing(GrantIds)
    BY AppleTypes DEF AInv
  <1>2. QED
    BY <1>1 DEF NoSignIn, Storing

LEMMA StartKeepsAInv ==
    ASSUME AInv, NEW s \in SignIns, NEW u \in AppleUsers, NEW n \in Nonces,
           StartSignIn(s, u, n)
    PROVE  AInv'
  <1> DEFINE late == removal[u].at # "idle"
             r == [at |-> "read", user |-> u, nonce |-> n, late |-> late]
  <1>1. /\ signIn' = [signIn EXCEPT ![s] = r] /\ signIn[s] = NoSignIn
        /\ UNCHANGED <<nonces, grants, removal, removed, passes, appleErrors>>
    BY DEF StartSignIn
  <1>2. late \in BOOLEAN /\ (~late => removal[u].at = "idle")
    OBVIOUS
  <1> HIDE DEF late
  <1>3. r \in Working /\ r.at = "read" /\ r.user = u /\ r.late = late
    BY <1>2 DEF Working
  <1>4. /\ nonces' \in [Nonces -> {"unissued", "live", "expired", "gone"}]
        /\ passes' \in [Nonces -> Nat] /\ NonceOK'
    BY <1>1 DEF AInv, AppleTypeOK, NonceOK
  <1> HIDE DEF r
  <1>5. QED
    BY <1>1, <1>2, <1>3, <1>4, WorkKeepsAInv

\* A sign-in at work goes on to a stage p, or ends.
LEMMA AdvanceKeepsAInv ==
    ASSUME AInv, NEW s \in SignIns, signIn[s] \in Working,
           \/ Refuse(s)
           \/ \E p \in {"burn", "resolve", "issue", "exchange"} :
                  /\ Advance(s, p)
                  /\ p = "issue" => signIn[s].user \notin removed
                  /\ p = "exchange" => signIn[s].at = "issue",
           nonces' \in [Nonces -> {"unissued", "live", "expired", "gone"}],
           passes' \in [Nonces -> Nat], NonceOK',
           UNCHANGED <<grants, removal, removed, appleErrors>>
    PROVE  AInv'
  <1>1. CASE Refuse(s)
    BY <1>1, WorkKeepsAInv DEF Refuse
  <1>2. ASSUME NEW p \in {"burn", "resolve", "issue", "exchange"}, Advance(s, p),
               p = "issue" => signIn[s].user \notin removed,
               p = "exchange" => signIn[s].at = "issue"
        PROVE  AInv'
    <2>1. PICK r \in Working : /\ signIn' = [signIn EXCEPT ![s] = r]
                               /\ r.at = p /\ r.user = signIn[s].user
                               /\ r.late = signIn[s].late
      BY <1>2, AdvanceWorks DEF AInv
    <2>2. signIn[s] # NoSignIn
      BY DEF NoSignIn, Working
    <2>3. OnTime(s)
      BY DEF AInv
    <2>4. r # NoSignIn /\ ~r.late =>
              /\ removal[r.user].at = "idle"
              /\ r.at \in {"issue", "exchange"} => r.user \notin removed
      BY <1>2, <2>1, <2>2, <2>3 DEF OnTime
    <2>5. QED
      BY <2>1, <2>4, WorkKeepsAInv
  <1>3. QED
    BY <1>1, <1>2

\* The nonce is deleted by one sign-in: the next one finds it gone.
LEMMA ConsumeKeepsAInv ==
    ASSUME AInv, NEW s \in SignIns, ReadNonce(s) \/ BurnNonce(s)
    PROVE  AInv'
  <1> DEFINE n == signIn[s].nonce
  <1>1. signIn[s] \in Working /\ n \in Nonces
    <2>1. signIn[s] \in Working
      BY StageIsWorking DEF ReadNonce, BurnNonce
    <2>2. QED
      BY <2>1 DEF Working
  <1>2. /\ UNCHANGED <<grants, removal, removed, appleErrors>>
        /\ Refuse(s) \/ Advance(s, "burn") \/ Advance(s, "resolve")
    BY DEF ReadNonce, BurnNonce
  <1>3. /\ nonces \in [Nonces -> {"unissued", "live", "expired", "gone"}]
        /\ passes \in [Nonces -> Nat] /\ NonceOK
    BY DEF AInv, AppleTypeOK
  <1>4. /\ nonces' \in [Nonces -> {"unissued", "live", "expired", "gone"}]
        /\ passes' \in [Nonces -> Nat] /\ NonceOK'
    <2>1. CASE ReadNonce(s)
      <3>1. passes' = passes /\ (nonces' = nonces \/ nonces' = [nonces EXCEPT ![n] = "gone"])
        BY <2>1 DEF ReadNonce
      <3>2. QED
        BY <1>1, <1>3, <3>1 DEF NonceOK
    <2>2. CASE BurnNonce(s) /\ Deletable(n)
      <3>1. /\ nonces[n] # "gone" /\ nonces' = [nonces EXCEPT ![n] = "gone"]
            /\ passes' = [passes EXCEPT ![n] = @ + 1]
        BY <2>2 DEF BurnNonce, Deletable
      <3>2. QED
        BY <1>1, <1>3, <3>1 DEF NonceOK
    <2>3. CASE BurnNonce(s) /\ ~Deletable(n)
      BY <1>3, <2>3 DEF BurnNonce, NonceOK
    <2>4. QED
      BY <2>1, <2>2, <2>3
  <1>5. QED
    BY <1>1, <1>2, <1>4, AdvanceKeepsAInv

LEMMA ResolveKeepsAInv ==
    ASSUME AInv, NEW s \in SignIns,
           ResolveUser(s) \/ \E code \in BOOLEAN : AnswerSignIn(s, code)
    PROVE  AInv'
  <1>1. /\ UNCHANGED <<nonces, grants, removal, removed, passes, appleErrors>>
        /\ \/ Refuse(s)
           \/ Advance(s, "issue") /\ signIn[s].user \notin removed
           \/ Advance(s, "exchange") /\ signIn[s].at = "issue"
    BY DEF ResolveUser, AnswerSignIn
  <1>2. signIn[s] \in Working
    BY StageIsWorking DEF ResolveUser, AnswerSignIn
  <1>3. /\ nonces' \in [Nonces -> {"unissued", "live", "expired", "gone"}]
        /\ passes' \in [Nonces -> Nat] /\ NonceOK'
    BY <1>1 DEF AInv, AppleTypeOK, NonceOK
  <1>4. QED
    BY <1>1, <1>2, <1>3, AdvanceKeepsAInv

-----------------------------------------------------------------------------
(* The grant                                                               *)

LEMMA ReplaceGrant ==
    ASSUME AppleTypeOK, NEW g \in GrantIds, NEW r \in GrantRecords,
           grants' = [grants EXCEPT ![g] = r]
    PROVE  /\ grants' \in Seq(GrantRecords)
           /\ GrantIds' = GrantIds
           /\ grants'[g] = r
           /\ \A h \in GrantIds \ {g} : grants'[h] = grants[h]
  <1>1. grants \in Seq(GrantRecords) /\ GrantIds = 1 .. Len(grants)
    BY AppleTypes
  <1>2. /\ grants' \in Seq(GrantRecords) /\ Len(grants') = Len(grants)
        /\ \A h \in 1 .. Len(grants) : grants'[h] = IF h = g THEN r ELSE grants[h]
    BY <1>1, ExceptSeq
  <1>3. GrantIds' = 1 .. Len(grants)
    BY <1>2, LenProperties DEF GrantIds
  <1>4. QED
    BY <1>1, <1>2, <1>3

LEMMA ExchangeKeepsAInv ==
    ASSUME AInv, NEW s \in SignIns, Exchange(s)
    PROVE  AInv'
  <1> DEFINE n == Len(grants) + 1
             row == [user |-> signIn[s].user, stored |-> FALSE, active |-> TRUE,
                     late |-> signIn[s].late]
             r == [at |-> "store", user |-> signIn[s].user, nonce |-> signIn[s].nonce,
                   late |-> signIn[s].late, grant |-> n]
  <1>1. /\ grants' = Append(grants, row)
        /\ signIn' = [signIn EXCEPT ![s] = r] /\ signIn[s].at = "exchange"
        /\ UNCHANGED <<nonces, removal, removed, passes, appleErrors>>
    BY DEF Exchange
  <1>2. /\ signIn[s] \in Working /\ signIn[s] # NoSignIn
        /\ grants \in Seq(GrantRecords) /\ Len(grants) \in Nat
        /\ GrantIds = 1 .. Len(grants)
        /\ signIn \in [SignIns -> {NoSignIn} \cup Working \cup Storing(GrantIds)]
        /\ removal \in [AppleUsers -> Removals(GrantIds)]
    BY <1>1, StageIsWorking, AppleTypes DEF AInv
  <1>3. row \in GrantRecords /\ row.user = signIn[s].user
    BY <1>2 DEF GrantRecords, Working
  <1>4. /\ grants' \in Seq(GrantRecords) /\ Len(grants') = n
        /\ \A g \in 1 .. Len(grants) : grants'[g] = grants[g]
        /\ grants'[n] = row
    <2> HIDE DEF row
    <2>1. QED
      BY <1>1, <1>2, <1>3
  <1>5. GrantIds' = GrantIds \cup {n} /\ \A g \in GrantIds : grants'[g] = grants[g]
    <2>1. GrantIds' = 1 .. n
      BY <1>4, LenProperties DEF GrantIds
    <2>2. QED
      BY <1>2, <1>4, <2>1
  <1> HIDE DEF n, row
  <1>6. /\ r \in Storing(GrantIds') /\ r.at = "store" /\ r.grant = n
        /\ r.user = signIn[s].user /\ r.late = signIn[s].late
    BY <1>2, <1>5 DEF Storing, Working
  <1> HIDE DEF r
  <1>7. /\ signIn'[s] = r /\ \A t \in SignIns \ {s} : signIn'[t] = signIn[t]
        /\ signIn' \in [SignIns -> {NoSignIn} \cup Working \cup Storing(GrantIds')]
    <2>1. Storing(GrantIds) \subseteq Storing(GrantIds')
      BY <1>5 DEF Storing
    <2>2. QED
      BY <1>1, <1>2, <1>6, <2>1
  <1>8. AppleTypeOK'
    <2>1. removal' \in [AppleUsers -> Removals(GrantIds')]
      <3>1. Removals(GrantIds) \subseteq Removals(GrantIds')
        BY <1>5 DEF Removals
      <3>2. QED
        BY <1>1, <1>2, <3>1
    <2>2. QED
      BY <1>1, <1>4, <1>7, <2>1
         DEF AInv, AppleTypeOK, GrantRecords, Working, Storing, Removals
  <1>9. NonceOK'
    BY <1>1 DEF AInv, NonceOK
  <1>10. ASSUME NEW t \in SignIns
         PROVE  OnTime(t)' /\ ((signIn[t].at = "store")' =>
                                   grants'[signIn'[t].grant].user = signIn'[t].user)
    <2>1. CASE t = s
      <3>1. OnTime(s)
        BY DEF AInv
      <3>2. OnTime(s)'
        BY <1>1, <1>2, <1>6, <1>7, <3>1 DEF OnTime
      <3>3. QED
        BY <1>3, <1>4, <1>6, <1>7, <2>1, <3>2
    <2>2. CASE t # s
      <3>1. signIn[t].at = "store" => signIn[t].grant \in GrantIds
        BY <1>2, SMTT(20) DEF NoSignIn, Working, Storing
      <3>2. QED
        BY <1>1, <1>5, <1>7, <2>2, <3>1 DEF AInv, OnTime
    <2>3. QED
      BY <2>1, <2>2
  <1>11. ASSUME NEW g \in GrantIds' PROVE GrantOK(g)'
    <2>1. CASE g = n
      <3>1. Pending(g)'
        BY <1>6, <1>7, <2>1 DEF Pending
      <3>2. QED
        BY <3>1 DEF GrantOK
    <2>2. CASE g \in GrantIds
      <3>1. Pending(g) => Pending(g)'
        BY <1>1, <1>7 DEF Pending
      <3>2. Found(g) => Found(g)'
        BY <1>1, <1>5, <2>2 DEF Found
      <3>3. QED
        BY <1>1, <1>5, <2>2, <3>1, <3>2 DEF AInv, GrantOK
    <2>3. QED
      BY <1>5, <2>1, <2>2
  <1>12. QED
    BY <1>8, <1>9, <1>10, <1>11 DEF AInv

\* A sign-in that was not late stores its grant before any deletion reads; what
\* is stored late, or never, says so.
LEMMA StoreKeepsAInv ==
    ASSUME AInv, NEW s \in SignIns, signIn[s].at = "store",
           StoreGrant(s) \/ SignInEnds(s)
    PROVE  AInv'
  <1> DEFINE g == signIn[s].grant
  <1>1. /\ signIn' = [signIn EXCEPT ![s] = NoSignIn]
        /\ UNCHANGED <<nonces, removal, removed, passes, appleErrors>>
    BY DEF StoreGrant, SignInEnds, Refuse
  <1>2. /\ signIn[s] \in Storing(GrantIds) /\ g \in GrantIds /\ signIn[s] # NoSignIn
        /\ grants[g] \in GrantRecords /\ grants \in Seq(GrantRecords)
        /\ signIn \in [SignIns -> {NoSignIn} \cup Working \cup Storing(GrantIds)]
    <2>1. /\ signIn \in [SignIns -> {NoSignIn} \cup Working \cup Storing(GrantIds)]
          /\ \A h \in GrantIds : grants[h] \in GrantRecords
          /\ grants \in Seq(GrantRecords)
      BY AppleTypes DEF AInv
    <2>2. signIn[s] \in Storing(GrantIds) /\ signIn[s] # NoSignIn
      BY <2>1 DEF NoSignIn, Working
    <2>3. g \in GrantIds
      BY <2>2 DEF Storing
    <2>4. QED
      BY <2>1, <2>2, <2>3
  <1> HIDE DEF g
  <1>3. \E r \in GrantRecords :
            /\ grants' = [grants EXCEPT ![g] = r] /\ r.user = grants[g].user
            /\ r.late \/ (r.stored /\ r.late = signIn[s].late)
    <2>1. CASE StoreGrant(s)
      <3> DEFINE r == [grants[g] EXCEPT !.stored = TRUE, !.late = signIn[s].late]
      <3>1. grants' = [grants EXCEPT ![g] = r]
        BY <1>2, <2>1 DEF StoreGrant, GrantRecords, g
      <3>2. /\ r \in GrantRecords /\ r.user = grants[g].user /\ r.stored
            /\ r.late = signIn[s].late
        BY <1>2 DEF GrantRecords, Storing
      <3>3. QED
        BY <3>1, <3>2
    <2>2. CASE SignInEnds(s)
      <3> DEFINE r == [grants[g] EXCEPT !.late = TRUE]
      <3>1. grants' = [grants EXCEPT ![g] = r]
        BY <1>2, <2>2 DEF SignInEnds, GrantRecords, g
      <3>2. r \in GrantRecords /\ r.user = grants[g].user /\ r.late
        BY <1>2 DEF GrantRecords
      <3>3. QED
        BY <3>1, <3>2
    <2>3. QED
      BY <2>1, <2>2
  <1>4. PICK r \in GrantRecords :
            /\ grants' = [grants EXCEPT ![g] = r] /\ r.user = grants[g].user
            /\ r.late \/ (r.stored /\ r.late = signIn[s].late)
    BY <1>3
  <1>5. /\ grants' \in Seq(GrantRecords) /\ GrantIds' = GrantIds
        /\ grants'[g] = r /\ \A h \in GrantIds \ {g} : grants'[h] = grants[h]
    BY <1>2, <1>4, ReplaceGrant DEF AInv
  <1>6. /\ signIn'[s] = NoSignIn /\ \A t \in SignIns \ {s} : signIn'[t] = signIn[t]
        /\ signIn' \in [SignIns -> {NoSignIn} \cup Working \cup Storing(GrantIds)]
    BY <1>1, <1>2
  <1>7. AppleTypeOK'
    BY <1>1, <1>5, <1>6 DEF AInv, AppleTypeOK, GrantRecords, Working, Storing
  <1>8. NonceOK'
    BY <1>1 DEF AInv, NonceOK
  <1>9. ASSUME NEW t \in SignIns
        PROVE  OnTime(t)' /\ ((signIn[t].at = "store")' =>
                                  grants'[signIn'[t].grant].user = signIn'[t].user)
    <2>1. CASE t = s
      BY <1>6, <2>1 DEF OnTime, NoSignIn
    <2>2. CASE t # s
      <3>1. signIn[t].at = "store" => signIn[t].grant \in GrantIds
        BY <1>2 DEF NoSignIn, Working, Storing
      <3>2. QED
        BY <1>1, <1>4, <1>5, <1>6, <2>2, <3>1 DEF AInv, OnTime
    <2>3. QED
      BY <2>1, <2>2
  <1>10. ASSUME NEW h \in GrantIds PROVE GrantOK(h)'
    <2>1. CASE h = g
      <3>1. grants[g].user = signIn[s].user /\ OnTime(s)
        BY DEF AInv, g
      <3>2. r.late \/ Found(h)'
        BY <1>1, <1>2, <1>4, <1>5, <2>1, <3>1 DEF OnTime, Found
      <3>3. QED
        BY <1>5, <2>1, <3>2 DEF GrantOK
    <2>2. CASE h # g
      <3>1. Pending(h) => Pending(h)'
        BY <1>6, <2>2 DEF Pending, g
      <3>2. Found(h) => Found(h)'
        BY <1>1, <1>5, <2>2 DEF Found
      <3>3. QED
        BY <1>1, <1>5, <2>2, <3>1, <3>2 DEF AInv, GrantOK
    <2>3. QED
      BY <2>1, <2>2
  <1>11. QED
    BY <1>5, <1>7, <1>8, <1>9, <1>10 DEF AInv

LEMMA EndKeepsAInv ==
    ASSUME AInv, NEW s \in SignIns, SignInEnds(s)
    PROVE  AInv'
  <1>1. CASE signIn[s].at = "store"
    BY <1>1, StoreKeepsAInv
  <1>2. CASE signIn[s].at # "store"
    <2>1. signIn[s] \in Working
      <3>1. signIn[s] \in {NoSignIn} \cup Working \cup Storing(GrantIds)
        BY AppleTypes DEF AInv
      <3>2. QED
        BY <1>2, <3>1 DEF SignInEnds, Storing
    <2>2. /\ Refuse(s) /\ UNCHANGED <<nonces, grants, removal, removed, passes, appleErrors>>
      BY <1>2 DEF SignInEnds
    <2>3. /\ nonces' \in [Nonces -> {"unissued", "live", "expired", "gone"}]
          /\ passes' \in [Nonces -> Nat] /\ NonceOK'
      BY <2>2 DEF AInv, AppleTypeOK, NonceOK
    <2>4. QED
      BY <2>1, <2>2, <2>3, AdvanceKeepsAInv
  <1>3. QED
    BY <1>1, <1>2

-----------------------------------------------------------------------------
(* The deletion                                                            *)

\* The deletion finds every grant that is stored, and makes who has not stored
\* one late.
LEMMA StartRemovalKeepsAInv ==
    ASSUME AInv, NEW u \in AppleUsers, StartRemoval(u)
    PROVE  AInv'
  <1> DEFINE r == [at |-> "revoke", found |-> StoredFor(u)]
  <1>1. /\ removal' = [removal EXCEPT ![u] = r]
        /\ UNCHANGED <<nonces, grants, removed, passes, appleErrors>>
        /\ u \notin removed
    BY DEF StartRemoval
  <1>2. /\ signIn \in [SignIns -> {NoSignIn} \cup Working \cup Storing(GrantIds)]
        /\ removal \in [AppleUsers -> Removals(GrantIds)]
        /\ GrantIds' = GrantIds
    BY <1>1, AppleTypes DEF AInv, GrantIds
  <1>3. r \in Removals(GrantIds)
    BY DEF Removals, StoredFor
  <1>4. /\ removal' \in [AppleUsers -> Removals(GrantIds)]
        /\ removal'[u] = r /\ \A v \in AppleUsers \ {u} : removal'[v] = removal[v]
    BY <1>1, <1>2, <1>3
  <1>5. ASSUME NEW s \in SignIns
        PROVE  /\ signIn'[s] \in {NoSignIn} \cup Working \cup Storing(GrantIds)
               /\ signIn'[s] # NoSignIn <=> signIn[s] # NoSignIn
               /\ signIn'[s].at = signIn[s].at
               /\ signIn[s] # NoSignIn =>
                      /\ signIn'[s].user = signIn[s].user
                      /\ ~signIn'[s].late => ~signIn[s].late /\ signIn[s].user # u
               /\ signIn[s].at = "store" => signIn'[s].grant = signIn[s].grant
    <2>1. signIn'[s] = IF signIn[s] # NoSignIn /\ signIn[s].user = u
                       THEN [signIn[s] EXCEPT !.late = TRUE] ELSE signIn[s]
      BY DEF StartRemoval
    <2>2. CASE signIn[s] = NoSignIn
      BY <2>1, <2>2 DEF NoSignIn
    <2>3. CASE signIn[s] \in Working /\ signIn[s].user = u
      <3>1. signIn'[s] = [signIn[s] EXCEPT !.late = TRUE] /\ signIn[s] # NoSignIn
        BY <2>1, <2>3 DEF NoSignIn, Working
      <3>2. /\ signIn'[s] \in Working /\ signIn'[s].at = signIn[s].at
            /\ signIn'[s].user = signIn[s].user /\ signIn'[s].late = TRUE
        BY <2>3, <3>1 DEF Working
      <3>3. signIn[s].at # "store" /\ signIn'[s] # NoSignIn
        BY <2>3, <3>2 DEF NoSignIn, Working
      <3>4. QED
        BY <2>3, <3>1, <3>2, <3>3
    <2>4. CASE signIn[s] \in Storing(GrantIds) /\ signIn[s].user = u
      <3>1. signIn'[s] = [signIn[s] EXCEPT !.late = TRUE] /\ signIn[s] # NoSignIn
        BY <2>1, <2>4 DEF NoSignIn, Storing
      <3>2. /\ signIn'[s] \in Storing(GrantIds) /\ signIn'[s].at = signIn[s].at
            /\ signIn'[s].user = signIn[s].user /\ signIn'[s].late = TRUE
            /\ signIn'[s].grant = signIn[s].grant
        BY <2>4, <3>1 DEF Storing
      <3>3. signIn'[s] # NoSignIn
        BY <3>2 DEF NoSignIn, Storing
      <3>4. QED
        BY <2>4, <3>1, <3>2, <3>3
    <2>5. CASE signIn[s] # NoSignIn /\ signIn[s].user # u
      <3>1. signIn'[s] = signIn[s] /\ signIn[s].late \in BOOLEAN
        BY <1>2, <2>1, <2>5 DEF Working, Storing
      <3>2. QED
        BY <1>2, <2>5, <3>1
    <2>6. QED
      BY <1>2, <2>2, <2>3, <2>4, <2>5
  <1>6. signIn' \in [SignIns -> {NoSignIn} \cup Working \cup Storing(GrantIds)]
    BY <1>5 DEF StartRemoval
  <1>7. AppleTypeOK'
    BY <1>1, <1>2, <1>4, <1>6 DEF AInv, AppleTypeOK, Working, Storing, Removals
  <1>8. NonceOK'
    BY <1>1 DEF AInv, NonceOK
  <1>9. ASSUME NEW s \in SignIns
        PROVE  OnTime(s)' /\ ((signIn[s].at = "store")' =>
                                  grants'[signIn'[s].grant].user = signIn'[s].user)
    <2>1. signIn[s] # NoSignIn => signIn[s].user \in AppleUsers
      BY <1>2 DEF Working, Storing
    <2>2. signIn[s].at = "store" => signIn[s] # NoSignIn
      BY DEF NoSignIn
    <2>3. OnTime(s)'
      BY <1>1, <1>4, <1>5, <2>1 DEF AInv, OnTime
    <2>4. QED
      BY <1>1, <1>5, <2>2, <2>3 DEF AInv
  <1>10. ASSUME NEW g \in GrantIds PROVE GrantOK(g)'
    <2>1. Pending(g) => Pending(g)'
      BY <1>5 DEF Pending
    <2>2. grants[g].user \in AppleUsers
      BY AppleTypes DEF AInv, GrantRecords
    <2>3. Found(g) => Found(g)'
      <3>1. CASE grants[g].user = u
        BY <1>1, <1>4, <3>1 DEF Found, StoredFor
      <3>2. CASE grants[g].user # u
        BY <1>1, <1>4, <2>2, <3>2 DEF Found
      <3>3. QED
        BY <3>1, <3>2
    <2>4. QED
      BY <1>1, <2>1, <2>3 DEF AInv, GrantOK
  <1>11. QED
    BY <1>2, <1>7, <1>8, <1>9, <1>10 DEF AInv

\* A step of a deletion at work: no sign-in of the account is on time.
LEMMA RemovalKeepsAInv ==
    ASSUME AInv, NEW u \in AppleUsers, removal[u].at # "idle",
           NEW r \in Removals(GrantIds), removal' = [removal EXCEPT ![u] = r],
           removed \subseteq removed', removed' \subseteq removed \cup {u},
           UNCHANGED <<signIn, nonces, passes>>,
           appleErrors' \in Nat, appleErrors' = 0 => appleErrors = 0,
           grants' \in Seq(GrantRecords), GrantIds' = GrantIds,
           \A g \in GrantIds :
               /\ grants'[g].user = grants[g].user /\ grants'[g].late = grants[g].late
               /\ grants'[g].active => grants[g].active
               /\ grants[g].user # u /\ grants[g].stored => grants'[g].stored
               /\ appleErrors' = 0 /\ grants'[g].active /\ grants[g].user = u /\ Found(g) =>
                      Found(g)'
    PROVE  AInv'
  <1>1. removal \in [AppleUsers -> Removals(GrantIds)]
    BY AppleTypes DEF AInv
  <1>2. /\ removal' \in [AppleUsers -> Removals(GrantIds)]
        /\ removal'[u] = r /\ \A v \in AppleUsers \ {u} : removal'[v] = removal[v]
    BY <1>1
  <1>3. AppleTypeOK'
    BY <1>2 DEF AInv, AppleTypeOK, GrantRecords, Removals
  <1>4. NonceOK'
    BY DEF AInv, NonceOK
  <1>5. ASSUME NEW s \in SignIns
        PROVE  OnTime(s)' /\ ((signIn[s].at = "store")' =>
                                  grants'[signIn'[s].grant].user = signIn'[s].user)
    <2>1. signIn[s] \in {NoSignIn} \cup Working \cup Storing(GrantIds)
      BY AppleTypes DEF AInv
    <2>2. signIn[s] # NoSignIn => signIn[s].user \in AppleUsers
      BY <2>1 DEF Working, Storing
    <2>3. signIn[s].at = "store" => signIn[s].grant \in GrantIds
      BY <2>1 DEF NoSignIn, Working, Storing
    <2>4. QED
      BY <1>2, <2>2, <2>3 DEF AInv, OnTime
  <1>6. ASSUME NEW g \in GrantIds PROVE GrantOK(g)'
    <2>1. Pending(g) => Pending(g)'
      BY DEF Pending
    <2>2. grants[g].user \in AppleUsers
      BY AppleTypes DEF AInv, GrantRecords
    <2>3. grants[g].user # u /\ Found(g) => Found(g)'
      BY <1>2, <2>2 DEF Found
    <2>4. QED
      BY <2>1, <2>3 DEF AInv, GrantOK
  <1>7. QED
    BY <1>3, <1>4, <1>5, <1>6 DEF AInv

LEMMA RevokedKeepsAInv ==
    ASSUME AInv, NEW u \in AppleUsers, NEW g \in GrantIds,
           Revoked(u, g) \/ RevokeFails(u, g)
    PROVE  AInv'
  <1> DEFINE r == [removal[u] EXCEPT !.found = @ \ {g}]
  <1>1. /\ removal \in [AppleUsers -> Removals(GrantIds)]
        /\ grants \in Seq(GrantRecords) /\ \A h \in GrantIds : grants[h] \in GrantRecords
    BY AppleTypes DEF AInv
  <1>2. /\ removal' = [removal EXCEPT ![u] = r] /\ removal[u].at = "revoke"
        /\ UNCHANGED <<nonces, signIn, removed, passes>>
    BY <1>1 DEF Revoked, RevokeFails, Removals
  <1>3. r \in Removals(GrantIds) /\ r.at = "revoke" /\ r.found = removal[u].found \ {g}
    BY <1>1, <1>2 DEF Removals
  <1> HIDE DEF r
  <1>4. removal'[u] = r
    BY <1>1, <1>2
  <1>5. CASE Revoked(u, g)
    <2> DEFINE q == [grants[g] EXCEPT !.active = FALSE]
    <2>1. grants' = [grants EXCEPT ![g] = q] /\ appleErrors' = appleErrors
      BY <1>1, <1>5 DEF Revoked, GrantRecords
    <2>2. /\ q \in GrantRecords /\ ~q.active /\ q.user = grants[g].user
          /\ q.late = grants[g].late /\ q.stored = grants[g].stored
      BY <1>1 DEF GrantRecords
    <2> HIDE DEF q
    <2>3. /\ grants' \in Seq(GrantRecords) /\ GrantIds' = GrantIds /\ grants'[g] = q
          /\ \A h \in GrantIds \ {g} : grants'[h] = grants[h]
      BY <2>1, <2>2, ReplaceGrant DEF AInv
    <2>4. \A h \in GrantIds : grants'[h].active => h # g /\ grants'[h] = grants[h]
      BY <2>2, <2>3
    <2>5. \A h \in GrantIds : grants'[h].active /\ grants[h].user = u /\ Found(h) => Found(h)'
      BY <1>2, <1>3, <1>4, <2>4 DEF Found
    <2>6. \A h \in GrantIds :
              /\ grants'[h].user = grants[h].user /\ grants'[h].late = grants[h].late
              /\ grants'[h].stored = grants[h].stored
      BY <2>2, <2>3
    <2>7. /\ appleErrors' \in Nat /\ (appleErrors' = 0 => appleErrors = 0)
          /\ removed \subseteq removed' /\ removed' \subseteq removed \cup {u}
          /\ UNCHANGED <<signIn, nonces, passes>> /\ removal[u].at # "idle"
      BY <1>2, <2>1 DEF AInv, AppleTypeOK
    <2>8. \A h \in GrantIds :
              /\ grants'[h].active => grants[h].active
              /\ grants[h].user # u /\ grants[h].stored => grants'[h].stored
      BY <2>4, <2>6
    <2>9. QED
      BY <1>2, <1>3, <2>3, <2>5, <2>6, <2>7, <2>8, RemovalKeepsAInv
  <1>6. CASE RevokeFails(u, g)
    <2>1. grants' = grants /\ appleErrors' \in Nat /\ appleErrors' # 0
      BY <1>6 DEF RevokeFails, AInv, AppleTypeOK
    <2>2. grants' \in Seq(GrantRecords) /\ GrantIds' = GrantIds
      BY <1>1, <2>1 DEF GrantIds
    <2>3. QED
      BY <1>2, <1>3, <2>1, <2>2, RemovalKeepsAInv
  <1>7. QED
    BY <1>5, <1>6

\* Every revocation was answered, so no grant the deletion found is active.
LEMMA ForgetKeepsAInv ==
    ASSUME AInv, NEW u \in AppleUsers, ForgetGrants(u)
    PROVE  AInv'
  <1> DEFINE r == [at |-> "delete", found |-> {}]
             kept(g) == IF g \in StoredFor(u) THEN [grants[g] EXCEPT !.stored = FALSE]
                        ELSE grants[g]
  <1>1. /\ removal' = [removal EXCEPT ![u] = r] /\ removal[u].at = "revoke"
        /\ removal[u].found = {}
        /\ grants' = [g \in GrantIds |-> kept(g)]
        /\ UNCHANGED <<nonces, signIn, removed, passes, appleErrors>>
    BY DEF ForgetGrants, AllSettled
  <1>2. r \in Removals(GrantIds)
    BY DEF Removals
  <1>3. /\ GrantIds = 1 .. Len(grants) /\ Len(grants) \in Nat
        /\ \A g \in GrantIds : grants[g] \in GrantRecords
    BY AppleTypes DEF AInv
  <1>4. ASSUME NEW g \in GrantIds
        PROVE  /\ kept(g) \in GrantRecords
               /\ kept(g).user = grants[g].user /\ kept(g).late = grants[g].late
               /\ kept(g).active = grants[g].active
               /\ grants[g].user # u /\ grants[g].stored => kept(g).stored
    BY <1>3 DEF GrantRecords, StoredFor
  <1> HIDE DEF kept
  <1>5. grants' \in [1 .. Len(grants) -> GrantRecords] /\ GrantIds' = GrantIds
    BY <1>1, <1>3, <1>4 DEF GrantIds
  <1>6. grants' \in Seq(GrantRecords)
    BY <1>3, <1>5, SeqDef
  <1>7. \A g \in GrantIds : grants'[g] = kept(g)
    BY <1>1
  <1>8. \A g \in GrantIds : grants[g].user = u => ~Found(g)
    BY <1>1 DEF Found
  <1>9. appleErrors' \in Nat /\ (appleErrors' = 0 => appleErrors = 0)
    BY <1>1 DEF AInv, AppleTypeOK
  <1> HIDE DEF r
  <1>10. QED
    BY <1>1, <1>2, <1>4, <1>5, <1>6, <1>7, <1>8, <1>9, RemovalKeepsAInv

LEMMA RemovalEndKeepsAInv ==
    ASSUME AInv, NEW u \in AppleUsers, SoftDeleteUser(u) \/ RemovalEnds(u)
    PROVE  AInv'
  <1>1. /\ removal' = [removal EXCEPT ![u] = NoRemoval] /\ removal[u].at # "idle"
        /\ UNCHANGED <<nonces, signIn, grants, passes, appleErrors>>
        /\ \/ removed' = removed
           \/ removed' = removed \cup {u} /\ removal[u].at = "delete"
    BY DEF SoftDeleteUser, RemovalEnds
  <1>2. /\ NoRemoval \in Removals(GrantIds) /\ NoRemoval.at = "idle"
        /\ removal \in [AppleUsers -> Removals(GrantIds)]
        /\ grants \in Seq(GrantRecords)
    BY AppleTypes DEF AInv, NoRemoval, Removals
  <1>3. removal'[u] = NoRemoval
    BY <1>1, <1>2
  <1>4. /\ grants' \in Seq(GrantRecords) /\ GrantIds' = GrantIds
        /\ appleErrors' \in Nat
    BY <1>1, <1>2 DEF GrantIds, AInv, AppleTypeOK
  <1>5. \A g \in GrantIds : grants[g].user = u /\ Found(g) => Found(g)'
    BY <1>1, <1>2, <1>3 DEF Found
  <1>6. QED
    BY <1>1, <1>2, <1>4, <1>5, RemovalKeepsAInv

-----------------------------------------------------------------------------

LEMMA AppleNextAInv ==
    ASSUME AInv, [AppleNext]_appleVars PROVE AInv'
  <1>1. CASE UNCHANGED appleVars
    <2>1. /\ UNCHANGED <<nonces, signIn, grants, removal, removed, passes, appleErrors>>
          /\ GrantIds' = GrantIds
      BY <1>1 DEF appleVars, GrantIds
    <2>2. AppleTypeOK' /\ NonceOK'
      BY <2>1 DEF AInv, AppleTypeOK, NonceOK
    <2>3. QED
      BY <2>1, <2>2 DEF AInv, OnTime, GrantOK, Pending, Found
  <1>2. ASSUME NEW s \in SignIns,
               \/ \E u \in AppleUsers, n \in Nonces : StartSignIn(s, u, n)
               \/ ReadNonce(s) \/ BurnNonce(s) \/ ResolveUser(s)
               \/ \E code \in BOOLEAN : AnswerSignIn(s, code)
        PROVE  AInv'
    BY <1>2, StartKeepsAInv, ConsumeKeepsAInv, ResolveKeepsAInv
  <1>3. ASSUME NEW s \in SignIns, Exchange(s) \/ StoreGrant(s) \/ SignInEnds(s)
        PROVE  AInv'
    BY <1>3, ExchangeKeepsAInv, StoreKeepsAInv, EndKeepsAInv DEF StoreGrant
  <1>4. ASSUME NEW u \in AppleUsers,
               \/ StartRemoval(u) \/ ForgetGrants(u) \/ SoftDeleteUser(u) \/ RemovalEnds(u)
               \/ \E g \in GrantIds : Revoked(u, g) \/ RevokeFails(u, g)
        PROVE  AInv'
    BY <1>4, StartRemovalKeepsAInv, ForgetKeepsAInv, RemovalEndKeepsAInv, RevokedKeepsAInv
  <1>5. QED
    BY <1>1, <1>2, <1>3, <1>4, NonceStepKeepsAInv DEF AppleNext

LEMMA AppleInvariance == AppleSpec => []AInv
  <1>1. AInv /\ [AppleNext]_appleVars => AInv'
    BY AppleNextAInv
  <1>2. QED
    BY <1>1, InitAInv, PTL DEF AppleSpec

\* Every table keeps its type: what a sign-in or a deletion holds of a grant
\* refers to a grant there is.
THEOREM AppleTypeCorrect == AppleSpec => []AppleTypeOK
  <1>1. AInv => AppleTypeOK
    BY DEF AInv
  <1>2. QED
    BY <1>1, AppleInvariance, PTL

\* consumeNonce: of any number of sign-ins that present one nonce at one time,
\* the delete lets one through.
THEOREM NonceUsedOnce == AppleSpec => []NonceIsSingleUse
  <1>1. AInv => NonceIsSingleUse
    BY DEF AInv, NonceOK, NonceIsSingleUse
  <1>2. QED
    BY <1>1, AppleInvariance, PTL

\* revokeAllForUser: however deletions and sign-ins interleave, and whichever of
\* them are cut short, a deleted account keeps no active grant but those that
\* were late.
THEOREM NoGrantSurvives == AppleSpec => []GrantsAreRevoked
  <1>1. AInv => GrantsAreRevoked
    BY DEF AInv, GrantOK, Pending, Found, GrantsAreRevoked
  <1>2. QED
    BY <1>1, AppleInvariance, PTL
=============================================================================
