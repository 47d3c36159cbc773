---------------------------- MODULE Services_proofs ----------------------------
(***************************************************************************)
(* Proofs about the smaller services, each for any value of its constants: *)
(* the address page, the bot, the catalog, the devices and the codes; and  *)
(* about all eight services together.                                      *)
(***************************************************************************)
EXTENDS MCServices, GeoEstimates_proofs, AppleSignIn_proofs, LoanApplication_proofs,
        FiniteSetTheorems, SequenceTheorems, WellFoundedInduction, TLAPS

-----------------------------------------------------------------------------
(* Sets of numbers                                                         *)

LEMMA SmallestExists ==
    ASSUME NEW S \in SUBSET Nat, S # {}
    PROVE  \E m \in S : \A s \in S : m <= s
  <1> DEFINE R == OpToRel(<, Nat)
  <1>1. IsWellFoundedOn(R, Nat)
    BY NatLessThanWellFounded
  <1>2. \A s, m \in Nat : s < m => <<s, m>> \in R
    BY DEF OpToRel
  <1> HIDE DEF R
  <1>3. PICK m \in S : \A s \in S : ~ (<<s, m>> \in R)
    BY <1>1, WFMin
  <1>4. \A s \in S : ~ (s < m)
    BY <1>2, <1>3
  <1>5. QED
    BY <1>3, <1>4

LEMMA LargestExists ==
    ASSUME NEW S \in SUBSET Nat, S # {}, NEW n \in Nat, \A s \in S : s <= n
    PROVE  \E m \in S : \A s \in S : s <= m
  <1> DEFINE D == {k \in Nat : \E s \in S : k = n - s}
  <1>1. PICK t \in S : TRUE
    OBVIOUS
  <1>2. n - t \in D
    BY <1>1
  <1>3. D \in SUBSET Nat /\ D # {}
    BY <1>2
  <1>4. \A s \in S : n - s \in D
    OBVIOUS
  <1>5. PICK x \in D : \A y \in D : x <= y
    BY <1>3, SmallestExists
  <1>6. PICK m \in S : x = n - m
    BY <1>5
  <1> HIDE DEF D
  <1>7. ASSUME NEW s \in S PROVE s <= m
    <2>1. n - m <= n - s
      BY <1>4, <1>5, <1>6
    <2>2. QED
      BY <2>1
  <1>8. QED
    BY <1>6, <1>7

-----------------------------------------------------------------------------
(* AddressPicker                                                           *)

\* The page GET /geo/map: whatever the order in which the map service answers
\* overlapping clicks, map, marker, notice and text belong together.
THEOREM OneAnswer == PickerSpec => []PageShowsOneAnswer
  <1>1. PickerInit => PageShowsOneAnswer
    BY DEF PickerInit, PageShowsOneAnswer
  <1>2. PageShowsOneAnswer /\ [PickerNext]_pickerVars => PageShowsOneAnswer'
    <2> SUFFICES ASSUME PageShowsOneAnswer, [PickerNext]_pickerVars
                 PROVE  PageShowsOneAnswer'
      OBVIOUS
    <2>1. ASSUME NEW a \in Sights, NEW inApp \in BOOLEAN, showResult(a, inApp)
          PROVE  PageShowsOneAnswer'
      BY <2>1 DEF showResult, createMap, PageShowsOneAnswer
    <2>2. CASE showError
      BY <2>2 DEF showError, PageShowsOneAnswer
    <2>3. CASE UNCHANGED <<map, placemark, notice, message>>
      BY <2>3 DEF PageShowsOneAnswer
    <2>4. QED
      BY <2>1, <2>2, <2>3 DEF PickerNext, Click, Answer, AnswerFails, pickerVars
  <1>3. QED
    BY <1>1, <1>2, PTL DEF PickerSpec

-----------------------------------------------------------------------------
(* AuthBot                                                                 *)

\* What a process remembers of a chat is a hash the chat started with.
RemembersItsChats ==
    \A p \in Processes, c \in Chats :
        chats[p][c] # NoBotHash => chats[p][c] \in started[c]

BInv == BotTypeOK /\ RemembersItsChats /\ HashFromItsChat

LEMMA InitBInv == BotInit => BInv
  BY DEF BotInit, BInv, BotTypeOK, NoChats, RemembersItsChats, HashFromItsChat

LEMMA LoopKeepsBInv ==
    ASSUME BInv, NEW p \in Processes,
           \/ Boot(p) \/ Kill(p) \/ Signal(p) \/ LoopStep(p) \/ LoopFails(p)
           \/ \E c \in Chats : OtherMessage(p, c)
    PROVE  BInv'
  <1>1. /\ UNCHANGED <<useWebhook, phoneOf, started>>
        /\ chats' = chats \/ chats' = [chats EXCEPT ![p] = NoChats]
    BY DEF Boot, Kill, Signal, LoopStep, Connected, Failed, TimerFires, LoopFails, OtherMessage
  <1>2. chats' \in [Processes -> [Chats -> BotHashes \cup {NoBotHash}]]
    BY <1>1 DEF BInv, BotTypeOK, NoChats
  <1>3. loop' \in [Processes ->
            {"none", "connecting", "polling", "failed", "waiting", "dead"}]
    BY DEF BInv, BotTypeOK, Boot, createAuthBot, Kill, Signal, LoopStep, Connected, Failed,
           AfterFailure, TimerFires, startAuthBotPolling, LoopFails, OtherMessage
  <1>4. up' \subseteq Processes /\ stopped' \subseteq up'
    BY DEF BInv, BotTypeOK, Boot, Kill, Signal, LoopStep, Connected, Failed, TimerFires,
           LoopFails, OtherMessage
  <1>5. botFaults' \in Nat
    BY BotAssumption DEF BInv, BotTypeOK, Boot, Kill, Signal, LoopStep, Connected, Failed,
                         TimerFires, LoopFails, OtherMessage
  <1>6. BotTypeOK'
    BY <1>1, <1>2, <1>3, <1>4, <1>5 DEF BInv, BotTypeOK
  <1>7. RemembersItsChats'
    BY <1>1 DEF BInv, BotTypeOK, RemembersItsChats, NoChats
  <1>8. HashFromItsChat'
    BY <1>1 DEF BInv, HashFromItsChat
  <1>9. QED
    BY <1>6, <1>7, <1>8 DEF BInv

LEMMA ChatKeepsBInv ==
    ASSUME BInv, NEW p \in Processes, NEW c \in Chats,
           (\E x \in BotHashes : ChatStarts(p, c, x)) \/ ContactShared(p, c)
    PROVE  BInv'
  <1> USE BotAssumption
  <1>1. ASSUME NEW x \in BotHashes, ChatStarts(p, c, x) PROVE BInv'
    <2>1. /\ chats' = [chats EXCEPT ![p][c] = x]
          /\ started' = [started EXCEPT ![c] = @ \cup {x}]
          /\ UNCHANGED <<useWebhook, up, stopped, loop, phoneOf, botFaults>>
      BY <1>1 DEF ChatStarts
    <2>2. /\ chats' \in [Processes -> [Chats -> BotHashes \cup {NoBotHash}]]
          /\ started' \in [Chats -> SUBSET BotHashes]
      BY <2>1 DEF BInv, BotTypeOK
    <2>3. BotTypeOK'
      BY <2>1, <2>2 DEF BInv, BotTypeOK
    <2>4. \A d \in Chats : started[d] \subseteq started'[d] /\ x \in started'[c]
      BY <2>1 DEF BInv, BotTypeOK
    <2>5. \A q \in Processes, d \in Chats :
              chats'[q][d] = IF q = p /\ d = c THEN x ELSE chats[q][d]
      BY <2>1 DEF BInv, BotTypeOK
    <2>6. RemembersItsChats'
      BY <2>4, <2>5 DEF BInv, RemembersItsChats
    <2>7. HashFromItsChat'
      BY <2>1, <2>4 DEF BInv, HashFromItsChat, BotTypeOK
    <2>8. QED
      BY <2>3, <2>6, <2>7 DEF BInv
  <1>2. CASE ContactShared(p, c)
    <2>1. /\ phoneOf' = [phoneOf EXCEPT ![chats[p][c]] = c] /\ chats[p][c] # NoBotHash
          /\ UNCHANGED <<useWebhook, up, stopped, loop, chats, started, botFaults>>
      BY <1>2 DEF ContactShared, Payload
    <2>2. chats[p][c] \in BotHashes /\ chats[p][c] \in started[c]
      BY <2>1 DEF BInv, BotTypeOK, RemembersItsChats
    <2>3. BotTypeOK' /\ RemembersItsChats'
      BY <2>1, <2>2 DEF BInv, BotTypeOK, RemembersItsChats
    <2>4. HashFromItsChat'
      BY <2>1, <2>2 DEF BInv, BotTypeOK, HashFromItsChat
    <2>5. QED
      BY <2>3, <2>4 DEF BInv
  <1>3. QED
    BY <1>1, <1>2

LEMMA BotInvariance == BotSpec => []BInv
  <1>1. BInv /\ [BotNext]_botVars => BInv'
    <2> SUFFICES ASSUME BInv, [BotNext]_botVars PROVE BInv'
      OBVIOUS
    <2>1. CASE UNCHANGED botVars
      BY <2>1 DEF botVars, BInv, BotTypeOK, RemembersItsChats, HashFromItsChat
    <2>2. QED
      BY <2>1, LoopKeepsBInv, ChatKeepsBInv DEF BotNext, LoopStep
  <1>2. QED
    BY <1>1, InitBInv, PTL DEF BotSpec

\* The message handler: a phone is written to the hash its chat started with,
\* for any number of chats, of processes and of restarts.
THEOREM HashOfItsChat == BotSpec => []HashFromItsChat
  <1>1. BInv => HashFromItsChat
    BY DEF BInv
  <1>2. QED
    BY <1>1, BotInvariance, PTL

\* authBotStopped: once a process was told to stop, none of its timers and
\* catch blocks launches a loop again.
THEOREM StopFinal == BotSpec => StopIsFinal
  <1>1. ASSUME BInv, [BotNext]_botVars, NEW p \in stopped,
               loop[p] \in {"failed", "waiting", "dead"}
        PROVE  loop'[p] \in {"failed", "waiting", "dead", "none"}
    <2>1. /\ p \in Processes /\ p \in up
          /\ loop \in [Processes ->
                 {"none", "connecting", "polling", "failed", "waiting", "dead"}]
      BY <1>1 DEF BInv, BotTypeOK
    <2>2. CASE UNCHANGED loop
      BY <1>1, <2>2
    <2>3. ASSUME NEW q \in Processes, Boot(q) PROVE loop'[p] = loop[p]
      BY <2>1, <2>3 DEF Boot
    <2>4. ASSUME NEW q \in Processes, Kill(q) PROVE loop'[p] = loop[p] \/ loop'[p] = "none"
      BY <2>1, <2>4 DEF Kill
    <2>5. ASSUME NEW q \in Processes, Signal(q) \/ Connected(q) PROVE loop'[p] = loop[p]
      BY <1>1, <2>1, <2>5 DEF Signal, Connected
    <2>6. ASSUME NEW q \in Processes, Failed(q) \/ TimerFires(q)
          PROVE  loop'[p] = loop[p] \/ loop'[p] = "dead"
      BY <1>1, <2>1, <2>6 DEF Failed, AfterFailure, TimerFires, startAuthBotPolling
    <2>7. ASSUME NEW q \in Processes, LoopFails(q) \/ \E c \in Chats : OtherMessage(q, c)
          PROVE  loop'[p] = loop[p] \/ loop'[p] = "failed"
      BY <2>1, <2>7 DEF LoopFails, OtherMessage
    <2>8. QED
      BY <1>1, <2>2, <2>3, <2>4, <2>5, <2>6, <2>7
         DEF BotNext, ChatStarts, ContactShared, botVars
  <1>2. BInv /\ [BotNext]_botVars =>
            [\A p \in stopped :
                 loop[p] \in {"failed", "waiting", "dead"} =>
                     loop'[p] \in {"failed", "waiting", "dead", "none"}]_botVars
    BY <1>1
  <1>3. QED
    BY <1>2, BotInvariance, PTL DEF BotSpec, StopIsFinal

-----------------------------------------------------------------------------
(* Catalog                                                                 *)

Refresh == [on : {TRUE}, after : 0 .. LastCategory, read : SUBSET Categories,
            steady : SUBSET Categories, ever : SUBSET Categories]

\* Everything up to the cursor that stayed in the shop was read, and nothing
\* that was not in it meanwhile.
RefreshOK(x, shop) ==
    /\ x \in Refresh
    /\ x.steady \subseteq shop /\ shop \subseteq x.ever
    /\ x.read \subseteq x.ever
    /\ \A c \in x.steady : c <= x.after => c \in x.read

CInv ==
    /\ CatalogTypeOK
    /\ \A r \in Refreshes : refreshing[r].on => RefreshOK(refreshing[r], shopCategories)
    /\ ListIsWhole

\* A page has categories of the shop after the cursor, all of them up to its
\* last one when it is full, all of them when it is not.
LEMMA PageIsWhole ==
    ASSUME CatalogTypeOK, NEW after \in 0 .. LastCategory
    PROVE  /\ Page(after) \subseteq shopCategories /\ Page(after) \subseteq Categories
           /\ \A c \in Page(after) : c > after
           /\ Page(after) # {} =>
                  /\ LastOf(Page(after)) \in Page(after)
                  /\ \A c \in shopCategories :
                         after < c /\ c <= LastOf(Page(after)) => c \in Page(after)
           /\ Cardinality(Page(after)) < PageSize =>
                  \A c \in shopCategories : after < c => c \in Page(after)
  <1> DEFINE UpTo(c) == {d \in shopCategories : after < d /\ d <= c}
  <1>1. /\ Page(after) = {c \in shopCategories : c > after /\ Cardinality(UpTo(c)) <= PageSize}
        /\ shopCategories \subseteq 1 .. LastCategory
    BY DEF Page, CatalogTypeOK, Categories
  <1>2. IsFiniteSet(shopCategories)
    <2>1. IsFiniteSet(1 .. LastCategory)
      BY FS_Interval, CatalogAssumption
    <2>2. QED
      BY <1>1, <2>1, FS_Subset
  <1>3. /\ after \in Nat /\ LastCategory \in Nat
        /\ \A c \in shopCategories : c \in Nat /\ c <= LastCategory
    BY <1>1, CatalogAssumption
  <1>4. Page(after) \subseteq shopCategories /\ Page(after) \subseteq Categories
        /\ \A c \in Page(after) : c > after
    BY <1>1 DEF Categories
  <1>5. \A c \in shopCategories :
            IsFiniteSet(UpTo(c)) /\ Cardinality(UpTo(c)) \in Nat
    <2>1. \A c \in shopCategories : UpTo(c) \in SUBSET shopCategories
      OBVIOUS
    <2>2. QED
      BY <1>2, <2>1, FS_Subset, FS_CardinalityType
  <1>6. ASSUME Page(after) # {}
        PROVE  /\ LastOf(Page(after)) \in Page(after)
               /\ \A c \in shopCategories :
                      after < c /\ c <= LastOf(Page(after)) => c \in Page(after)
    <2>1. Page(after) \in SUBSET Nat /\ \A s \in Page(after) : s <= LastCategory
      BY <1>3, <1>4
    <2>2. \E m \in Page(after) : \A s \in Page(after) : s <= m
      BY <1>6, <1>3, <2>1, LargestExists
    <2>3. LastOf(Page(after)) \in Page(after)
      BY <2>2 DEF LastOf
    <2>4. ASSUME NEW c \in shopCategories, after < c, c <= LastOf(Page(after))
          PROVE  c \in Page(after)
      <3> DEFINE m == LastOf(Page(after))
      <3>1. m \in shopCategories /\ Cardinality(UpTo(m)) <= PageSize
        BY <1>1, <2>3
      <3>2. UpTo(c) \in SUBSET UpTo(m)
        <4>1. ASSUME NEW d \in UpTo(c) PROVE d \in UpTo(m)
          <5>1. d \in shopCategories /\ after < d /\ d <= c /\ c <= m
            BY <2>4
          <5> HIDE DEF m
          <5>2. d <= m
            BY <1>3, <3>1, <5>1
          <5>3. QED
            BY <5>1, <5>2
        <4>2. QED
          BY <4>1
      <3>3. Cardinality(UpTo(c)) <= Cardinality(UpTo(m))
        BY <1>5, <3>1, <3>2, FS_Subset
      <3> HIDE DEF UpTo, m
      <3>4. Cardinality(UpTo(c)) <= PageSize
        BY <1>5, <3>1, <3>3, CatalogAssumption
      <3>5. QED
        BY <1>1, <2>4, <3>4
    <2>5. QED
      BY <2>3, <2>4
  <1>7. ASSUME Cardinality(Page(after)) < PageSize
        PROVE  \A c \in shopCategories : after < c => c \in Page(after)
    <2> DEFINE Left == {c \in shopCategories : after < c /\ c \notin Page(after)}
    <2> SUFFICES ASSUME Left # {} PROVE FALSE
      OBVIOUS
    <2>1. Left \in SUBSET Nat
      BY <1>3
    <2>2. PICK c \in Left : \A d \in Left : c <= d
      BY <2>1, SmallestExists
    <2>3. c \in shopCategories /\ after < c /\ c \notin Page(after)
      OBVIOUS
    <2>4. UpTo(c) \in SUBSET (Page(after) \cup {c})
      <3>1. ASSUME NEW d \in UpTo(c), d # c PROVE d \in Page(after)
        <4>1. d \in shopCategories /\ after < d /\ d <= c
          OBVIOUS
        <4>2. d < c
          BY <1>3, <2>3, <3>1, <4>1
        <4>3. d \notin Left
          BY <1>3, <2>2, <2>3, <4>1, <4>2
        <4>4. QED
          BY <4>1, <4>3
      <3>2. QED
        BY <3>1
    <2>5. IsFiniteSet(Page(after)) /\ Cardinality(Page(after)) \in Nat
      BY <1>2, <1>4, FS_Subset, FS_CardinalityType
    <2>6. /\ IsFiniteSet(Page(after) \cup {c})
          /\ Cardinality(Page(after) \cup {c}) = Cardinality(Page(after)) + 1
      BY <2>3, <2>5, FS_AddElement
    <2>7. Cardinality(UpTo(c)) <= Cardinality(Page(after) \cup {c})
      BY <2>4, <2>6, FS_Subset
    <2> HIDE DEF UpTo
    <2>8. Cardinality(UpTo(c)) <= PageSize
      BY <1>5, <1>7, <2>3, <2>5, <2>6, <2>7, CatalogAssumption
    <2>9. c \in Page(after)
      BY <1>1, <2>3, <2>8
    <2>10. QED
      BY <2>3, <2>9
  <1>8. QED
    BY <1>4, <1>6, <1>7

\* What a refresh would store is whole.
LEMMA ReadIsWhole ==
    ASSUME CInv, NEW r \in Refreshes, refreshing[r].on,
           Cardinality(Page(refreshing[r].after)) < PageSize
    PROVE  LET list == refreshing[r].read \cup Page(refreshing[r].after)
           IN  /\ list \subseteq Categories
               /\ refreshing[r].steady \subseteq list
               /\ list \subseteq refreshing[r].ever
  <1> DEFINE x == refreshing[r]
             page == Page(x.after)
  <1>1. RefreshOK(x, shopCategories) /\ CatalogTypeOK
    BY DEF CInv
  <1>2. x.after \in 0 .. LastCategory /\ x.read \subseteq Categories /\ x.steady \subseteq Categories
    BY <1>1 DEF RefreshOK, Refresh
  <1>3. /\ page \subseteq shopCategories /\ page \subseteq Categories
        /\ \A c \in shopCategories : x.after < c => c \in page
    BY <1>1, <1>2, PageIsWhole
  <1>4. /\ x.steady \subseteq shopCategories /\ shopCategories \subseteq x.ever
        /\ x.read \subseteq x.ever
        /\ \A c \in x.steady : c <= x.after => c \in x.read
    BY <1>1 DEF RefreshOK
  <1>5. ASSUME NEW c \in x.steady PROVE c \in x.read \cup page
    <2>1. c \in Nat /\ x.after \in Nat
      BY <1>2, CatalogAssumption DEF Categories
    <2>2. CASE c <= x.after
      BY <1>4, <2>2
    <2>3. CASE x.after < c
      BY <1>3, <1>4, <2>3
    <2>4. QED
      BY <2>1, <2>2, <2>3
  <1>6. QED
    BY <1>2, <1>3, <1>4, <1>5

LEMMA InitCInv == CatalogInit => CInv
  BY CatalogAssumption
     DEF CatalogInit, CInv, CatalogTypeOK, NoRefresh, ListIsWhole

\* A refresh ends.
LEMMA EndKeepsCInv ==
    ASSUME CInv, NEW r \in Refreshes, refreshing[r].on, NEW list \in SUBSET Categories,
           list # {} => refreshing[r].steady \subseteq list /\ list \subseteq refreshing[r].ever,
           Store(r, list), refreshing' = [refreshing EXCEPT ![r] = NoRefresh],
           UNCHANGED <<shopCategories, shopChanges>>
    PROVE  CInv'
  <1>1. refreshing[r].steady \subseteq Categories /\ refreshing[r].ever \subseteq Categories
    BY DEF CInv, RefreshOK, Refresh
  <1>2. cached' \subseteq Categories
        /\ whole' \in [steady : SUBSET Categories, ever : SUBSET Categories]
    BY <1>1 DEF Store, CInv, CatalogTypeOK
  <1>3. CatalogTypeOK'
    BY <1>2 DEF CInv, CatalogTypeOK
  <1>4. \A q \in Refreshes : refreshing'[q].on => RefreshOK(refreshing'[q], shopCategories')
    <2>1. ~ NoRefresh.on
      BY DEF NoRefresh
    <2>2. \A q \in Refreshes : refreshing'[q] = IF q = r THEN NoRefresh ELSE refreshing[q]
      BY DEF CInv, CatalogTypeOK
    <2>3. QED
      BY <2>1, <2>2 DEF CInv, RefreshOK
  <1>5. ListIsWhole'
    BY DEF Store, CInv, ListIsWhole
  <1>6. QED
    BY <1>3, <1>4, <1>5 DEF CInv

LEMMA StartKeepsCInv ==
    ASSUME CInv, NEW r \in Refreshes, StartRefresh(r)
    PROVE  CInv'
  <1> DEFINE x == [on |-> TRUE, after |-> 0, read |-> {},
                   steady |-> shopCategories, ever |-> shopCategories]
  <1>1. /\ refreshing' = [refreshing EXCEPT ![r] = x]
        /\ UNCHANGED <<shopCategories, cached, whole, shopChanges>>
    BY DEF StartRefresh
  <1>2. x \in Refresh
    BY CatalogAssumption DEF CInv, CatalogTypeOK, Refresh, Categories
  <1>3. RefreshOK(x, shopCategories)
    BY <1>2, CatalogAssumption DEF RefreshOK, CInv, CatalogTypeOK, Categories
  <1> HIDE DEF x
  <1>4. CatalogTypeOK'
    BY <1>1, <1>2 DEF CInv, CatalogTypeOK, Refresh
  <1>5. \A q \in Refreshes : refreshing'[q] = IF q = r THEN x ELSE refreshing[q]
    BY <1>1 DEF CInv, CatalogTypeOK
  <1>6. \A q \in Refreshes : refreshing'[q].on => RefreshOK(refreshing'[q], shopCategories')
    BY <1>1, <1>3, <1>5 DEF CInv, RefreshOK
  <1>7. ListIsWhole'
    BY <1>1 DEF CInv, ListIsWhole
  <1>8. QED
    BY <1>4, <1>6, <1>7 DEF CInv

LEMMA NextPageKeepsCInv ==
    ASSUME CInv, NEW r \in Refreshes, NextPage(r)
    PROVE  CInv'
  <1> DEFINE x == refreshing[r]
             page == Page(x.after)
             y == [x EXCEPT !.after = LastOf(page), !.read = @ \cup page]
  <1>1. /\ x.on /\ Cardinality(page) = PageSize
        /\ refreshing' = [refreshing EXCEPT ![r] = y]
        /\ UNCHANGED <<shopCategories, cached, whole, shopChanges>>
    BY DEF NextPage
  <1>2. RefreshOK(x, shopCategories) /\ x \in Refresh /\ CatalogTypeOK
    BY <1>1 DEF CInv, RefreshOK
  <1>3. x.after \in 0 .. LastCategory /\ x.read \subseteq Categories /\ x.steady \subseteq Categories
    BY <1>2 DEF Refresh
  <1>4. page # {}
    <2>1. page # {} \/ Cardinality(page) = 0
      BY FS_EmptySet
    <2>2. PageSize # 0
      BY CatalogAssumption
    <2> HIDE DEF page
    <2>3. QED
      BY <1>1, <2>1, <2>2
  <1>5. /\ page \subseteq shopCategories /\ page \subseteq Categories
        /\ LastOf(page) \in page
        /\ \A c \in shopCategories :
               x.after < c /\ c <= LastOf(page) => c \in page
    BY <1>2, <1>3, <1>4, PageIsWhole
  <1> HIDE DEF page
  <1>6. LastOf(page) \in 0 .. LastCategory
    <2>1. LastOf(page) \in 1 .. LastCategory
      BY <1>5 DEF Categories
    <2>2. QED
      BY <2>1, CatalogAssumption
  <1>7. y \in Refresh /\ y.on
        /\ y.after = LastOf(page) /\ y.read = x.read \cup page
        /\ y.steady = x.steady /\ y.ever = x.ever
    BY <1>1, <1>2, <1>5, <1>6 DEF Refresh
  <1>8. /\ x.steady \subseteq shopCategories /\ shopCategories \subseteq x.ever
        /\ x.read \subseteq x.ever
        /\ \A c \in x.steady : c <= x.after => c \in x.read
    BY <1>2 DEF RefreshOK
  <1> HIDE DEF x, y
  <1>9. ASSUME NEW c \in x.steady, c <= LastOf(page) PROVE c \in x.read \cup page
    <2>1. c \in Nat /\ x.after \in Nat
      BY <1>3, CatalogAssumption DEF Categories
    <2>2. CASE c <= x.after
      BY <1>8, <2>2
    <2>3. CASE x.after < c
      BY <1>5, <1>8, <1>9, <2>3
    <2>4. QED
      BY <2>1, <2>2, <2>3
  <1>10. RefreshOK(y, shopCategories)
    BY <1>5, <1>7, <1>8, <1>9 DEF RefreshOK
  <1>11. CatalogTypeOK'
    BY <1>1, <1>7 DEF CInv, CatalogTypeOK, Refresh
  <1>12. \A q \in Refreshes : refreshing'[q] = IF q = r THEN y ELSE refreshing[q]
    BY <1>1 DEF CInv, CatalogTypeOK
  <1>13. \A q \in Refreshes : refreshing'[q].on => RefreshOK(refreshing'[q], shopCategories')
    BY <1>1, <1>10, <1>12 DEF CInv, RefreshOK
  <1>14. ListIsWhole'
    BY <1>1 DEF CInv, ListIsWhole
  <1>15. QED
    BY <1>11, <1>13, <1>14 DEF CInv

\* What leaves or joins the shop meanwhile is neither required nor forbidden.
LEMMA ShopChangesKeepsCInv ==
    ASSUME CInv, NEW c \in Categories, ShopChanges(c)
    PROVE  CInv'
  <1> DEFINE Then(x) == [x EXCEPT !.steady = @ \ {c}, !.ever = @ \cup {c}]
  <1>1. /\ shopChanges' = shopChanges + 1
        /\ shopCategories' = IF c \in shopCategories THEN shopCategories \ {c}
                             ELSE shopCategories \cup {c}
        /\ UNCHANGED <<cached, whole>>
        /\ refreshing' = [q \in Refreshes |->
               IF ~refreshing[q].on THEN NoRefresh ELSE Then(refreshing[q])]
    BY DEF ShopChanges
  <1>2. \A x \in Refresh :
            /\ Then(x) \in Refresh /\ Then(x).on
            /\ Then(x).after = x.after /\ Then(x).read = x.read
            /\ Then(x).steady = x.steady \ {c} /\ Then(x).ever = x.ever \cup {c}
    BY DEF Refresh
  <1> HIDE DEF Then
  <1>3. ASSUME NEW q \in Refreshes, refreshing[q].on
        PROVE  refreshing'[q] \in Refresh /\ RefreshOK(refreshing'[q], shopCategories')
    <2> DEFINE x == refreshing[q]
               y == refreshing'[q]
    <2>1. RefreshOK(x, shopCategories) /\ x \in Refresh /\ y = Then(x)
      BY <1>1, <1>3 DEF CInv, RefreshOK
    <2> HIDE DEF x, y
    <2>2. /\ y \in Refresh
          /\ y.steady \subseteq shopCategories' /\ shopCategories' \subseteq y.ever
          /\ y.read \subseteq y.ever
          /\ \A d \in y.steady : d <= y.after => d \in y.read
      BY <1>1, <1>2, <2>1 DEF RefreshOK
    <2>3. QED
      BY <2>2 DEF RefreshOK, y
  <1>4. \A q \in Refreshes :
            /\ refreshing'[q] \in {NoRefresh} \cup Refresh
            /\ refreshing'[q].on => RefreshOK(refreshing'[q], shopCategories')
    <2>1. ~ NoRefresh.on
      BY DEF NoRefresh
    <2>2. \A q \in Refreshes : ~refreshing[q].on => refreshing'[q] = NoRefresh
      BY <1>1
    <2>3. QED
      BY <1>3, <2>1, <2>2
  <1>5. refreshing' \in [Refreshes -> {NoRefresh} \cup Refresh]
    <2>1. refreshing' = [q \in Refreshes |-> refreshing'[q]]
      BY <1>1
    <2>2. QED
      BY <1>4, <2>1
  <1>6. shopCategories' \subseteq Categories /\ shopChanges' \in Nat
    BY <1>1 DEF CInv, CatalogTypeOK
  <1>7. CatalogTypeOK'
    BY <1>1, <1>5, <1>6 DEF CInv, CatalogTypeOK, Refresh
  <1>8. ListIsWhole'
    BY <1>1 DEF CInv, ListIsWhole
  <1>9. QED
    BY <1>4, <1>7, <1>8 DEF CInv

LEMMA CatalogInvariance == CatalogSpec => []CInv
  <1>1. CInv /\ [CatalogNext]_catalogVars => CInv'
    <2> SUFFICES ASSUME CInv, [CatalogNext]_catalogVars PROVE CInv'
      OBVIOUS
    <2>1. ASSUME NEW r \in Refreshes, LastPage(r) PROVE CInv'
      <3> DEFINE list == refreshing[r].read \cup Page(refreshing[r].after)
      <3>1. /\ list \subseteq Categories
            /\ refreshing[r].steady \subseteq list
            /\ list \subseteq refreshing[r].ever
        BY <2>1, ReadIsWhole DEF LastPage
      <3>2. /\ refreshing[r].on /\ Store(r, list)
            /\ refreshing' = [refreshing EXCEPT ![r] = NoRefresh]
            /\ UNCHANGED <<shopCategories, shopChanges>>
        BY <2>1 DEF LastPage
      <3> HIDE DEF list
      <3>3. QED
        BY <3>1, <3>2, EndKeepsCInv
    <2>2. ASSUME NEW r \in Refreshes, PageFails(r) PROVE CInv'
      <3>1. {} \in SUBSET Categories
        OBVIOUS
      <3>2. QED
        BY <2>2, <3>1, EndKeepsCInv DEF PageFails, AfterError
    <2>3. CASE CatalogRestart
      BY <2>3 DEF CatalogRestart, CInv, CatalogTypeOK, NoRefresh, ListIsWhole
    <2>4. CASE UNCHANGED catalogVars
      BY <2>4 DEF catalogVars, CInv, CatalogTypeOK, RefreshOK, ListIsWhole
    <2>5. QED
      BY <2>1, <2>2, <2>3, <2>4, StartKeepsCInv, NextPageKeepsCInv, ShopChangesKeepsCInv
         DEF CatalogNext
  <1>2. QED
    BY <1>1, InitCInv, PTL DEF CatalogSpec

\* The categories cached by CategoriesStore: for any page size, however many
\* refreshes overlap and whatever the shop changes between their pages, nothing
\* that was in the shop throughout is missing and nothing is invented.
THEOREM ListWhole == CatalogSpec => []ListIsWhole
  <1>1. CInv => ListIsWhole
    BY DEF CInv
  <1>2. QED
    BY <1>1, CatalogInvariance, PTL

\* A refresh that fails or reads nothing never takes a cached list away.
THEOREM ListKept == CatalogSpec => ListIsKept
  <1>1. [CatalogNext]_catalogVars => [cached # {} /\ cached' = {} => CatalogRestart]_catalogVars
    BY DEF CatalogNext, StartRefresh, NextPage, LastPage, PageFails, Store, ShopChanges
  <1>2. QED
    BY <1>1, PTL DEF CatalogSpec, ListIsKept

-----------------------------------------------------------------------------
(* Devices                                                                 *)

Rows == [device : Devices, token : Tokens, isRevoked : BOOLEAN]

\* A call at work, when there are n rows.
WorkingCall(n) ==
    [at : {"found", "create"}, device : Devices, token : Tokens, exist : 0 .. n]

\* The row a call found is of its own device.
CallOK(x, rs) ==
    x.at = "found" =>
        x.exist \in DOMAIN rs /\ rs[x.exist].device = x.device

HasRow(d) == \E i \in DOMAIN rows : rows[i].device = d

\* What is registered has a row; when no call was cut short one of its rows is
\* live, or the call that revoked the last of them is about to create another.
ReachOK ==
    \A d \in Devices :
        /\ latest[d] # NoToken => HasRow(d)
        /\ deviceFaults = 0 /\ HasRow(d) =>
               \/ LiveRows(d) # {}
               \/ \E k \in Calls : call[k].at = "create" /\ call[k].device = d

\* A device whose calls came one after another has at most one live row, which
\* the call at work found and which has the token registered last.
SerialOK ==
    deviceFaults = 0 =>
        \A d \in Devices \ overlapped :
            /\ \A k1, k2 \in Busy(d) : k1 = k2
            /\ \A k \in Busy(d), i \in LiveRows(d) :
                   call[k].at = "found" /\ i = call[k].exist
            /\ \A i, j \in LiveRows(d) : i = j
            /\ \A i \in LiveRows(d) : rows[i].token = latest[d]

DInv ==
    /\ DevicesTypeOK
    /\ \A k \in Calls : CallOK(call[k], rows)
    /\ ReachOK
    /\ SerialOK

LEMMA InitDInv == DevicesInit => DInv
  <1> SUFFICES ASSUME DevicesInit PROVE DInv
    OBVIOUS
  <1>1. rows = << >> /\ Len(rows) = 0 /\ DOMAIN rows = {}
    BY DEF DevicesInit
  <1>2. rows \in Seq([device : Devices, token : Tokens, isRevoked : BOOLEAN])
    BY <1>1
  <1>3. DevicesTypeOK
    BY <1>1, <1>2 DEF DevicesInit, DevicesTypeOK
  <1>4. \A k \in Calls : CallOK(call[k], rows)
    BY DEF DevicesInit, CallOK, NoCall
  <1>5. ReachOK
    BY <1>1 DEF DevicesInit, ReachOK, HasRow
  <1>6. SerialOK
    BY <1>1 DEF DevicesInit, SerialOK, Busy, LiveRows
  <1>7. QED
    BY <1>3, <1>4, <1>5, <1>6 DEF DInv

\* What the calls and the rows are.
LEMMA DeviceTypes ==
    ASSUME DInv
    PROVE  /\ rows \in Seq(Rows) /\ Len(rows) \in Nat /\ DOMAIN rows = 1 .. Len(rows)
           /\ \A i \in DOMAIN rows : rows[i] \in Rows
           /\ call \in [Calls -> {NoCall} \cup WorkingCall(Len(rows))]
           /\ latest \in [Devices -> Tokens \cup {NoToken}]
           /\ overlapped \subseteq Devices /\ deviceFaults \in Nat
  <1>1. rows \in Seq(Rows)
    BY DEF DInv, DevicesTypeOK, Rows
  <1>2. Len(rows) \in Nat /\ DOMAIN rows = 1 .. Len(rows)
        /\ \A i \in DOMAIN rows : rows[i] \in Rows
    BY <1>1
  <1>3. QED
    BY <1>1, <1>2 DEF DInv, DevicesTypeOK, WorkingCall

LEMMA WorkingCalls ==
    ASSUME NEW n \in Nat, NEW x \in WorkingCall(n)
    PROVE  /\ x # NoCall /\ x.at \in {"found", "create"}
           /\ x.device \in Devices /\ x.token \in Tokens /\ x.exist \in 0 .. n
           /\ [x EXCEPT !.at = "create"] \in WorkingCall(n)
           /\ [x EXCEPT !.at = "create"].at = "create"
           /\ [x EXCEPT !.at = "create"].device = x.device
           /\ [x EXCEPT !.at = "create"].token = x.token
           /\ [x EXCEPT !.at = "create"].exist = x.exist
           /\ x \in WorkingCall(n + 1)
  <1>1. NoCall.at = "idle"
    BY DEF NoCall
  <1>2. x.at \in {"found", "create"} /\ x.device \in Devices /\ x.token \in Tokens
        /\ x.exist \in 0 .. n
    BY DEF WorkingCall
  <1>3. x # NoCall
    BY <1>1, <1>2
  <1>4. [x EXCEPT !.at = "create"] \in WorkingCall(n)
        /\ [x EXCEPT !.at = "create"].at = "create"
        /\ [x EXCEPT !.at = "create"].device = x.device
        /\ [x EXCEPT !.at = "create"].token = x.token
        /\ [x EXCEPT !.at = "create"].exist = x.exist
    BY DEF WorkingCall
  <1>5. 0 .. n \subseteq 0 .. n + 1
    OBVIOUS
  <1>6. x \in WorkingCall(n + 1)
    BY <1>5 DEF WorkingCall
  <1>7. QED
    BY <1>2, <1>3, <1>4, <1>6

\* A call that is at something is a call at work.
LEMMA AtWork ==
    ASSUME DInv, NEW k \in Calls, call[k] # NoCall \/ call[k].at \in {"found", "create"}
    PROVE  call[k] \in WorkingCall(Len(rows)) /\ k \in Busy(call[k].device)
  <1>1. NoCall.at = "idle"
    BY DEF NoCall
  <1>2. call[k] \in WorkingCall(Len(rows))
    BY <1>1, DeviceTypes
  <1>3. call[k] # NoCall
    BY <1>2, DeviceTypes, WorkingCalls
  <1>4. QED
    BY <1>2, <1>3 DEF Busy

LEMMA AddKeepsDInv ==
    ASSUME DInv, NEW k \in Calls, NEW d \in Devices, NEW token \in Tokens,
           AddDevice(k, d, token)
    PROVE  DInv'
  <1>1. PICK i \in IF LiveRows(d) = {} THEN {0} ELSE LiveRows(d) :
            call' = [call EXCEPT ![k] = [at |-> IF i = 0 THEN "create" ELSE "found",
                                         device |-> d, token |-> token, exist |-> i]]
    BY DEF AddDevice
  <1> DEFINE x == [at |-> IF i = 0 THEN "create" ELSE "found",
                   device |-> d, token |-> token, exist |-> i]
  <1>2. /\ call[k] = NoCall /\ notified' = 0
        /\ overlapped' = IF Busy(d) = {} THEN overlapped ELSE overlapped \cup {d}
        /\ UNCHANGED <<rows, latest, deviceFaults>>
    BY DEF AddDevice
  <1>3. /\ i = 0 => LiveRows(d) = {}
        /\ i # 0 => i \in LiveRows(d) /\ i \in DOMAIN rows /\ rows[i].device = d
    BY DeviceTypes DEF LiveRows
  <1>4. i \in 0 .. Len(rows)
    BY <1>3, DeviceTypes
  <1>5. x \in WorkingCall(Len(rows)) /\ x.device = d /\ x.exist = i
        /\ x.at = IF i = 0 THEN "create" ELSE "found"
    BY <1>4 DEF WorkingCall
  <1>6. call' = [call EXCEPT ![k] = x]
    BY <1>1
  <1> HIDE DEF x
  <1>7. \A c \in Calls : call'[c] = IF c = k THEN x ELSE call[c]
    BY <1>6, DeviceTypes
  <1>8. call' \in [Calls -> {NoCall} \cup WorkingCall(Len(rows))]
    BY <1>5, <1>6, DeviceTypes
  <1>9. DevicesTypeOK'
    BY <1>2, <1>8, DeviceTypes DEF DInv, DevicesTypeOK, WorkingCall
  <1>10. \A c \in Calls : CallOK(call'[c], rows')
    BY <1>2, <1>3, <1>5, <1>7 DEF DInv, CallOK
  <1>11. ReachOK'
    <2>1. call[k].at # "create"
      BY <1>2 DEF NoCall
    <2>2. \A e \in Devices :
              (\E c \in Calls : call[c].at = "create" /\ call[c].device = e)
                  => \E c \in Calls : call'[c].at = "create" /\ call'[c].device = e
      BY <1>7, <2>1
    <2>3. QED
      BY <1>2, <2>2 DEF DInv, ReachOK, HasRow, LiveRows
  <1>12. SerialOK'
    <2> SUFFICES ASSUME deviceFaults = 0, NEW e \in Devices \ overlapped'
                 PROVE  /\ \A k1, k2 \in Busy(e)' : k1 = k2
                        /\ \A c \in Busy(e)', j \in LiveRows(e)' :
                               call'[c].at = "found" /\ j = call'[c].exist
                        /\ \A h, j \in LiveRows(e)' : h = j
                        /\ \A j \in LiveRows(e)' : rows'[j].token = latest'[e]
      BY <1>2 DEF SerialOK
    <2>1. e \in Devices \ overlapped /\ LiveRows(e)' = LiveRows(e)
      BY <1>2 DEF LiveRows
    <2>2. CASE e = d
      <3>1. Busy(d) = {}
        BY <1>2, <2>2
      <3>2. \A c \in Busy(d)' : c = k
        BY <1>7, <3>1 DEF Busy
      <3>3. \A j \in LiveRows(d) : i # 0 /\ j = i
        BY <1>3, <2>1, <2>2 DEF DInv, SerialOK
      <3>4. QED
        BY <1>2, <1>5, <1>7, <2>1, <2>2, <3>2, <3>3 DEF DInv, SerialOK
    <2>3. CASE e # d
      <3>1. Busy(e)' = Busy(e) /\ \A c \in Busy(e) : call'[c] = call[c]
        BY <1>2, <1>5, <1>7, <2>3 DEF Busy
      <3>2. QED
        BY <1>2, <2>1, <3>1 DEF DInv, SerialOK
    <2>4. QED
      BY <2>2, <2>3
  <1>13. QED
    BY <1>9, <1>10, <1>11, <1>12 DEF DInv

\* The row found has the token: the call succeeds with it.
LEMMA SameTokenKeepsDInv ==
    ASSUME DInv, NEW k \in Calls, SameToken(k)
    PROVE  DInv'
  <1> DEFINE d == call[k].device
  <1>1. /\ call[k].at = "found" /\ rows[call[k].exist].token = call[k].token
        /\ call' = [call EXCEPT ![k] = NoCall]
        /\ latest' = [latest EXCEPT ![d] = call[k].token]
        /\ notified' = 0
        /\ UNCHANGED <<rows, overlapped, deviceFaults>>
    BY DEF SameToken, Succeed
  <1>2. call[k] \in WorkingCall(Len(rows)) /\ k \in Busy(d)
    BY <1>1, AtWork
  <1>3. d \in Devices /\ call[k].token \in Tokens
    BY <1>2, DeviceTypes, WorkingCalls
  <1>4. call[k].exist \in DOMAIN rows /\ rows[call[k].exist].device = d
    BY <1>1 DEF DInv, CallOK
  <1>5. \A c \in Calls : call'[c] = IF c = k THEN NoCall ELSE call[c]
    BY <1>1, DeviceTypes
  <1>6. \A e \in Devices : latest'[e] = IF e = d THEN call[k].token ELSE latest[e]
    BY <1>1, DeviceTypes
  <1>7. call' \in [Calls -> {NoCall} \cup WorkingCall(Len(rows))]
        /\ latest' \in [Devices -> Tokens \cup {NoToken}]
    BY <1>1, <1>3, DeviceTypes
  <1>8. DevicesTypeOK'
    BY <1>1, <1>7, DeviceTypes DEF DInv, DevicesTypeOK, WorkingCall
  <1>9. \A c \in Calls : CallOK(call'[c], rows')
    BY <1>1, <1>5 DEF DInv, CallOK, NoCall
  <1> HIDE DEF d
  <1>10. ReachOK'
    <2>1. \A e \in Devices : HasRow(e)' = HasRow(e) /\ LiveRows(e)' = LiveRows(e)
      BY <1>1 DEF HasRow, LiveRows
    <2>2. HasRow(d)
      BY <1>4 DEF HasRow
    <2>3. \A e \in Devices :
              (\E c \in Calls : call[c].at = "create" /\ call[c].device = e)
                  => \E c \in Calls : call'[c].at = "create" /\ call'[c].device = e
      BY <1>1, <1>5
    <2>4. QED
      BY <1>1, <1>6, <2>1, <2>2, <2>3 DEF DInv, ReachOK
  <1>11. SerialOK'
    <2> SUFFICES ASSUME deviceFaults = 0, NEW e \in Devices \ overlapped
                 PROVE  /\ \A k1, k2 \in Busy(e)' : k1 = k2
                        /\ \A c \in Busy(e)', j \in LiveRows(e)' :
                               call'[c].at = "found" /\ j = call'[c].exist
                        /\ \A h, j \in LiveRows(e)' : h = j
                        /\ \A j \in LiveRows(e)' : rows'[j].token = latest'[e]
      BY <1>1 DEF SerialOK
    <2>1. LiveRows(e)' = LiveRows(e)
      BY <1>1 DEF LiveRows
    <2>2. Busy(e)' \subseteq Busy(e) /\ \A c \in Busy(e)' : call'[c] = call[c]
      BY <1>5 DEF Busy
    <2>3. CASE e = d
      <3>1. \A j \in LiveRows(d) : j = call[k].exist
        BY <1>2, <2>3 DEF DInv, SerialOK
      <3>2. QED
        BY <1>1, <1>6, <2>1, <2>2, <2>3, <3>1 DEF DInv, SerialOK
    <2>4. CASE e # d
      BY <1>1, <1>6, <2>1, <2>2, <2>4 DEF DInv, SerialOK
    <2>5. QED
      BY <2>3, <2>4
  <1>12. QED
    BY <1>8, <1>9, <1>10, <1>11 DEF DInv

\* The row found is revoked, and the call is about to create another.
LEMMA NewTokenKeepsDInv ==
    ASSUME DInv, NEW k \in Calls, NewToken(k)
    PROVE  DInv'
  <1>0. PICK d : d = call[k].device
    OBVIOUS
  <1> DEFINE r == call[k].exist
             x == [call[k] EXCEPT !.at = "create"]
  <1>1. /\ call[k].at = "found"
        /\ rows' = [rows EXCEPT ![r].isRevoked = TRUE]
        /\ call' = [call EXCEPT ![k] = x]
        /\ notified' = 0
        /\ UNCHANGED <<latest, overlapped, deviceFaults>>
    BY DEF NewToken, Revoke
  <1>2. call[k] \in WorkingCall(Len(rows)) /\ k \in Busy(d)
    BY <1>0, <1>1, AtWork
  <1>3. d \in Devices /\ x \in WorkingCall(Len(rows)) /\ x.at = "create" /\ x.device = d
    BY <1>0, <1>2, DeviceTypes, WorkingCalls
  <1>4. r \in DOMAIN rows /\ rows[r].device = d
    BY <1>0, <1>1 DEF DInv, CallOK
  <1>5. /\ DOMAIN rows' = DOMAIN rows /\ rows' \in Seq(Rows) /\ Len(rows') = Len(rows)
        /\ \A i \in DOMAIN rows :
               /\ rows'[i].device = rows[i].device /\ rows'[i].token = rows[i].token
               /\ i # r => rows'[i].isRevoked = rows[i].isRevoked
               /\ i = r => rows'[i].isRevoked
    <2>1. [rows[r] EXCEPT !.isRevoked = TRUE] \in Rows
      BY <1>4, DeviceTypes DEF Rows
    <2>2. rows' = [rows EXCEPT ![r] = [rows[r] EXCEPT !.isRevoked = TRUE]]
      BY <1>1
    <2>3. rows' \in Seq(Rows) /\ Len(rows') = Len(rows) /\ DOMAIN rows' = DOMAIN rows
      BY <1>4, <2>1, <2>2, DeviceTypes
    <2>4. \A i \in DOMAIN rows :
              rows'[i] = IF i = r THEN [rows[r] EXCEPT !.isRevoked = TRUE] ELSE rows[i]
      BY <2>2
    <2>5. \A i \in DOMAIN rows : rows[i] \in Rows
      BY DeviceTypes
    <2>6. /\ [rows[r] EXCEPT !.isRevoked = TRUE].device = rows[r].device
          /\ [rows[r] EXCEPT !.isRevoked = TRUE].token = rows[r].token
          /\ [rows[r] EXCEPT !.isRevoked = TRUE].isRevoked
      BY <1>4, <2>5 DEF Rows
    <2>7. QED
      BY <2>3, <2>4, <2>6
  <1>6. \A c \in Calls : call'[c] = IF c = k THEN x ELSE call[c]
    BY <1>1, DeviceTypes
  <1>7. call' \in [Calls -> {NoCall} \cup WorkingCall(Len(rows'))]
    BY <1>1, <1>3, <1>5, DeviceTypes
  <1>8. DevicesTypeOK'
    BY <1>1, <1>5, <1>7, DeviceTypes DEF DInv, DevicesTypeOK, WorkingCall, Rows
  <1> HIDE DEF r, x
  <1>9. \A c \in Calls : CallOK(call'[c], rows')
    BY <1>3, <1>5, <1>6 DEF DInv, CallOK
  <1>10. ReachOK'
    <2>1. \A e \in Devices : HasRow(e)' = HasRow(e)
      BY <1>5 DEF HasRow
    <2>2. \A e \in Devices : e # d => LiveRows(e)' = LiveRows(e)
      BY <1>4, <1>5 DEF LiveRows
    <2>3. \A e \in Devices :
              (\E c \in Calls : call[c].at = "create" /\ call[c].device = e)
                  => \E c \in Calls : call'[c].at = "create" /\ call'[c].device = e
      BY <1>1, <1>6
    <2>4. call'[k].at = "create" /\ call'[k].device = d
      BY <1>3, <1>6
    <2>5. QED
      BY <1>1, <2>1, <2>2, <2>3, <2>4 DEF DInv, ReachOK
  <1>11. SerialOK'
    <2> SUFFICES ASSUME deviceFaults = 0, NEW e \in Devices \ overlapped
                 PROVE  /\ \A k1, k2 \in Busy(e)' : k1 = k2
                        /\ \A c \in Busy(e)', j \in LiveRows(e)' :
                               call'[c].at = "found" /\ j = call'[c].exist
                        /\ \A h, j \in LiveRows(e)' : h = j
                        /\ \A j \in LiveRows(e)' : rows'[j].token = latest'[e]
      BY <1>1 DEF SerialOK
    <2>1. Busy(e)' \subseteq Busy(e) /\ \A c \in Busy(e)' : c # k => call'[c] = call[c]
      BY <1>2, <1>3, <1>6 DEF Busy
    <2>2. CASE e = d
      <3>1. \A j \in LiveRows(d) : j = r
        BY <1>2, <2>2 DEF DInv, SerialOK, r
      <3>2. LiveRows(d)' = {}
        BY <1>5, <3>1 DEF LiveRows
      <3>3. QED
        BY <2>1, <2>2, <3>2 DEF DInv, SerialOK
    <2>3. CASE e # d
      <3>1. LiveRows(e)' = LiveRows(e)
            /\ \A j \in LiveRows(e) : rows'[j].token = rows[j].token
        BY <1>4, <1>5, <2>3 DEF LiveRows
      <3>2. k \notin Busy(e)
        BY <1>0, <2>3 DEF Busy
      <3>3. QED
        BY <1>1, <2>1, <3>1, <3>2 DEF DInv, SerialOK
    <2>4. QED
      BY <2>2, <2>3
  <1>12. QED
    BY <1>8, <1>9, <1>10, <1>11 DEF DInv

\* A new row is live and has the token the call was made with.
LEMMA CreateKeepsDInv ==
    ASSUME DInv, NEW k \in Calls, CreateDevice(k)
    PROVE  DInv'
  <1>0. PICK d : d = call[k].device
    OBVIOUS
  <1> DEFINE new == [device |-> d, token |-> call[k].token, isRevoked |-> FALSE]
             n == Len(rows)
  <1>1. /\ call[k].at = "create"
        /\ rows' = Append(rows, new)
        /\ call' = [call EXCEPT ![k] = NoCall]
        /\ latest' = [latest EXCEPT ![d] = call[k].token]
        /\ notified' = 0
        /\ UNCHANGED <<overlapped, deviceFaults>>
    BY <1>0 DEF CreateDevice, Created, Succeed
  <1>2. call[k] \in WorkingCall(n) /\ k \in Busy(d) /\ n \in Nat
    BY <1>0, <1>1, AtWork, DeviceTypes
  <1>3. d \in Devices /\ call[k].token \in Tokens
    BY <1>0, <1>2, WorkingCalls
  <1>4. new \in Rows /\ new.device = d /\ new.token = call[k].token /\ ~new.isRevoked
    BY <1>3 DEF Rows
  <1> HIDE DEF new
  <1>5. /\ rows' \in Seq(Rows) /\ Len(rows') = n + 1
        /\ DOMAIN rows = 1 .. n /\ DOMAIN rows' = 1 .. n + 1
        /\ \A i \in DOMAIN rows : rows'[i] = rows[i]
        /\ rows'[n + 1] = new
    BY <1>1, <1>4, DeviceTypes
  <1>6. /\ DOMAIN rows' = DOMAIN rows \cup {n + 1} /\ n + 1 \notin DOMAIN rows
    BY <1>2, <1>5
  <1>7. \A c \in Calls : call'[c] = IF c = k THEN NoCall ELSE call[c]
    BY <1>1, DeviceTypes
  <1>8. \A e \in Devices : latest'[e] = IF e = d THEN call[k].token ELSE latest[e]
    BY <1>1, DeviceTypes
  <1>9. DevicesTypeOK'
    <2>1. WorkingCall(n) \subseteq WorkingCall(n + 1)
      BY <1>0, <1>2, WorkingCalls
    <2>2. call' \in [Calls -> {NoCall} \cup WorkingCall(Len(rows'))]
      BY <1>1, <1>5, <2>1, DeviceTypes
    <2>3. latest' \in [Devices -> Tokens \cup {NoToken}]
      BY <1>1, <1>3, DeviceTypes
    <2>4. notified' \in 0 .. Len(rows')
      BY <1>1, <1>2, <1>5
    <2> HIDE DEF n
    <2>5. QED
      BY <1>1, <1>5, <2>2, <2>3, <2>4, DeviceTypes DEF DInv, DevicesTypeOK, WorkingCall, Rows
  <1> HIDE DEF n
  <1>10. \A c \in Calls : CallOK(call'[c], rows')
    <2>1. ASSUME NEW c \in Calls PROVE CallOK(call'[c], rows')
      <3>1. CASE c = k
        BY <1>7, <3>1 DEF CallOK, NoCall
      <3>2. CASE c # k
        <4>1. call'[c] = call[c] /\ CallOK(call[c], rows)
          BY <1>7, <3>2 DEF DInv
        <4>2. QED
          BY <1>5, <1>6, <4>1 DEF CallOK
      <3>3. QED
        BY <3>1, <3>2
    <2>2. QED
      BY <2>1
  <1>11. n + 1 \in LiveRows(d)'
         /\ \A e \in Devices : LiveRows(e)' = IF e = d THEN LiveRows(d) \cup {n + 1}
                                              ELSE LiveRows(e)
    BY <1>4, <1>5, <1>6 DEF LiveRows
  <1>12. ReachOK'
    <2>1. \A e \in Devices : e # d => HasRow(e)' = HasRow(e)
      BY <1>4, <1>5, <1>6 DEF HasRow
    <2>2. HasRow(d)'
      BY <1>4, <1>5, <1>6 DEF HasRow
    <2>3. \A e \in Devices : e # d =>
              ((\E c \in Calls : call[c].at = "create" /\ call[c].device = e)
                  => \E c \in Calls : call'[c].at = "create" /\ call'[c].device = e)
      BY <1>0, <1>7
    <2>4. \A e \in Devices : e # d =>
              LiveRows(e)' = LiveRows(e) /\ latest'[e] = latest[e]
      BY <1>8, <1>11
    <2>5. ASSUME NEW e \in Devices
          PROVE  /\ latest'[e] # NoToken => HasRow(e)'
                 /\ deviceFaults = 0 /\ HasRow(e)' =>
                        \/ LiveRows(e)' # {}
                        \/ \E c \in Calls : call'[c].at = "create" /\ call'[c].device = e
      <3>1. CASE e = d
        BY <1>11, <2>2, <3>1
      <3>2. CASE e # d
        BY <2>1, <2>3, <2>4, <3>2 DEF DInv, ReachOK
      <3>3. QED
        BY <3>1, <3>2
    <2>6. QED
      BY <1>1, <2>5 DEF ReachOK
  <1>13. SerialOK'
    <2> SUFFICES ASSUME deviceFaults = 0, NEW e \in Devices \ overlapped
                 PROVE  /\ \A k1, k2 \in Busy(e)' : k1 = k2
                        /\ \A c \in Busy(e)', j \in LiveRows(e)' :
                               call'[c].at = "found" /\ j = call'[c].exist
                        /\ \A h, j \in LiveRows(e)' : h = j
                        /\ \A j \in LiveRows(e)' : rows'[j].token = latest'[e]
      BY <1>1 DEF SerialOK
    <2>1. Busy(e)' \subseteq Busy(e) \ {k} /\ \A c \in Busy(e)' : call'[c] = call[c]
      BY <1>7 DEF Busy
    <2>2. CASE e = d
      <3>1. LiveRows(d) = {}
        BY <1>1, <1>2, <2>2 DEF DInv, SerialOK
      <3>2. LiveRows(d)' = {n + 1}
        BY <1>3, <1>11, <3>1
      <3>3. Busy(d)' = {}
        BY <1>2, <2>1, <2>2 DEF DInv, SerialOK
      <3>4. rows'[n + 1].token = latest'[d]
        BY <1>3, <1>4, <1>5, <1>8
      <3>5. QED
        BY <2>2, <3>2, <3>3, <3>4
    <2>3. CASE e # d
      <3>1. /\ LiveRows(e)' = LiveRows(e) /\ latest'[e] = latest[e]
            /\ \A j \in LiveRows(e) : rows'[j] = rows[j]
        BY <1>5, <1>8, <1>11, <2>3 DEF LiveRows
      <3>2. QED
        BY <2>1, <3>1 DEF DInv, SerialOK
    <2>4. QED
      BY <2>2, <2>3
  <1>14. QED
    BY <1>9, <1>10, <1>12, <1>13 DEF DInv

LEMMA CutShortKeepsDInv ==
    ASSUME DInv, NEW k \in Calls, CutShort(k)
    PROVE  DInv'
  <1>1. /\ call' = [call EXCEPT ![k] = NoCall] /\ notified' = 0
        /\ deviceFaults' = deviceFaults + 1
        /\ UNCHANGED <<rows, latest, overlapped>>
    BY DEF CutShort
  <1>2. \A c \in Calls : call'[c] = IF c = k THEN NoCall ELSE call[c]
    BY <1>1, DeviceTypes
  <1>3. call' \in [Calls -> {NoCall} \cup WorkingCall(Len(rows'))]
    BY <1>1, DeviceTypes
  <1>4. deviceFaults' \in Nat /\ deviceFaults' # 0
    BY <1>1, DeviceTypes
  <1>5. DevicesTypeOK'
    BY <1>1, <1>3, <1>4, DeviceTypes DEF DInv, DevicesTypeOK, WorkingCall
  <1>6. \A c \in Calls : CallOK(call'[c], rows')
    BY <1>1, <1>2 DEF DInv, CallOK, NoCall
  <1>7. ReachOK' /\ SerialOK'
    BY <1>1, <1>4 DEF DInv, ReachOK, SerialOK, HasRow
  <1>8. QED
    BY <1>5, <1>6, <1>7 DEF DInv

\* What a push goes to: nothing, or a live row.
PushOK == notified # 0 => notified \in DOMAIN rows /\ ~rows[notified].isRevoked

LEMMA PushedRow ==
    ASSUME DInv, NEW o \in Owners, PushRow(o) # 0
    PROVE  PushRow(o) \in DOMAIN rows /\ ~rows[PushRow(o)].isRevoked
  <1> DEFINE live == UNION {LiveRows(<<o, i>>) : i \in DeviceIds}
  <1>1. live \subseteq DOMAIN rows /\ \A i \in live : ~rows[i].isRevoked
    BY DEF LiveRows
  <1>2. live # {} /\ PushRow(o) = CHOOSE i \in live : \A j \in live : j <= i
    BY DEF PushRow
  <1> HIDE DEF live
  <1>3. live \in SUBSET Nat /\ Len(rows) \in Nat /\ \A i \in live : i <= Len(rows)
    BY <1>1, DeviceTypes
  <1>4. \E i \in live : \A j \in live : j <= i
    BY <1>2, <1>3, LargestExists
  <1>5. PushRow(o) \in live
    BY <1>2, <1>4
  <1>6. QED
    BY <1>1, <1>5

LEMMA PushKeepsDInv ==
    ASSUME DInv, NEW o \in Owners, sendToUser(o)
    PROVE  DInv' /\ PushOK'
  <1>1. notified' = PushRow(o) /\ UNCHANGED <<rows, call, latest, overlapped, deviceFaults>>
    BY DEF sendToUser, sendToDevices
  <1>2. PushRow(o) # 0 => PushRow(o) \in 1 .. Len(rows) /\ ~rows[PushRow(o)].isRevoked
    BY PushedRow, DeviceTypes
  <1>3. notified' \in 0 .. Len(rows)
    BY <1>1, <1>2, DeviceTypes
  <1>4. DevicesTypeOK'
    BY <1>1, <1>3 DEF DInv, DevicesTypeOK
  <1>5. ReachOK' /\ SerialOK' /\ \A k \in Calls : CallOK(call'[k], rows')
    BY <1>1 DEF DInv, ReachOK, SerialOK, HasRow, LiveRows, Busy, CallOK
  <1>6. PushOK'
    BY <1>1, <1>2, DeviceTypes DEF PushOK
  <1>7. QED
    BY <1>4, <1>5, <1>6 DEF DInv

LEMMA DevicesInvariance == DevicesSpec => [](DInv /\ PushOK)
  <1>1. DevicesInit => DInv /\ PushOK
    BY InitDInv DEF DevicesInit, PushOK
  <1>2. DInv /\ PushOK /\ [DevicesNext]_deviceVars => (DInv /\ PushOK)'
    <2> SUFFICES ASSUME DInv, PushOK, [DevicesNext]_deviceVars PROVE DInv' /\ PushOK'
      OBVIOUS
    <2>1. ASSUME NEW k \in Calls,
                 \/ \E d \in Devices, token \in Tokens : AddDevice(k, d, token)
                 \/ SameToken(k) \/ NewToken(k) \/ CreateDevice(k) \/ CutShort(k)
          PROVE  DInv' /\ PushOK'
      <3>1. notified' = 0
        BY <2>1 DEF AddDevice, SameToken, NewToken, CreateDevice, CutShort, Succeed
      <3>2. DInv'
        BY <2>1, AddKeepsDInv, SameTokenKeepsDInv, NewTokenKeepsDInv, CreateKeepsDInv,
           CutShortKeepsDInv
      <3>3. QED
        BY <3>1, <3>2 DEF PushOK
    <2>2. CASE UNCHANGED deviceVars
      BY <2>2 DEF deviceVars, DInv, DevicesTypeOK, ReachOK, SerialOK, HasRow, LiveRows, Busy,
                  CallOK, PushOK
    <2>3. QED
      BY <2>1, <2>2, PushKeepsDInv
         DEF DevicesNext, handleOrderFulfilled, controlOrder
  <1>3. QED
    BY <1>1, <1>2, PTL DEF DevicesSpec

\* POST /auth/add-device: while no call is cut short, a device that registered
\* keeps a live row or has a call that is about to create one, however many calls
\* for it overlap.
THEOREM StaysReachable == DevicesSpec => []DeviceStaysReachable
  <1>1. DInv => DeviceStaysReachable
    <2> SUFFICES ASSUME DInv, deviceFaults = 0, NEW d \in Devices, latest[d] # NoToken
                 PROVE  LiveRows(d) # {} \/ Busy(d) # {}
      BY DEF DeviceStaysReachable
    <2>1. \A k \in Calls : call[k].at = "create" /\ call[k].device = d => k \in Busy(d)
      BY AtWork
    <2>2. QED
      BY <2>1 DEF DInv, ReachOK
  <1>2. QED
    BY <1>1, DevicesInvariance, PTL

\* Pushes: without overlapping or broken calls the row a push goes to is the only
\* live one of its device and has the token registered last.
THEOREM PushToLastToken == DevicesSpec => []PushGoesToLastToken
  <1>1. DInv /\ PushOK => PushGoesToLastToken
    <2> SUFFICES ASSUME DInv, PushOK, notified # 0, deviceFaults = 0,
                        rows[notified].device \notin overlapped
                 PROVE  /\ rows[notified].token = latest[rows[notified].device]
                        /\ LiveRows(rows[notified].device) = {notified}
      BY DEF PushGoesToLastToken
    <2>1. notified \in DOMAIN rows /\ ~rows[notified].isRevoked
      BY DEF PushOK
    <2>2. rows[notified].device \in Devices
      BY <2>1, DeviceTypes DEF Rows
    <2>3. notified \in LiveRows(rows[notified].device)
      BY <2>1 DEF LiveRows
    <2>4. QED
      BY <2>2, <2>3 DEF DInv, SerialOK
  <1>2. QED
    BY <1>1, DevicesInvariance, PTL

-----------------------------------------------------------------------------
(* PhoneCodes                                                              *)

SmsRows == [phone : Numbers, code : Codes, expired : BOOLEAN]
CallRows ==
    [userPhone : {Plus(n) : n \in Numbers} \cup {Bare(n) : n \in Numbers},
     isConfirmed : BOOLEAN, expired : BOOLEAN]

\* What a request may be at: a code it is about to store was sent, or is the test
\* number's, and a call it is about to confirm exists.
CodeRequestOK(r, rs, sent) ==
    /\ \/ r = NoRequest
       \/ r \in [at : {"send", "store"}, phone : Numbers, code : Codes]
       \/ r \in [at : {"order"}, phone : Numbers]
       \/ r \in [at : {"confirm"}, row : DOMAIN rs]
    /\ r.at = "store" /\ r.phone # TestNumber => r.code \in sent[r.phone]
    /\ r.at \in {"send", "store"} /\ r.phone = TestNumber => r.code = TestCode

\* A stored code was sent to its phone, or is the test number's.
SmsOK(x, sent) ==
    /\ x \in SmsRows
    /\ x.phone # TestNumber => x.code \in sent[x.phone]
    /\ x.phone = TestNumber => x.code = TestCode

\* A request is about to confirm a row.
Confirming(requests, i) ==
    \E q \in CodeRequests : requests[q].at = "confirm" /\ requests[q].row = i

\* Calls of a number that are confirmed, or found by a report that is about to
\* confirm them: a second report finds the same row as long as it is pending.
Claimed(rs, requests, n) ==
    {i \in DOMAIN rs : rs[i].userPhone = Bare(n)
                       /\ (rs[i].isConfirmed \/ Confirming(requests, i))}

ClaimedOK(rs, requests, reported) ==
    \A n \in Numbers \ {TestNumber} :
        Cardinality(Claimed(rs, requests, n)) <= reported[n]

PInv ==
    /\ smsCodes \in Seq(SmsRows) /\ waitCodes \in Seq(CallRows)
    /\ sentCodes \in [Numbers -> SUBSET Codes]
    /\ reports \in [Numbers -> Nat] /\ calls \in [Numbers -> Nat]
    /\ \A n \in Numbers : reports[n] > 0 => calls[n] > 0
    /\ DOMAIN codeRequest = CodeRequests
    /\ \A q \in CodeRequests : CodeRequestOK(codeRequest[q], waitCodes, sentCodes)
    /\ \A i \in DOMAIN smsCodes : SmsOK(smsCodes[i], sentCodes)
    /\ ClaimedOK(waitCodes, codeRequest, reports)

LEMMA PhonesDiffer ==
    \A m, n : /\ Bare(m) = Bare(n) => m = n
              /\ Bare(m) # Plus(n)
  BY DEF Bare, Plus

LEMMA ClaimedIsFinite ==
    ASSUME NEW rs \in Seq(CallRows), NEW requests, NEW n
    PROVE  /\ IsFiniteSet(Claimed(rs, requests, n))
           /\ Cardinality(Claimed(rs, requests, n)) \in Nat
  <1>1. DOMAIN rs = 1 .. Len(rs) /\ Len(rs) \in Nat
    OBVIOUS
  <1>2. IsFiniteSet(1 .. Len(rs))
    BY <1>1, FS_Interval
  <1>3. Claimed(rs, requests, n) \in SUBSET (1 .. Len(rs))
    BY <1>1 DEF Claimed
  <1>4. QED
    BY <1>2, <1>3, FS_Subset, FS_CardinalityType

\* Nothing more is claimed.
LEMMA FewerClaimed ==
    ASSUME NEW rs \in Seq(CallRows), NEW requests, NEW rs2 \in Seq(CallRows), NEW requests2,
           NEW reported \in [Numbers -> Nat], ClaimedOK(rs, requests, reported),
           \A n \in Numbers \ {TestNumber} :
               Claimed(rs2, requests2, n) \subseteq Claimed(rs, requests, n)
    PROVE  ClaimedOK(rs2, requests2, reported)
  <1> SUFFICES ASSUME NEW n \in Numbers \ {TestNumber}
               PROVE  Cardinality(Claimed(rs2, requests2, n)) <= reported[n]
    BY DEF ClaimedOK
  <1>1. /\ IsFiniteSet(Claimed(rs, requests, n))
        /\ Cardinality(Claimed(rs, requests, n)) \in Nat
        /\ Cardinality(Claimed(rs2, requests2, n)) \in Nat
    BY ClaimedIsFinite
  <1>2. Cardinality(Claimed(rs2, requests2, n)) <= Cardinality(Claimed(rs, requests, n))
    BY <1>1, FS_Subset
  <1>3. Cardinality(Claimed(rs, requests, n)) <= reported[n] /\ reported[n] \in Nat
    BY DEF ClaimedOK
  <1>4. QED
    BY <1>1, <1>2, <1>3

LEMMA InitPInv == PhoneCodesInit => PInv
  <1> SUFFICES ASSUME PhoneCodesInit PROVE PInv
    OBVIOUS
  <1>1. /\ smsCodes = << >> /\ waitCodes = << >> /\ DOMAIN waitCodes = {} /\ DOMAIN smsCodes = {}
        /\ smsCodes \in Seq(SmsRows) /\ waitCodes \in Seq(CallRows)
    BY DEF PhoneCodesInit
  <1>2. /\ sentCodes \in [Numbers -> SUBSET Codes] /\ reports \in [Numbers -> Nat]
        /\ calls \in [Numbers -> Nat] /\ \A n \in Numbers : reports[n] = 0
        /\ DOMAIN codeRequest = CodeRequests
        /\ \A q \in CodeRequests : codeRequest[q] = NoRequest
    BY DEF PhoneCodesInit
  <1>3. CodeRequestOK(NoRequest, waitCodes, sentCodes)
    BY DEF CodeRequestOK, NoRequest
  <1>4. ClaimedOK(waitCodes, codeRequest, reports)
    <2> SUFFICES ASSUME NEW n \in Numbers
                 PROVE  Cardinality(Claimed(waitCodes, codeRequest, n)) <= reports[n]
      BY DEF ClaimedOK
    <2>1. Claimed(waitCodes, codeRequest, n) = {}
      BY <1>1 DEF Claimed
    <2>2. Cardinality(Claimed(waitCodes, codeRequest, n)) = 0
      BY <2>1, FS_EmptySet
    <2>3. QED
      BY <1>2, <2>2
  <1>5. \A n \in Numbers : reports[n] > 0 => calls[n] > 0
    BY <1>2
  <1>6. /\ \A q \in CodeRequests : CodeRequestOK(codeRequest[q], waitCodes, sentCodes)
        /\ \A i \in DOMAIN smsCodes : SmsOK(smsCodes[i], sentCodes)
    BY <1>1, <1>2, <1>3
  <1>7. QED
    BY <1>1, <1>2, <1>4, <1>5, <1>6 DEF PInv

\* A request that goes on to anything but confirming claims no call.
LEMMA ProceedKeepsPInv ==
    ASSUME PInv, NEW q \in CodeRequests, NEW r, Proceed(q, r),
           r.at # "confirm", UNCHANGED <<waitCodes, calls, reports>>,
           smsCodes' \in Seq(SmsRows), sentCodes' \in [Numbers -> SUBSET Codes],
           \A n \in Numbers : sentCodes[n] \subseteq sentCodes'[n],
           CodeRequestOK(r, waitCodes, sentCodes'),
           \A i \in DOMAIN smsCodes' : SmsOK(smsCodes'[i], sentCodes')
    PROVE  PInv'
  <1>1. codeRequest' = [codeRequest EXCEPT ![q] = r]
    BY DEF Proceed
  <1>2. /\ DOMAIN codeRequest' = CodeRequests
        /\ \A p \in CodeRequests : codeRequest'[p] = IF p = q THEN r ELSE codeRequest[p]
    BY <1>1 DEF PInv
  <1>3. ASSUME NEW p \in CodeRequests PROVE CodeRequestOK(codeRequest'[p], waitCodes, sentCodes')
    <2>1. CASE p = q
      BY <1>2, <2>1
    <2>2. CASE p # q
      <3> DEFINE x == codeRequest[p]
      <3>1. codeRequest'[p] = x /\ CodeRequestOK(x, waitCodes, sentCodes)
        BY <1>2, <2>2 DEF PInv
      <3> HIDE DEF x
      <3>2. x.at = "store" => x.phone \in Numbers
        BY <3>1 DEF CodeRequestOK, NoRequest
      <3>3. QED
        BY <3>1, <3>2 DEF CodeRequestOK
    <2>3. QED
      BY <2>1, <2>2
  <1>4. \A i : Confirming(codeRequest', i) => Confirming(codeRequest, i)
    BY <1>2 DEF Confirming
  <1>5. \A n \in Numbers \ {TestNumber} :
            Claimed(waitCodes, codeRequest', n) \subseteq Claimed(waitCodes, codeRequest, n)
    BY <1>4 DEF Claimed
  <1>6. ClaimedOK(waitCodes, codeRequest', reports)
    BY <1>5, FewerClaimed DEF PInv
  <1>7. QED
    BY <1>2, <1>3, <1>6 DEF PInv

\* The calls' rows change: none goes away, and each request keeps what it is at
\* or does nothing any more.
LEMMA RowsKeepPInv ==
    ASSUME PInv, waitCodes' \in Seq(CallRows), DOMAIN waitCodes \subseteq DOMAIN waitCodes',
           DOMAIN codeRequest' = CodeRequests,
           \A p \in CodeRequests :
               codeRequest'[p] = codeRequest[p] \/ codeRequest'[p] = NoRequest,
           UNCHANGED <<smsCodes, sentCodes, calls, reports>>,
           \A n \in Numbers \ {TestNumber} :
               Claimed(waitCodes', codeRequest', n) \subseteq Claimed(waitCodes, codeRequest, n)
    PROVE  PInv'
  <1>1. CodeRequestOK(NoRequest, waitCodes', sentCodes')
    BY DEF CodeRequestOK, NoRequest
  <1>2. \A p \in CodeRequests : CodeRequestOK(codeRequest[p], waitCodes', sentCodes')
    <2> SUFFICES ASSUME NEW p \in CodeRequests
                 PROVE  CodeRequestOK(codeRequest[p], waitCodes', sentCodes)
      OBVIOUS
    <2> DEFINE x == codeRequest[p]
    <2>1. CodeRequestOK(x, waitCodes, sentCodes)
      BY DEF PInv
    <2> HIDE DEF x
    <2>2. CodeRequestOK(x, waitCodes', sentCodes)
      BY <2>1 DEF CodeRequestOK
    <2>3. QED
      BY <2>2 DEF x
  <1>3. ClaimedOK(waitCodes', codeRequest', reports)
    BY FewerClaimed DEF PInv
  <1>4. QED
    BY <1>1, <1>2, <1>3 DEF PInv

\* A call that is ordered is of its own number and not confirmed; the test
\* number's is confirmed at once.
LEMMA NewCallKeepsPInv ==
    ASSUME PInv, NEW m \in Numbers, NEW confirmed \in BOOLEAN,
           confirmed => m = TestNumber,
           waitCodes' = NewCall(m, confirmed),
           DOMAIN codeRequest' = CodeRequests,
           \A p \in CodeRequests :
               codeRequest'[p] = codeRequest[p] \/ codeRequest'[p] = NoRequest,
           UNCHANGED <<smsCodes, sentCodes, calls, reports>>
    PROVE  PInv'
  <1> DEFINE new == [userPhone |-> Bare(m), isConfirmed |-> confirmed, expired |-> FALSE]
             l == Len(waitCodes)
  <1>1. new \in CallRows /\ new.userPhone = Bare(m) /\ new.isConfirmed = confirmed
    BY DEF CallRows
  <1>2. waitCodes' = Append(waitCodes, new) /\ waitCodes \in Seq(CallRows)
    BY DEF NewCall, PInv
  <1> HIDE DEF new
  <1>3. /\ waitCodes' \in Seq(CallRows) /\ l \in Nat
        /\ DOMAIN waitCodes = 1 .. l /\ DOMAIN waitCodes' = 1 .. l + 1
        /\ \A i \in 1 .. l : waitCodes'[i] = waitCodes[i]
        /\ waitCodes'[l + 1] = new
    BY <1>1, <1>2
  <1>4. ASSUME NEW q \in CodeRequests, codeRequest'[q].at = "confirm"
        PROVE  codeRequest'[q] = codeRequest[q] /\ codeRequest[q].row \in DOMAIN waitCodes
    <2> DEFINE x == codeRequest[q]
    <2>1. codeRequest'[q] = x /\ CodeRequestOK(x, waitCodes, sentCodes)
      BY <1>4 DEF PInv, NoRequest
    <2> HIDE DEF x
    <2>2. x.at = "confirm"
      BY <1>4, <2>1
    <2>3. x.row \in DOMAIN waitCodes
      BY <2>1, <2>2 DEF CodeRequestOK, NoRequest
    <2>4. QED
      BY <2>1, <2>3 DEF x
  <1>5. ASSUME NEW n \in Numbers \ {TestNumber}, NEW i \in Claimed(waitCodes', codeRequest', n)
        PROVE  i \in Claimed(waitCodes, codeRequest, n)
    <2>1. /\ i \in 1 .. l + 1 /\ waitCodes'[i].userPhone = Bare(n)
          /\ waitCodes'[i].isConfirmed \/ Confirming(codeRequest', i)
      BY <1>3, <1>5 DEF Claimed
    <2>2. Confirming(codeRequest', i) => Confirming(codeRequest, i) /\ i \in DOMAIN waitCodes
      BY <1>4 DEF Confirming
    <2>3. CASE i = l + 1
      <3>1. n = m
        BY <1>1, <1>3, <2>1, <2>3, PhonesDiffer
      <3>2. ~confirmed
        BY <3>1
      <3>3. ~waitCodes'[i].isConfirmed
        BY <1>1, <1>3, <2>3, <3>2
      <3>4. i \in 1 .. l
        BY <1>3, <2>1, <2>2, <3>3
      <3> HIDE DEF l
      <3>5. QED
        BY <1>3, <2>3, <3>4
    <2>4. CASE i # l + 1
      <3>1. i \in DOMAIN waitCodes /\ waitCodes'[i] = waitCodes[i]
        BY <1>3, <2>1, <2>4
      <3>2. QED
        BY <2>1, <2>2, <3>1 DEF Claimed
    <2>5. QED
      BY <2>3, <2>4
  <1>6. DOMAIN waitCodes \subseteq DOMAIN waitCodes'
    BY <1>3
  <1> HIDE DEF l
  <1>7. QED
    BY <1>3, <1>5, <1>6, RowsKeepPInv

\* A row changes but keeps its phone, and is confirmed after that only if it was
\* claimed before.
LEMMA RowChangeKeepsPInv ==
    ASSUME PInv, NEW i \in DOMAIN waitCodes, NEW new \in CallRows,
           waitCodes' = [waitCodes EXCEPT ![i] = new],
           new.userPhone = waitCodes[i].userPhone,
           new.isConfirmed => waitCodes[i].isConfirmed \/ Confirming(codeRequest, i),
           DOMAIN codeRequest' = CodeRequests,
           \A p \in CodeRequests :
               codeRequest'[p] = codeRequest[p] \/ codeRequest'[p] = NoRequest,
           UNCHANGED <<smsCodes, sentCodes, calls, reports>>
    PROVE  PInv'
  <1>1. waitCodes \in Seq(CallRows)
    BY DEF PInv
  <1>2. /\ waitCodes' \in Seq(CallRows) /\ DOMAIN waitCodes' = DOMAIN waitCodes
        /\ \A j \in DOMAIN waitCodes : waitCodes'[j] = IF j = i THEN new ELSE waitCodes[j]
    BY <1>1
  <1>3. \A j : Confirming(codeRequest', j) => Confirming(codeRequest, j)
    BY DEF Confirming, NoRequest
  <1>4. ASSUME NEW n \in Numbers \ {TestNumber}, NEW j \in Claimed(waitCodes', codeRequest', n)
        PROVE  j \in Claimed(waitCodes, codeRequest, n)
    <2>1. /\ j \in DOMAIN waitCodes /\ waitCodes'[j].userPhone = Bare(n)
          /\ waitCodes'[j].isConfirmed \/ Confirming(codeRequest', j)
      BY <1>2, <1>4 DEF Claimed
    <2>2. waitCodes'[j].userPhone = waitCodes[j].userPhone
      BY <1>2, <2>1
    <2>3. waitCodes'[j].isConfirmed => waitCodes[j].isConfirmed \/ Confirming(codeRequest, j)
      BY <1>2, <2>1
    <2>4. QED
      BY <1>3, <2>1, <2>2, <2>3 DEF Claimed
  <1>5. QED
    BY <1>2, <1>4, RowsKeepPInv

\* A report claims one pending call of its number at most.
LEMMA VerifyKeepsPInv ==
    ASSUME PInv, NEW q \in CodeRequests, NEW m \in Numbers, verifyWaitCode(q, m)
    PROVE  PInv'
  <1> DEFINE pending == Unconfirmed(Bare(m))
             i == CHOOSE k \in pending : \A j \in pending : j <= k
             r == [at |-> "confirm", row |-> i]
  <1>1. /\ reports' = [reports EXCEPT ![m] = @ + 1]
        /\ UNCHANGED <<smsCodes, waitCodes, sentCodes, calls>> /\ calls[m] > 0
        /\ IF pending = {} THEN codeRequest' = codeRequest
           ELSE codeRequest' = [codeRequest EXCEPT ![q] = r]
    BY DEF verifyWaitCode, Proceed
  <1>2. /\ reports' \in [Numbers -> Nat]
        /\ \A n \in Numbers : reports'[n] = IF n = m THEN reports[n] + 1 ELSE reports[n]
        /\ reports \in [Numbers -> Nat]
        /\ \A n \in Numbers : reports'[n] > 0 => calls'[n] > 0
    BY <1>1 DEF PInv
  <1>3. ClaimedOK(waitCodes, codeRequest, reports) /\ waitCodes \in Seq(CallRows)
    BY DEF PInv
  <1>4. CASE pending = {}
    <2>1. ClaimedOK(waitCodes, codeRequest, reports')
      <3> SUFFICES ASSUME NEW n \in Numbers \ {TestNumber}
                   PROVE  Cardinality(Claimed(waitCodes, codeRequest, n)) <= reports'[n]
        BY DEF ClaimedOK
      <3>1. /\ Cardinality(Claimed(waitCodes, codeRequest, n)) <= reports[n]
            /\ Cardinality(Claimed(waitCodes, codeRequest, n)) \in Nat
        BY <1>3, ClaimedIsFinite DEF ClaimedOK
      <3>2. reports[n] \in Nat /\ reports[n] <= reports'[n] /\ reports'[n] \in Nat
        BY <1>2
      <3>3. QED
        BY <3>1, <3>2
    <2>2. codeRequest' = codeRequest
      BY <1>1, <1>4
    <2>3. QED
      BY <1>1, <1>2, <2>1, <2>2 DEF PInv
  <1>5. CASE pending # {}
    <2>1. i \in pending
      <3>1. DOMAIN waitCodes = 1 .. Len(waitCodes) /\ Len(waitCodes) \in Nat
        BY <1>3
      <3>2. pending \in SUBSET Nat /\ \A k \in pending : k <= Len(waitCodes)
        BY <3>1 DEF Unconfirmed
      <3>3. \E k \in pending : \A j \in pending : j <= k
        BY <1>5, <3>1, <3>2, LargestExists
      <3> HIDE DEF pending
      <3>4. QED
        BY <3>3
    <2>2. i \in DOMAIN waitCodes /\ waitCodes[i].userPhone = Bare(m)
      BY <2>1 DEF Unconfirmed
    <2>3. r.at = "confirm" /\ r.row = i /\ r \in [at : {"confirm"}, row : {i}]
      OBVIOUS
    <2>4. codeRequest' = [codeRequest EXCEPT ![q] = r]
      BY <1>1, <1>5
    <2> HIDE DEF r, i, pending
    <2>5. /\ DOMAIN codeRequest' = CodeRequests
          /\ \A p \in CodeRequests : codeRequest'[p] = IF p = q THEN r ELSE codeRequest[p]
      BY <2>4 DEF PInv
    <2>6. CodeRequestOK(r, waitCodes, sentCodes)
      <3>1. r \in [at : {"confirm"}, row : DOMAIN waitCodes]
        BY <2>2, <2>3
      <3>2. QED
        BY <2>3, <3>1 DEF CodeRequestOK
    <2>7. \A j : Confirming(codeRequest', j) => j = i \/ Confirming(codeRequest, j)
      BY <2>3, <2>5 DEF Confirming
    <2>8. ClaimedOK(waitCodes, codeRequest', reports')
      <3> SUFFICES ASSUME NEW n \in Numbers \ {TestNumber}
                   PROVE  Cardinality(Claimed(waitCodes, codeRequest', n)) <= reports'[n]
        BY DEF ClaimedOK
      <3> DEFINE before == Claimed(waitCodes, codeRequest, n)
                 after == Claimed(waitCodes, codeRequest', n)
      <3>1. /\ IsFiniteSet(before) /\ Cardinality(before) \in Nat /\ Cardinality(after) \in Nat
            /\ Cardinality(before) <= reports[n]
        BY <1>3, ClaimedIsFinite DEF ClaimedOK
      <3>2. after \subseteq before \cup {i} /\ (n # m => after \subseteq before)
        BY <2>2, <2>7, PhonesDiffer DEF Claimed
      <3>3. IsFiniteSet(before \cup {i})
            /\ Cardinality(before \cup {i}) \in Nat
            /\ Cardinality(before \cup {i}) <= Cardinality(before) + 1
        <4>1. IsFiniteSet(before \cup {i})
              /\ Cardinality(before \cup {i}) =
                     IF i \in before THEN Cardinality(before) ELSE Cardinality(before) + 1
          BY <3>1, FS_AddElement
        <4> HIDE DEF before
        <4>2. QED
          BY <3>1, <4>1
      <3>4. reports[n] \in Nat
        BY <1>2
      <3>5. CASE n = m
        <4>1. Cardinality(after) <= Cardinality(before \cup {i})
          BY <3>2, <3>3, FS_Subset
        <4>2. reports'[n] = reports[n] + 1
          BY <1>2, <3>5
        <4> HIDE DEF before, after
        <4>3. Cardinality(after) <= reports'[n]
          BY <3>1, <3>3, <3>4, <4>1, <4>2
        <4>4. QED
          BY <4>3 DEF after
      <3>6. CASE n # m
        <4>1. Cardinality(after) <= Cardinality(before)
          BY <3>1, <3>2, <3>6, FS_Subset
        <4>2. reports'[n] = reports[n]
          BY <1>2, <3>6
        <4> HIDE DEF before, after
        <4>3. Cardinality(after) <= reports'[n]
          BY <3>1, <3>4, <4>1, <4>2
        <4>4. QED
          BY <4>3 DEF after
      <3>7. QED
        BY <3>5, <3>6
    <2>9. QED
      BY <1>1, <1>2, <2>5, <2>6, <2>8 DEF PInv
  <1>6. QED
    BY <1>4, <1>5

LEMMA SmsSentMore ==
    ASSUME NEW sent, NEW sent2, \A n \in Numbers : sent[n] \subseteq sent2[n],
           NEW x, SmsOK(x, sent)
    PROVE  SmsOK(x, sent2)
  BY DEF SmsOK, SmsRows

\* Codes by SMS: a code is stored only after it was sent.
LEMMA SmsKeepsPInv ==
    ASSUME PInv, NEW q \in CodeRequests,
           \/ \E n \in Numbers, c \in Codes : requestCode(q, n, c)
           \/ sendSmsCode(q) \/ StoreCode(q)
    PROVE  PInv'
  <1>0. /\ smsCodes \in Seq(SmsRows) /\ sentCodes \in [Numbers -> SUBSET Codes]
        /\ \A i \in DOMAIN smsCodes : SmsOK(smsCodes[i], sentCodes)
        /\ CodeRequestOK(codeRequest[q], waitCodes, sentCodes)
    BY DEF PInv
  <1> DEFINE x == codeRequest[q]
  <1>1. ASSUME NEW n \in Numbers, NEW c \in Codes, requestCode(q, n, c) PROVE PInv'
    <2> DEFINE r == [at |-> IF n = TestNumber THEN "store" ELSE "send",
                     phone |-> n, code |-> c]
    <2>1. CodeRequestOK(r, waitCodes, sentCodes) /\ r.at # "confirm"
      BY <1>1 DEF requestCode, CodeRequestOK
    <2>2. Proceed(q, r) /\ UNCHANGED <<smsCodes, waitCodes, sentCodes, calls, reports>>
      BY <1>1 DEF requestCode
    <2> HIDE DEF r
    <2>3. QED
      BY <1>0, <2>1, <2>2, ProceedKeepsPInv
  <1>2. CASE sendSmsCode(q)
    <2> DEFINE r == [x EXCEPT !.at = "store"]
    <2>1. /\ x.at = "send" /\ Proceed(q, r)
          /\ sentCodes' = [sentCodes EXCEPT ![x.phone] = @ \cup {x.code}]
          /\ UNCHANGED <<smsCodes, waitCodes, calls, reports>>
      BY <1>2 DEF sendSmsCode
    <2>2. /\ x \in [at : {"send", "store"}, phone : Numbers, code : Codes]
          /\ x.phone = TestNumber => x.code = TestCode
      BY <1>0, <2>1 DEF CodeRequestOK, NoRequest
    <2>3. /\ r \in [at : {"send", "store"}, phone : Numbers, code : Codes]
          /\ r.at = "store" /\ r.phone = x.phone /\ r.code = x.code
          /\ x.phone \in Numbers /\ x.code \in Codes
          /\ x.phone = TestNumber => x.code = TestCode
      BY <2>2
    <2> HIDE DEF x, r
    <2>4. /\ sentCodes' \in [Numbers -> SUBSET Codes]
          /\ \A n \in Numbers : sentCodes[n] \subseteq sentCodes'[n]
          /\ x.code \in sentCodes'[x.phone]
      BY <1>0, <2>1, <2>3
    <2>5. CodeRequestOK(r, waitCodes, sentCodes')
      BY <2>3, <2>4 DEF CodeRequestOK
    <2>6. \A i \in DOMAIN smsCodes : SmsOK(smsCodes[i], sentCodes')
      BY <1>0, <2>4, SmsSentMore
    <2>7. QED
      BY <1>0, <2>1, <2>3, <2>4, <2>5, <2>6, ProceedKeepsPInv
  <1>3. CASE StoreCode(q)
    <2> DEFINE new == [phone |-> x.phone, code |-> x.code, expired |-> FALSE]
    <2>1. /\ x.at = "store" /\ smsCodes' = Append(smsCodes, new)
          /\ Proceed(q, NoRequest)
          /\ UNCHANGED <<waitCodes, sentCodes, calls, reports>>
      BY <1>3 DEF StoreCode
    <2>2. x \in [at : {"send", "store"}, phone : Numbers, code : Codes]
          /\ (x.phone # TestNumber => x.code \in sentCodes[x.phone])
          /\ (x.phone = TestNumber => x.code = TestCode)
      BY <1>0, <2>1 DEF CodeRequestOK, NoRequest
    <2>3. SmsOK(new, sentCodes) /\ new \in SmsRows
      BY <2>2 DEF SmsOK, SmsRows
    <2> HIDE DEF x, new
    <2>4. smsCodes' \in Seq(SmsRows) /\ \A i \in DOMAIN smsCodes' : SmsOK(smsCodes'[i], sentCodes)
      <3>1. /\ DOMAIN smsCodes = 1 .. Len(smsCodes) /\ Len(smsCodes) \in Nat
            /\ DOMAIN smsCodes' = 1 .. Len(smsCodes) + 1
            /\ \A i \in 1 .. Len(smsCodes) : smsCodes'[i] = smsCodes[i]
            /\ smsCodes'[Len(smsCodes) + 1] = new /\ smsCodes' \in Seq(SmsRows)
        BY <1>0, <2>1, <2>3
      <3>2. QED
        BY <1>0, <2>3, <3>1
    <2>5. CodeRequestOK(NoRequest, waitCodes, sentCodes) /\ NoRequest.at # "confirm"
      BY DEF CodeRequestOK, NoRequest
    <2>6. QED
      BY <1>0, <2>1, <2>4, <2>5, ProceedKeepsPInv
  <1>4. QED
    BY <1>1, <1>2, <1>3

\* Calls, and requests that end.
LEMMA CallsKeepPInv ==
    ASSUME PInv, NEW q \in CodeRequests,
           \/ \E n \in Numbers : requestWaitCode(q, n)
           \/ CallOrdered(q) \/ CallConfirmed(q) \/ RequestEnds(q)
    PROVE  PInv'
  <1>0. /\ smsCodes \in Seq(SmsRows) /\ sentCodes \in [Numbers -> SUBSET Codes]
        /\ \A i \in DOMAIN smsCodes : SmsOK(smsCodes[i], sentCodes)
        /\ CodeRequestOK(codeRequest[q], waitCodes, sentCodes)
        /\ waitCodes \in Seq(CallRows) /\ DOMAIN codeRequest = CodeRequests
    BY DEF PInv
  <1> DEFINE x == codeRequest[q]
  <1>1. ASSUME NEW n \in Numbers, requestWaitCode(q, n) PROVE PInv'
    <2>1. CASE n = TestNumber
      BY <1>0, <1>1, <2>1, NewCallKeepsPInv DEF requestWaitCode
    <2>2. CASE n # TestNumber
      <3> DEFINE r == [at |-> "order", phone |-> n]
      <3>1. CodeRequestOK(r, waitCodes, sentCodes) /\ r.at # "confirm"
        BY DEF CodeRequestOK
      <3>2. Proceed(q, r) /\ UNCHANGED <<smsCodes, waitCodes, sentCodes, calls, reports>>
        BY <1>1, <2>2 DEF requestWaitCode
      <3> HIDE DEF r
      <3>3. QED
        BY <1>0, <3>1, <3>2, ProceedKeepsPInv
    <2>3. QED
      BY <2>1, <2>2
  <1>2. CASE CallOrdered(q)
    <2>1. /\ x.at = "order" /\ waitCodes' = NewCall(x.phone, FALSE)
          /\ codeRequest' = [codeRequest EXCEPT ![q] = NoRequest]
          /\ UNCHANGED <<smsCodes, sentCodes, calls, reports>>
      BY <1>2 DEF CallOrdered, Proceed
    <2>2. x.phone \in Numbers
      BY <1>0, <2>1 DEF CodeRequestOK, NoRequest
    <2> HIDE DEF x
    <2>3. QED
      BY <1>0, <2>1, <2>2, NewCallKeepsPInv
  <1>3. CASE CallConfirmed(q)
    <2> DEFINE i == x.row
               new == [waitCodes[i] EXCEPT !.isConfirmed = TRUE]
    <2>1. /\ x.at = "confirm" /\ waitCodes' = [waitCodes EXCEPT ![i] = new]
          /\ codeRequest' = [codeRequest EXCEPT ![q] = NoRequest]
          /\ UNCHANGED <<smsCodes, sentCodes, calls, reports>>
      BY <1>3 DEF CallConfirmed, Proceed, Confirm
    <2>2. i \in DOMAIN waitCodes /\ Confirming(codeRequest, i)
      BY <1>0, <2>1 DEF CodeRequestOK, NoRequest, Confirming
    <2>3. waitCodes[i] \in CallRows
      BY <1>0, <2>2
    <2>4. new \in CallRows /\ new.userPhone = waitCodes[i].userPhone
      BY <2>3 DEF CallRows
    <2> HIDE DEF i, new
    <2>5. QED
      BY <1>0, <2>1, <2>2, <2>4, RowChangeKeepsPInv
  <1>4. CASE RequestEnds(q)
    <2>1. CodeRequestOK(NoRequest, waitCodes, sentCodes) /\ NoRequest.at # "confirm"
      BY DEF CodeRequestOK, NoRequest
    <2>2. QED
      BY <1>0, <1>4, <2>1, ProceedKeepsPInv DEF RequestEnds
  <1>5. QED
    BY <1>1, <1>2, <1>3, <1>4

LEMMA ExpiryKeepsPInv ==
    ASSUME PInv,
           \/ \E i \in DOMAIN waitCodes : CallExpires(i)
           \/ \E i \in DOMAIN smsCodes : CodeExpires(i)
    PROVE  PInv'
  <1>1. ASSUME NEW i \in DOMAIN waitCodes, CallExpires(i) PROVE PInv'
    <2> DEFINE new == [waitCodes[i] EXCEPT !.expired = TRUE]
    <2>1. waitCodes' = [waitCodes EXCEPT ![i] = new]
          /\ UNCHANGED <<smsCodes, codeRequest, sentCodes, calls, reports>>
      BY <1>1 DEF CallExpires
    <2>2. waitCodes[i] \in CallRows /\ DOMAIN codeRequest = CodeRequests
      BY DEF PInv
    <2>3. /\ new \in CallRows /\ new.userPhone = waitCodes[i].userPhone
          /\ new.isConfirmed => waitCodes[i].isConfirmed
      BY <2>2 DEF CallRows
    <2> HIDE DEF new
    <2>4. QED
      BY <2>1, <2>2, <2>3, RowChangeKeepsPInv
  <1>2. ASSUME NEW i \in DOMAIN smsCodes, CodeExpires(i) PROVE PInv'
    <2> DEFINE new == [smsCodes[i] EXCEPT !.expired = TRUE]
    <2>1. smsCodes' = [smsCodes EXCEPT ![i] = new]
          /\ UNCHANGED <<waitCodes, codeRequest, sentCodes, calls, reports>>
      BY <1>2 DEF CodeExpires
    <2>2. smsCodes \in Seq(SmsRows) /\ \A j \in DOMAIN smsCodes : SmsOK(smsCodes[j], sentCodes)
      BY DEF PInv
    <2>3. new \in SmsRows /\ SmsOK(new, sentCodes)
      BY <2>2 DEF SmsOK, SmsRows
    <2> HIDE DEF new
    <2>4. smsCodes' \in Seq(SmsRows) /\ \A j \in DOMAIN smsCodes' : SmsOK(smsCodes'[j], sentCodes)
      BY <2>1, <2>2, <2>3
    <2>5. QED
      BY <2>1, <2>4 DEF PInv
  <1>3. QED
    BY <1>1, <1>2

LEMMA CallPlacedKeepsPInv ==
    ASSUME PInv, NEW m \in Numbers, PlaceCall(m)
    PROVE  PInv'
  <1>1. /\ UNCHANGED <<smsCodes, waitCodes, codeRequest, sentCodes, reports>>
        /\ calls' = [calls EXCEPT ![m] = @ + 1]
    BY DEF PlaceCall
  <1>2. /\ calls' \in [Numbers -> Nat]
        /\ \A n \in Numbers : reports'[n] > 0 => calls'[n] > 0
    BY <1>1 DEF PInv
  <1>3. QED
    BY <1>1, <1>2 DEF PInv

LEMMA CodesInvariance == PhoneCodesSpec => []PInv
  <1>1. PInv /\ [PhoneCodesNext]_codeVars => PInv'
    <2> SUFFICES ASSUME PInv, [PhoneCodesNext]_codeVars PROVE PInv'
      OBVIOUS
    <2>1. CASE UNCHANGED codeVars
      BY <2>1 DEF codeVars, PInv
    <2>2. QED
      BY <2>1, SmsKeepsPInv, CallsKeepPInv, VerifyKeepsPInv, ExpiryKeepsPInv,
         CallPlacedKeepsPInv
         DEF PhoneCodesNext
  <1>2. QED
    BY <1>1, InitPInv, PTL DEF PhoneCodesSpec

\* SMS and call codes: whatever requests and reports overlap, repeat or fail, a
\* code that check-code accepts was sent to its phone, one that register() and
\* login() accept was sent to some phone, and no phone has more confirmed requests
\* than calls it placed, unless one of its calls was reported again.
THEOREM ProvedPhone == PhoneCodesSpec => []PhoneIsProved
  <1>1. PInv => PhoneIsProved
    <2> SUFFICES ASSUME PInv PROVE PhoneIsProved
      OBVIOUS
    <2>1. \A n \in Numbers \ {TestNumber}, c \in Codes : checkCode(n, c) => c \in sentCodes[n]
      BY DEF PInv, checkCode, SmsOK
    <2>2. ASSUME NEW c \in Codes, requireValidSmsCode(c)
          PROVE  c = TestCode \/ \E n \in Numbers : c \in sentCodes[n]
      <3>1. PICK i \in DOMAIN smsCodes : smsCodes[i].code = c
        BY <2>2 DEF requireValidSmsCode
      <3>2. SmsOK(smsCodes[i], sentCodes) /\ smsCodes[i].phone \in Numbers
        BY <3>1 DEF PInv, SmsOK, SmsRows
      <3>3. QED
        BY <3>1, <3>2 DEF SmsOK
    <2>3. ASSUME NEW n \in Numbers \ {TestNumber}
          PROVE  /\ ConfirmedCalls(n) # {} => calls[n] > 0
                 /\ Cardinality(ConfirmedCalls(n)) <= calls[n] \/ ReportedAgain(n)
      <3> DEFINE checked == ConfirmedCalls(n)
                 claimed == Claimed(waitCodes, codeRequest, n)
      <3>1. checked \subseteq claimed
        BY DEF ConfirmedCalls, checkWaitCode, Claimed
      <3>2. /\ IsFiniteSet(claimed) /\ Cardinality(claimed) \in Nat
            /\ Cardinality(claimed) <= reports[n] /\ reports[n] \in Nat /\ calls[n] \in Nat
            /\ reports[n] > 0 => calls[n] > 0
        BY ClaimedIsFinite DEF PInv, ClaimedOK
      <3> HIDE DEF checked, claimed
      <3>3. /\ Cardinality(checked) <= Cardinality(claimed) /\ Cardinality(checked) \in Nat
            /\ checked # {} => Cardinality(checked) # 0
        BY <3>1, <3>2, FS_Subset, FS_CardinalityType, FS_EmptySet
      <3>4. Cardinality(checked) <= reports[n]
        BY <3>2, <3>3
      <3>5. checked # {} => calls[n] > 0
        BY <3>2, <3>3, <3>4
      <3>6. Cardinality(checked) <= calls[n] \/ ReportedAgain(n)
        BY <3>2, <3>3, <3>4 DEF ReportedAgain
      <3>7. QED
        BY <3>5, <3>6 DEF checked
    <2>4. QED
      BY <2>1, <2>2, <2>3 DEF PhoneIsProved
  <1>2. QED
    BY <1>1, CodesInvariance, PTL

-----------------------------------------------------------------------------
(* Types                                                                   *)

LEMMA PickerTypes == PickerSpec => []PickerTypeOK
  <1>1. PickerInit => PickerTypeOK
    BY DEF PickerInit, PickerTypeOK
  <1>2. PickerTypeOK /\ [PickerNext]_pickerVars => PickerTypeOK'
    <2> SUFFICES ASSUME PickerTypeOK, [PickerNext]_pickerVars PROVE PickerTypeOK'
      OBVIOUS
    <2>1. ASSUME NEW k \in Clicks, Click(k) \/ AnswerFails(k) PROVE PickerTypeOK'
      BY <2>1 DEF Click, AnswerFails, PickerTypeOK
    <2>2. ASSUME NEW k \in Clicks, NEW a \in Sights \cup {Vague}, NEW inApp \in BOOLEAN,
                 Answer(k, a, inApp)
          PROVE  PickerTypeOK'
      BY <2>2 DEF Answer, showError, showResult, createMap, PickerTypeOK
    <2>3. CASE UNCHANGED pickerVars
      BY <2>3 DEF pickerVars, PickerTypeOK
    <2>4. QED
      BY <2>1, <2>2, <2>3 DEF PickerNext
  <1>3. QED
    BY <1>1, <1>2, PTL DEF PickerSpec

\* Calls and reports are counted up to their bounds, and every slot does one
\* thing.
SlotsOK ==
    /\ calls \in [Numbers -> 0 .. MaxCalls]
    /\ reports \in [Numbers -> 0 .. MaxReports]
    /\ codeRequest = [q \in CodeRequests |-> codeRequest[q]]

LEMMA ProceedKeepsSlots ==
    ASSUME SlotsOK, NEW q, NEW r, Proceed(q, r) \/ UNCHANGED codeRequest,
           UNCHANGED <<calls, reports>>
    PROVE  SlotsOK'
  BY DEF SlotsOK, Proceed

LEMMA SlotsInvariance == PhoneCodesSpec => []SlotsOK
  <1>1. PhoneCodesInit => SlotsOK
    BY PhoneCodesAssumption DEF PhoneCodesInit, SlotsOK
  <1>2. SlotsOK /\ [PhoneCodesNext]_codeVars => SlotsOK'
    <2> SUFFICES ASSUME SlotsOK, [PhoneCodesNext]_codeVars PROVE SlotsOK'
      OBVIOUS
    <2>1. ASSUME NEW q \in CodeRequests, NEW n \in Numbers, verifyWaitCode(q, n)
          PROVE  SlotsOK'
      <3>1. reports[n] < MaxReports /\ reports' = [reports EXCEPT ![n] = @ + 1]
        BY <2>1 DEF verifyWaitCode
      <3>2. reports[n] + 1 \in 0 .. MaxReports
        BY <3>1, PhoneCodesAssumption DEF SlotsOK
      <3>3. reports' \in [Numbers -> 0 .. MaxReports]
        BY <3>1, <3>2 DEF SlotsOK
      <3>4. codeRequest' = [p \in CodeRequests |-> codeRequest'[p]]
        BY <2>1 DEF verifyWaitCode, Proceed, SlotsOK
      <3>5. UNCHANGED calls
        BY <2>1 DEF verifyWaitCode
      <3>6. QED
        BY <3>3, <3>4, <3>5 DEF SlotsOK
    <2>2. ASSUME NEW q \in CodeRequests,
                 \/ \E n \in Numbers, c \in Codes : requestCode(q, n, c)
                 \/ \E n \in Numbers : requestWaitCode(q, n)
                 \/ sendSmsCode(q) \/ StoreCode(q) \/ CallOrdered(q) \/ CallConfirmed(q)
                 \/ RequestEnds(q)
          PROVE  SlotsOK'
      <3>1. UNCHANGED <<calls, reports>> /\ (UNCHANGED codeRequest \/ \E r : Proceed(q, r))
        BY <2>2 DEF requestCode, requestWaitCode, sendSmsCode, StoreCode, CallOrdered,
           CallConfirmed, RequestEnds
      <3>2. QED
        BY <3>1, ProceedKeepsSlots
    <2>3. CASE UNCHANGED <<codeRequest, calls, reports>>
      BY <2>3 DEF SlotsOK
    <2>4. ASSUME NEW n \in Numbers, PlaceCall(n) PROVE SlotsOK'
      <3>1. /\ calls[n] < MaxCalls /\ calls' = [calls EXCEPT ![n] = @ + 1]
            /\ UNCHANGED <<codeRequest, reports>>
        BY <2>4 DEF PlaceCall
      <3>2. calls[n] + 1 \in 0 .. MaxCalls
        BY <3>1, PhoneCodesAssumption DEF SlotsOK
      <3>3. QED
        BY <3>1, <3>2 DEF SlotsOK
    <2>5. QED
      BY <2>1, <2>2, <2>3, <2>4 DEF PhoneCodesNext, codeVars, CallExpires, CodeExpires
  <1>3. QED
    BY <1>1, <1>2, PTL DEF PhoneCodesSpec

LEMMA CodeTypes == PhoneCodesSpec => []PhoneCodesTypeOK
  <1>1. PInv /\ SlotsOK => PhoneCodesTypeOK
    <2> SUFFICES ASSUME PInv, SlotsOK PROVE PhoneCodesTypeOK
      OBVIOUS
    <2> DEFINE Doing == {NoRequest}
           \cup [at : {"send", "store"}, phone : Numbers, code : Codes]
           \cup [at : {"order"}, phone : Numbers]
           \cup [at : {"confirm"}, row : DOMAIN waitCodes]
    <2>1. codeRequest \in [CodeRequests -> Doing]
      <3>1. \A q \in CodeRequests : codeRequest[q] \in Doing
        BY DEF PInv, CodeRequestOK
      <3>2. codeRequest = [q \in CodeRequests |-> codeRequest[q]]
        BY DEF SlotsOK
      <3> HIDE DEF Doing
      <3>3. QED
        BY <3>1, <3>2
    <2>2. QED
      BY <2>1 DEF PInv, SmsRows, CallRows, SlotsOK, PhoneCodesTypeOK
  <1>2. QED
    BY <1>1, CodesInvariance, SlotsInvariance, PTL

-----------------------------------------------------------------------------
(* All services together                                                   *)

LEMMA ServicesStart ==
    ServicesInit => /\ GeoInit /\ PickerInit /\ BotInit /\ DevicesInit
                    /\ CatalogInit /\ PhoneCodesInit /\ AppleInit /\ LoanInit
  BY DEF ServicesInit

\* A step of the services is a step of the one in focus, and none of the others.
LEMMA ServicesMove ==
    [ServicesNext]_allVars =>
        /\ [GeoNext]_geoVars /\ [PickerNext]_pickerVars
        /\ [BotNext]_botVars /\ [DevicesNext]_deviceVars
        /\ [CatalogNext]_catalogVars /\ [PhoneCodesNext]_codeVars
        /\ [AppleNext]_appleVars /\ [LoanNext]_loanVars
  <1>1. UNCHANGED allVars =>
            UNCHANGED <<geoVars, pickerVars, botVars, deviceVars, catalogVars, codeVars,
                        appleVars, loanVars>>
    BY DEF allVars
  <1>2. QED
    BY <1>1 DEF ServicesNext

\* The run of the services checks each of them as it is: a behaviour of all of
\* them is a behaviour of the estimates, of the address page, of the bot, of the
\* devices, of the catalog, of the codes, of the Apple sign-in and of the loan.
THEOREM Composition ==
    ServicesSpec => /\ GeoSpec /\ PickerSpec /\ BotSpec /\ DevicesSpec
                    /\ CatalogSpec /\ PhoneCodesSpec /\ AppleSpec /\ LoanSpec
  BY ServicesStart, ServicesMove, PTL
     DEF ServicesSpec, GeoSpec, PickerSpec, BotSpec, DevicesSpec, CatalogSpec, PhoneCodesSpec,
         AppleSpec, LoanSpec

\* Type correctness of all services: tables, caches and requests in hand.
THEOREM ServicesTypeCorrect == ServicesSpec => []ServicesTypeOK
  <1>1. BInv => BotTypeOK
    BY DEF BInv
  <1>2. DInv => DevicesTypeOK
    BY DEF DInv
  <1>3. CInv => CatalogTypeOK
    BY DEF CInv
  <1>4. /\ GeoTypeOK /\ PickerTypeOK /\ BotTypeOK /\ DevicesTypeOK
        /\ CatalogTypeOK /\ PhoneCodesTypeOK /\ AppleTypeOK /\ LoanTypeOK
        => ServicesTypeOK
    BY DEF ServicesTypeOK
  <1>5. QED
    BY <1>1, <1>2, <1>3, <1>4, Composition, GeoTypeCorrect, PickerTypes, BotInvariance,
       DevicesInvariance, CatalogInvariance, CodeTypes, AppleTypeCorrect, LoanTypeCorrect, PTL

\* Whatever is proved of a service alone holds of it among the others: every
\* safety property that the run of the services checks.
THEOREM ServicesAreSafe ==
    ServicesSpec =>
        /\ [](/\ PriceShownIsCurrent /\ PageShowsOneAnswer /\ HashFromItsChat
              /\ DeviceStaysReachable /\ PushGoesToLastToken /\ ListIsWhole
              /\ PhoneIsProved /\ NonceIsSingleUse /\ GrantsAreRevoked
              /\ RegistersInTime)
        /\ StopIsFinal /\ ListIsKept
  BY Composition, PriceIsCurrent, OneAnswer, HashOfItsChat, StaysReachable, PushToLastToken,
     ListWhole, ProvedPhone, NonceUsedOnce, NoGrantSurvives, RegisteredInTime, StopFinal,
     ListKept, PTL
=============================================================================
