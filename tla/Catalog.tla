-------------------------------- MODULE Catalog --------------------------------
(***************************************************************************)
(* The cached list of categories: CategoriesStore reads the shop's         *)
(* categories page by page, at start and whenever its cron fires, and      *)
(* replaces the cached list when the whole of it was read.  The shop       *)
(* changes between pages, a page may fail, and nothing keeps a slow        *)
(* refresh from overlapping the next one.                                  *)
(*                                                                         *)
(* A category is its place in the shop's order: a page is the first        *)
(* PageSize categories after the cursor, and the cursor is the last        *)
(* category of a page (so the shop answers with none for an empty page).   *)
(***************************************************************************)
EXTENDS Naturals, FiniteSets

CONSTANTS LastCategory,   \* categories are 1 .. LastCategory
          PageSize,
          Refreshes,      \* slots for refreshes at work at one time
          MaxShopChanges  \* bound: changes made in the shop

ASSUME CatalogAssumption ==
    LastCategory \in Nat /\ PageSize \in Nat \ {0} /\ MaxShopChanges \in Nat

VARIABLES shopCategories, \* what the shop has
          refreshing,     \* what each refresh has read so far
          cached,         \* nodeCache 'categories'; nothing is listed without it
          whole,          \* history: what every and what any moment of the
                          \* refresh that wrote the cache had
          shopChanges

catalogVars == <<shopCategories, refreshing, cached, whole, shopChanges>>

Categories == 1 .. LastCategory
NoRefresh == [on |-> FALSE]

CatalogTypeOK ==
    /\ shopCategories \subseteq Categories
    /\ refreshing \in [Refreshes -> {NoRefresh} \cup
           [on : {TRUE}, after : 0 .. LastCategory, read : SUBSET Categories,
            steady : SUBSET Categories, ever : SUBSET Categories]]
    /\ cached \subseteq Categories
    /\ whole \in [steady : SUBSET Categories, ever : SUBSET Categories]
    /\ shopChanges \in Nat

CatalogInit ==
    /\ shopCategories \in SUBSET Categories
    /\ refreshing = [r \in Refreshes |-> NoRefresh]
    /\ cached = {}
    /\ whole = [steady |-> {}, ever |-> {}]
    /\ shopChanges = 0

\* FlatCategoriesQuery: the page after a cursor.
Page(after) ==
    {c \in shopCategories :
        /\ c > after
        /\ Cardinality({d \in shopCategories : after < d /\ d <= c}) <= PageSize}

LastOf(page) == CHOOSE c \in page : \A d \in page : d <= c

\* refresh(), started by init() or by the cron.
StartRefresh(r) ==
    /\ ~refreshing[r].on
    /\ refreshing' = [refreshing EXCEPT ![r] =
           [on |-> TRUE, after |-> 0, read |-> {},
            steady |-> shopCategories, ever |-> shopCategories]]
    /\ UNCHANGED <<shopCategories, cached, whole, shopChanges>>

\* fetchAll goes on to another page after a full one.
NextPage(r) ==
    LET page == Page(refreshing[r].after)
    IN  /\ refreshing[r].on
        /\ Cardinality(page) = PageSize
        /\ refreshing' = [refreshing EXCEPT ![r].after = LastOf(page),
                                            ![r].read = @ \cup page]
        /\ UNCHANGED <<shopCategories, cached, whole, shopChanges>>

\* Mutant: an empty list is stored like any other.
StoreAlways(r, list) ==
    /\ cached' = list
    /\ whole' = [steady |-> refreshing[r].steady, ever |-> refreshing[r].ever]

\* refresh() stores what fetchAll gave it, unless that is nothing.
Store(r, list) ==
    IF list = {} THEN UNCHANGED <<cached, whole>>
    ELSE /\ cached' = list
         /\ whole' = [steady |-> refreshing[r].steady, ever |-> refreshing[r].ever]

\* A page that is not full is the last one.
LastPage(r) ==
    LET page == Page(refreshing[r].after)
    IN  /\ refreshing[r].on
        /\ Cardinality(page) < PageSize
        /\ Store(r, refreshing[r].read \cup page)
        /\ refreshing' = [refreshing EXCEPT ![r] = NoRefresh]
        /\ UNCHANGED <<shopCategories, shopChanges>>

\* Mutant: what was read before the failure is returned.
ReadSoFar(r) == refreshing[r].read

\* What fetchAll returns when a page fails.
AfterError(r) == {}

PageFails(r) ==
    /\ refreshing[r].on
    /\ Store(r, AfterError(r))
    /\ refreshing' = [refreshing EXCEPT ![r] = NoRefresh]
    /\ UNCHANGED <<shopCategories, shopChanges>>

\* The shop's staff add or remove a category.
ShopChanges(c) ==
    /\ shopChanges < MaxShopChanges
    /\ shopChanges' = shopChanges + 1
    /\ shopCategories' =
           IF c \in shopCategories THEN shopCategories \ {c} ELSE shopCategories \cup {c}
    /\ refreshing' = [r \in Refreshes |->
           IF ~refreshing[r].on THEN NoRefresh
           ELSE [refreshing[r] EXCEPT !.steady = @ \ {c}, !.ever = @ \cup {c}]]
    /\ UNCHANGED <<cached, whole>>

\* The process restarts: the cache is empty until a refresh succeeds.
CatalogRestart ==
    /\ cached' = {}
    /\ whole' = [steady |-> {}, ever |-> {}]
    /\ refreshing' = [r \in Refreshes |-> NoRefresh]
    /\ UNCHANGED <<shopCategories, shopChanges>>

CatalogNext ==
    \/ \E r \in Refreshes :
           StartRefresh(r) \/ NextPage(r) \/ LastPage(r) \/ PageFails(r)
    \/ \E c \in Categories : ShopChanges(c)
    \/ CatalogRestart

CatalogSpec == CatalogInit /\ [][CatalogNext]_catalogVars

\* The cached list is whole: nothing is missing that the shop had while it was
\* read, wherever the pages fell, whatever failed or changed in between, and
\* nothing is in it that the shop never had meanwhile.
ListIsWhole == whole.steady \subseteq cached /\ cached \subseteq whole.ever

\* A list once cached is never emptied by a refresh that failed.
ListIsKept ==
    [][cached # {} /\ cached' = {} => CatalogRestart]_catalogVars
=============================================================================
