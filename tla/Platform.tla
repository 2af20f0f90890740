------------------------------- MODULE Platform -------------------------------
(***************************************************************************)
(* What the platform's administrators decide: stores, their owners and the *)
(* applications to open one.  An approval is one transaction under the     *)
(* lock of its application, but the id of its store is taken before it     *)
(* commits; an assignment of an owner reads the memberships of the account *)
(* from its snapshot and writes afterwards.  Stores are listed in pages.   *)
(* No route adds or removes a member otherwise, or decides a join request. *)
(***************************************************************************)
EXTENDS Integers, FiniteSets

CONSTANTS
    Accounts,       \* admin_users
    NoAccount,      \* of no account
    MaxStores,      \* bound on the ids of stores
    Applications,   \* shop_applications
    Reviewers,      \* requests of platform administrators that overlap
    PageLimit       \* stores on a page

ASSUME PlatformAssumption ==
    /\ NoAccount \notin Accounts
    /\ MaxStores \in Nat
    /\ PageLimit \in Nat \ {0}

StoreIds == 1..MaxStores

VARIABLES
    lastStore,      \* AUTO_INCREMENT of stores
    stores,         \* ids of the committed rows
    storeOn,        \* those that are enabled
    role,           \* role[s][u]: shop_members.role, "NONE" without a row
    appStatus, appBy, appStore,   \* shop_applications: status, applicant, created_store_id
    approving,      \* approving[a]: id the open transaction on a has inserted, 0 for none
    assigning,      \* assigning[x]: what x's AssignStoreOwner has read
    paging          \* the reader of the list: its cursor, what it saw, what was there at the start

ownerVars == <<lastStore, stores, storeOn, role>>
appVars == <<appStatus, appBy, appStore, approving>>
platformVars == <<ownerVars, appVars, assigning, paging>>

Roles == {"NONE", "OWNER", "MANAGER", "STAFF"}
NotAssigning == [store |-> 0, user |-> NoAccount, member |-> FALSE]
NotPaging == [on |-> FALSE, cursor |-> 0, seen |-> {}, atStart |-> {}]

PlatformInit ==
    /\ lastStore = 0
    /\ stores = {}
    /\ storeOn = {}
    /\ role = [s \in StoreIds |-> [u \in Accounts |-> "NONE"]]
    /\ appStatus = [a \in Applications |-> "NONE"]
    /\ appBy = [a \in Applications |-> NoAccount]
    /\ appStore = [a \in Applications |-> 0]
    /\ approving = [a \in Applications |-> 0]
    /\ assigning = [x \in Reviewers |-> NotAssigning]
    /\ paging = NotPaging

MemberOf(u) == {s \in StoreIds : role[s][u] # "NONE"}
\* UPDATE shop_members SET role = 'MANAGER' WHERE store_id = s AND role = 'OWNER',
\* then u becomes the owner.
KeepOwners(s, u) == [role[s] EXCEPT ![u] = "OWNER"]
DemoteAndOwn(s, u) ==
    [v \in Accounts |-> IF v = u THEN "OWNER"
                        ELSE IF role[s][v] = "OWNER" THEN "MANAGER" ELSE role[s][v]]

(***************************************************************************)
(* Stores.                                                                 *)
(***************************************************************************)
CreateStore ==
    /\ lastStore < MaxStores
    /\ lastStore' = lastStore + 1
    /\ stores' = stores \cup {lastStore + 1}
    /\ storeOn' = storeOn \cup {lastStore + 1}
    /\ UNCHANGED <<role, appVars, assigning, paging>>

\* An update that changes nothing affects no row and is answered "not found".
UpdateStore(s, on) ==
    /\ s \in stores
    /\ (s \in storeOn) # on
    /\ storeOn' = IF on THEN storeOn \cup {s} ELSE storeOn \ {s}
    /\ UNCHANGED <<lastStore, stores, role, appVars, assigning, paging>>

(***************************************************************************)
(* Applications.                                                           *)
(***************************************************************************)
CreateShopApplication(a, u) ==
    /\ appStatus[a] = "NONE"
    /\ appStatus' = [appStatus EXCEPT ![a] = "PENDING"]
    /\ appBy' = [appBy EXCEPT ![a] = u]
    /\ UNCHANGED <<ownerVars, appStore, approving, assigning, paging>>

\* SELECT ... FOR UPDATE of the application, and the INSERT of the store.
BeginApprove(a) ==
    /\ appStatus[a] = "PENDING"
    /\ approving[a] = 0
    /\ lastStore < MaxStores
    /\ lastStore' = lastStore + 1
    /\ approving' = [approving EXCEPT ![a] = lastStore + 1]
    /\ UNCHANGED <<stores, storeOn, role, appStatus, appBy, appStore, assigning, paging>>

\* The owner, the status, the audit entry and the commit; the applicant's
\* other memberships are not looked at.
ApproveShopApplication(a) ==
    LET s == approving[a] IN
    /\ s # 0
    /\ stores' = stores \cup {s}
    /\ storeOn' = storeOn \cup {s}
    /\ role' = [role EXCEPT ![s] = DemoteAndOwn(s, appBy[a])]
    /\ appStatus' = [appStatus EXCEPT ![a] = "APPROVED"]
    /\ appStore' = [appStore EXCEPT ![a] = s]
    /\ approving' = [approving EXCEPT ![a] = 0]
    /\ UNCHANGED <<lastStore, appBy, assigning, paging>>

\* Any statement fails, or the process dies: the id is lost, nothing else.
AbortApprove(a) ==
    /\ approving[a] # 0
    /\ approving' = [approving EXCEPT ![a] = 0]
    /\ UNCHANGED <<ownerVars, appStatus, appBy, appStore, assigning, paging>>

\* Waits for the lock of an approval under way.
RejectUnlocked(a) ==
    /\ appStatus[a] \in {"PENDING", "APPROVED"}
    /\ approving[a] = 0
    /\ appStatus' = [appStatus EXCEPT ![a] = "REJECTED"]
    /\ UNCHANGED <<ownerVars, appBy, appStore, approving, assigning, paging>>
RejectShopApplication(a) ==
    /\ appStatus[a] = "PENDING"
    /\ approving[a] = 0
    /\ appStatus' = [appStatus EXCEPT ![a] = "REJECTED"]
    /\ UNCHANGED <<ownerVars, appBy, appStore, approving, assigning, paging>>

ReviewShopApplication(a) == BeginApprove(a) \/ RejectShopApplication(a)

(***************************************************************************)
(* The owner of a store.                                                   *)
(***************************************************************************)
\* The two SELECTs, from one snapshot; an account bound elsewhere is refused.
BeginAssign(x, s, u) ==
    /\ assigning[x] = NotAssigning
    /\ s \in stores
    /\ \/ MemberOf(u) = {} /\ assigning' = [assigning EXCEPT ![x] = [store |-> s, user |-> u, member |-> FALSE]]
       \/ s \in MemberOf(u) /\ assigning' = [assigning EXCEPT ![x] = [store |-> s, user |-> u, member |-> TRUE]]
    /\ UNCHANGED <<ownerVars, appVars, paging>>

\* Demotion, INSERT or UPDATE, commit: the row locks of the store's members
\* order two of them.  An INSERT of a row another request has inserted fails
\* and takes the demotion back.
AssignKeepsDemotion(x) ==
    LET r == assigning[x] IN
    /\ r # NotAssigning
    /\ role' = [role EXCEPT ![r.store] =
                  IF ~r.member /\ role[r.store][r.user] # "NONE"
                  THEN [v \in Accounts |-> IF role[r.store][v] = "OWNER" THEN "MANAGER" ELSE role[r.store][v]]
                  ELSE DemoteAndOwn(r.store, r.user)]
    /\ assigning' = [assigning EXCEPT ![x] = NotAssigning]
    /\ UNCHANGED <<lastStore, stores, storeOn, appVars, paging>>
AssignStoreOwner(x) ==
    LET r == assigning[x] IN
    /\ r # NotAssigning
    /\ role' = IF ~r.member /\ role[r.store][r.user] # "NONE" THEN role
               ELSE [role EXCEPT ![r.store] = DemoteAndOwn(r.store, r.user)]
    /\ assigning' = [assigning EXCEPT ![x] = NotAssigning]
    /\ UNCHANGED <<lastStore, stores, storeOn, appVars, paging>>

(***************************************************************************)
(* The list of stores, page by page: WHERE id > cursor ORDER BY id LIMIT.  *)
(***************************************************************************)
PageFrom(cursor) ==
    {s \in stores : s > cursor /\ Cardinality({t \in stores : t > cursor /\ t < s}) < PageLimit}
AfterLastOf(page, cursor) == IF page = {} THEN cursor ELSE (CHOOSE s \in page : \A t \in page : t <= s) + 1
LastOf(page, cursor) == IF page = {} THEN cursor ELSE CHOOSE s \in page : \A t \in page : t <= s

StartPaging ==
    /\ ~paging.on
    /\ paging' = [NotPaging EXCEPT !.on = TRUE, !.atStart = stores]
    /\ UNCHANGED <<ownerVars, appVars, assigning>>

\* A page shorter than the limit is the last one.
ListShops ==
    LET page == PageFrom(paging.cursor) IN
    /\ paging.on
    /\ paging' = IF Cardinality(page) < PageLimit THEN NotPaging
                 ELSE [paging EXCEPT !.cursor = LastOf(page, paging.cursor),
                                     !.seen = paging.seen \cup page]
    /\ UNCHANGED <<ownerVars, appVars, assigning>>

PlatformNext ==
    \/ CreateStore
    \/ \E s \in StoreIds, on \in BOOLEAN : UpdateStore(s, on)
    \/ \E a \in Applications :
         \/ \E u \in Accounts : CreateShopApplication(a, u)
         \/ ReviewShopApplication(a)
         \/ ApproveShopApplication(a) \/ AbortApprove(a)
    \/ \E x \in Reviewers :
         \/ \E s \in StoreIds, u \in Accounts : BeginAssign(x, s, u)
         \/ AssignStoreOwner(x)
    \/ StartPaging \/ ListShops

PlatformSpec == PlatformInit /\ [][PlatformNext]_platformVars

(***************************************************************************)
(* Properties.                                                             *)
(***************************************************************************)
PlatformTypeOK ==
    /\ lastStore \in 0..MaxStores
    /\ stores \subseteq 1..lastStore
    /\ storeOn \subseteq stores
    /\ role \in [StoreIds -> [Accounts -> Roles]]
    /\ appStatus \in [Applications -> {"NONE", "PENDING", "APPROVED", "REJECTED"}]
    /\ appBy \in [Applications -> Accounts \cup {NoAccount}]
    /\ appStore \in [Applications -> 0..lastStore]
    /\ approving \in [Applications -> 0..lastStore]
    /\ assigning \in [Reviewers -> [store : 0..MaxStores, user : Accounts \cup {NoAccount}, member : BOOLEAN]]
    /\ paging \in [on : BOOLEAN, cursor : 0..MaxStores, seen : SUBSET StoreIds,
                   atStart : SUBSET StoreIds]

\* A store has one owner at most, although assignments and approvals overlap
\* and shop_members has no unique key for it (platform/members.go:138).
OneOwner ==
    \A s \in StoreIds, u, v \in Accounts :
        role[s][u] = "OWNER" /\ role[s][v] = "OWNER" => u = v

\* A store that has an owner is never without one: a failed assignment takes
\* its demotion back.
OwnedStaysOwned ==
    [][\A s \in StoreIds : (\E u \in Accounts : role[s][u] = "OWNER")
                           => \E u \in Accounts : role'[s][u] = "OWNER"]_platformVars

\* An application opens one store at most, its own, exists when it says so,
\* and a rejected one has opened none, whoever reviews it at the same time.
ApplicationOpensItsStore ==
    /\ \A a \in Applications : appStatus[a] = "APPROVED" <=> appStore[a] \in stores
    /\ \A a, b \in Applications : appStore[a] = appStore[b] /\ appStore[a] # 0 => a = b

\* Whoever turns the pages to the end has seen every store that was there at
\* the start, and none twice, whatever was opened meanwhile.
PagingComplete ==
    [][paging.on /\ paging' # paging =>
         LET page == PageFrom(paging.cursor) IN
         /\ page \cap paging.seen = {}
         /\ ~paging'.on => paging.atStart \subseteq paging.seen \cup page]_platformVars
=============================================================================
