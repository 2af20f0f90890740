--------------------------- MODULE Platform_proofs ---------------------------
(***************************************************************************)
(* Proofs about what those who run the platform do: Platform, for every    *)
(* number of accounts, stores, applications and reviewers and every page   *)
(* size, and Migrate, for every number of migrations, of tables each of    *)
(* them creates, and of processes that run the tool.                       *)
(***************************************************************************)
EXTENDS Platform, Migrate, FiniteSetTheorems, TLAPS

(***************************************************************************)
(* Types.                                                                  *)
(***************************************************************************)
AssignRows == [store : 0..MaxStores, user : Accounts \cup {NoAccount}, member : BOOLEAN]
PagingRows == [on : BOOLEAN, cursor : 0..MaxStores, seen : SUBSET StoreIds, atStart : SUBSET StoreIds]

\* Whom an application or an assignment would make the owner is an account.
OwnersToBe ==
    /\ \A a \in Applications : appStatus[a] # "NONE" => appBy[a] \in Accounts
    /\ \A a \in Applications : approving[a] # 0 => appStatus[a] = "PENDING"
    /\ \A x \in Reviewers : assigning[x] # NotAssigning =>
         assigning[x].store \in StoreIds /\ assigning[x].user \in Accounts

TypeInv == PlatformTypeOK /\ OwnersToBe

LEMMA TypeInit == PlatformInit => TypeInv
BY PlatformAssumption
DEF PlatformInit, TypeInv, PlatformTypeOK, OwnersToBe, NotAssigning, NotPaging, StoreIds, Roles

\* The members of a store after somebody became its owner.
LEMMA OwnedRow ==
    ASSUME PlatformTypeOK, NEW s \in StoreIds, NEW u \in Accounts
    PROVE  /\ DemoteAndOwn(s, u) \in [Accounts -> Roles]
           /\ DemoteAndOwn(s, u)[u] = "OWNER"
           /\ \A v \in Accounts : DemoteAndOwn(s, u)[v] = "OWNER" => v = u
BY DEF DemoteAndOwn, PlatformTypeOK, Roles

\* The last store of a page is one of it, and of those before the next page.
LEMMA PageStores ==
    ASSUME PlatformTypeOK, NEW cursor
    PROVE  PageFrom(cursor) \subseteq stores /\ stores \subseteq StoreIds /\ stores \subseteq Nat
BY PlatformAssumption DEF PageFrom, PlatformTypeOK, StoreIds

(***************************************************************************)
(* A set of natural numbers has a least and, when bounded, a greatest      *)
(* element.                                                                *)
(***************************************************************************)
LEMMA LeastExists ==
    ASSUME NEW S \in SUBSET Nat, S # {}
    PROVE  \E x \in S : \A y \in S : x <= y
<1> DEFINE T == {1..s : s \in S}
           R == StrictSubsetOrdering(Nat)
<1>1. \A s \in S : 1..s \subseteq Nat /\ IsFiniteSet(1..s)
  BY FS_Interval
<1>2. T \subseteq FiniteSubsetsOf(Nat)
  BY <1>1 DEF FiniteSubsetsOf
<1>3. T # {}
  OBVIOUS
<1>4. IsWellFoundedOn(R, FiniteSubsetsOf(Nat))
  BY FS_StrictSubsetOrderingWellFounded
<1>5. PICK t \in T : \A u \in T : <<u, t>> \notin R
  <2> HIDE DEF T, R
  <2> QED
    BY <1>2, <1>3, <1>4, WFMin
<1>6. PICK x \in S : t = 1..x
  OBVIOUS
<1>7. ASSUME NEW y \in S, y < x PROVE FALSE
  <2>1. 1..y \subseteq 1..x /\ x \in 1..x /\ x \notin 1..y
    BY <1>7
  <2>2. 1..y # 1..x
    BY <2>1
  <2>3. 1..y \in SUBSET Nat /\ 1..x \in SUBSET Nat
    BY <1>1
  <2>4. <<1..y, 1..x>> \in R
    BY <2>1, <2>2, <2>3 DEF StrictSubsetOrdering
  <2> QED
    BY <1>5, <1>6, <2>4
<1> QED
  BY <1>7

LEMMA GreatestExists ==
    ASSUME NEW n \in Nat, NEW S \in SUBSET (0..n), S # {}
    PROVE  \E x \in S : \A y \in S : y <= x
<1> DEFINE T == {n - s : s \in S}
<1>1. T \subseteq Nat /\ T # {}
  OBVIOUS
<1>2. PICK t \in T : \A u \in T : t <= u
  <2> HIDE DEF T
  <2> QED
    BY <1>1, LeastExists
<1>3. PICK x \in S : t = n - x
  OBVIOUS
<1>4. ASSUME NEW y \in S PROVE y <= x
  <2>1. n - y \in T
    OBVIOUS
  <2>2. t <= n - y
    BY <1>2, <2>1
  <2>3. x \in Int /\ y \in Int
    OBVIOUS
  <2> HIDE DEF T
  <2> QED
    BY <1>3, <2>2, <2>3
<1> QED
  BY <1>4

\* The cursor moves to the greatest store of a page.
LEMMA LastOfPage ==
    ASSUME PlatformTypeOK, NEW cursor \in 0..MaxStores, PageFrom(cursor) # {}
    PROVE  /\ LastOf(PageFrom(cursor), cursor) \in PageFrom(cursor)
           /\ \A t \in PageFrom(cursor) : t <= LastOf(PageFrom(cursor), cursor)
<1> DEFINE page == PageFrom(cursor)
           last == LastOf(page, cursor)
<1>1. page \subseteq 0..MaxStores /\ MaxStores \in Nat
  BY PageStores, PlatformAssumption DEF StoreIds
<1>2. last = CHOOSE s \in page : \A t \in page : t <= s
  BY DEF LastOf
<1> HIDE DEF page, last
<1>3. \E s \in page : \A t \in page : t <= s
  BY <1>1, GreatestExists DEF page
<1>4. last \in page /\ \A t \in page : t <= last
  BY <1>2, <1>3
<1> QED
  BY <1>4 DEF page, last

\* The reader's row keeps its type.
LEMMA PagingTypes ==
    ASSUME PlatformTypeOK, StartPaging \/ ListShops
    PROVE  paging' \in PagingRows
<1> DEFINE page == PageFrom(paging.cursor)
           last == LastOf(page, paging.cursor)
           next == [paging EXCEPT !.cursor = last, !.seen = paging.seen \cup page]
           start == [NotPaging EXCEPT !.on = TRUE, !.atStart = stores]
<1>1. paging \in PagingRows
  BY DEF PlatformTypeOK, PagingRows
<1>2. paging.cursor \in 0..MaxStores /\ paging.seen \in SUBSET StoreIds /\ 0 \in 0..MaxStores
  BY <1>1, PlatformAssumption DEF PagingRows
<1>3. page \subseteq StoreIds /\ stores \in SUBSET StoreIds
  BY PageStores
<1>4. last \in 0..MaxStores
  <2>1. CASE page = {}
    BY <1>2, <2>1 DEF LastOf
  <2>2. CASE page # {}
    BY <1>2, <1>3, <2>2, LastOfPage DEF StoreIds
  <2> QED
    BY <2>1, <2>2
<1>5. paging' = NotPaging \/ paging' = next \/ paging' = start
  BY DEF StartPaging, ListShops
<1> HIDE DEF page, last
<1>6. start \in PagingRows /\ NotPaging \in PagingRows
  BY <1>2, <1>3 DEF PagingRows, NotPaging
<1>7. next \in PagingRows
  <2>1. paging.seen \cup page \in SUBSET StoreIds
    BY <1>2, <1>3
  <2> QED
    BY <1>1, <1>4, <2>1 DEF PagingRows
<1> QED
  BY <1>5, <1>6, <1>7

(***************************************************************************)
(* Every action keeps the types.                                           *)
(***************************************************************************)
LEMMA TypeStep == TypeInv /\ [PlatformNext]_platformVars => TypeInv'
<1> SUFFICES ASSUME TypeInv, [PlatformNext]_platformVars PROVE TypeInv'
  OBVIOUS
<1> USE PlatformAssumption DEF TypeInv, PlatformTypeOK, ownerVars, appVars, StoreIds
<1>1. CASE CreateStore
  BY <1>1 DEF CreateStore, OwnersToBe
<1>2. ASSUME NEW s \in StoreIds, NEW on \in BOOLEAN, UpdateStore(s, on) PROVE TypeInv'
  BY <1>2 DEF UpdateStore, OwnersToBe
<1>3. ASSUME NEW a \in Applications, NEW u \in Accounts, CreateShopApplication(a, u) PROVE TypeInv'
  BY <1>3 DEF CreateShopApplication, OwnersToBe
<1>4. ASSUME NEW a \in Applications, ReviewShopApplication(a) PROVE TypeInv'
  <2>1. CASE BeginApprove(a)
    <3>1. lastStore' = lastStore + 1 /\ lastStore' \in 0..MaxStores
      BY <2>1 DEF BeginApprove
    <3>2. approving' = [approving EXCEPT ![a] = lastStore'] /\ appStatus[a] = "PENDING"
      BY <2>1 DEF BeginApprove
    <3>3. approving' \in [Applications -> 0..lastStore'] /\ appStore \in [Applications -> 0..lastStore']
      BY <3>1, <3>2
    <3>4. stores \subseteq 1..lastStore'
      BY <3>1
    <3> QED
      BY <2>1, <3>1, <3>2, <3>3, <3>4 DEF BeginApprove, OwnersToBe
  <2>2. CASE RejectShopApplication(a)
    BY <2>2 DEF RejectShopApplication, OwnersToBe
  <2> QED
    BY <1>4, <2>1, <2>2 DEF ReviewShopApplication
<1>5. ASSUME NEW a \in Applications, ApproveShopApplication(a) PROVE TypeInv'
  <2> DEFINE s == approving[a]
  <2>1. s \in StoreIds /\ appBy[a] \in Accounts
    BY <1>5 DEF ApproveShopApplication, OwnersToBe
  <2>2. DemoteAndOwn(s, appBy[a]) \in [Accounts -> Roles]
    BY <2>1, OwnedRow
  <2>3. /\ s \in 1..lastStore /\ lastStore' = lastStore /\ stores' = stores \cup {s}
        /\ storeOn' = storeOn \cup {s} /\ role' = [role EXCEPT ![s] = DemoteAndOwn(s, appBy[a])]
    BY <1>5 DEF ApproveShopApplication
  <2>4. appStore' \in [Applications -> 0..lastStore'] /\ approving' \in [Applications -> 0..lastStore']
    BY <1>5, <2>3 DEF ApproveShopApplication
  <2>5. appStatus' \in [Applications -> {"NONE", "PENDING", "APPROVED", "REJECTED"}]
    BY <1>5 DEF ApproveShopApplication
  <2>6. PlatformTypeOK'
    <3>1. stores' \subseteq 1..lastStore' /\ storeOn' \subseteq stores'
      BY <2>3
    <3>2. role' \in [StoreIds -> [Accounts -> Roles]]
      BY <2>1, <2>2, <2>3
    <3> QED
      BY <1>5, <2>3, <2>4, <2>5, <3>1, <3>2 DEF ApproveShopApplication
  <2>7. OwnersToBe'
    BY <1>5, <2>1 DEF ApproveShopApplication, OwnersToBe
  <2> QED
    BY <2>6, <2>7
<1>6. ASSUME NEW a \in Applications, AbortApprove(a) PROVE TypeInv'
  BY <1>6 DEF AbortApprove, OwnersToBe
<1>7. ASSUME NEW x \in Reviewers, NEW s \in StoreIds, NEW u \in Accounts, BeginAssign(x, s, u) PROVE TypeInv'
  <2> DEFINE row(member) == [store |-> s, user |-> u, member |-> member]
  <2>1. /\ \E member \in BOOLEAN : assigning' = [assigning EXCEPT ![x] = row(member)]
        /\ UNCHANGED <<ownerVars, appVars, paging>>
    BY <1>7 DEF BeginAssign
  <2>2. \A member \in BOOLEAN : row(member) \in AssignRows /\ row(member).store = s /\ row(member).user = u
    BY DEF AssignRows
  <2> HIDE DEF row
  <2>3. /\ assigning' \in [Reviewers -> AssignRows]
        /\ \A y \in Reviewers : \/ assigning'[y] = assigning[y]
                               \/ (assigning'[y].store = s /\ assigning'[y].user = u)
    <3>1. PICK member \in BOOLEAN : assigning' = [assigning EXCEPT ![x] = row(member)]
      BY <2>1
    <3>2. assigning \in [Reviewers -> AssignRows]
      BY DEF AssignRows
    <3> QED
      BY <2>2, <3>1, <3>2
  <2>4. PlatformTypeOK'
    BY <2>1, <2>3 DEF AssignRows
  <2>5. OwnersToBe'
    BY <2>1, <2>3 DEF OwnersToBe
  <2> QED
    BY <2>4, <2>5
<1>8. ASSUME NEW x \in Reviewers, AssignStoreOwner(x) PROVE TypeInv'
  <2> DEFINE r == assigning[x]
  <2>1. r.store \in StoreIds /\ r.user \in Accounts
    BY <1>8 DEF AssignStoreOwner, OwnersToBe
  <2>2. DemoteAndOwn(r.store, r.user) \in [Accounts -> Roles]
    BY <2>1, OwnedRow
  <2>3. NotAssigning \in AssignRows
    BY DEF NotAssigning, AssignRows
  <2>4. role' \in [StoreIds -> [Accounts -> Roles]] /\ assigning' \in [Reviewers -> AssignRows]
    BY <1>8, <2>1, <2>2, <2>3 DEF AssignStoreOwner, AssignRows
  <2>5. PlatformTypeOK'
    BY <1>8, <2>4 DEF AssignStoreOwner, AssignRows
  <2>6. OwnersToBe'
    BY <1>8 DEF AssignStoreOwner, OwnersToBe
  <2> QED
    BY <2>5, <2>6
<1>9. CASE StartPaging
  BY <1>9, PagingTypes DEF StartPaging, OwnersToBe, PagingRows
<1>10. CASE ListShops
  BY <1>10, PagingTypes DEF ListShops, OwnersToBe, PagingRows
<1>11. CASE UNCHANGED platformVars
  BY <1>11 DEF platformVars, OwnersToBe
<1> HIDE DEF TypeInv, PlatformTypeOK, ownerVars, appVars, StoreIds
<1> QED
  BY <1>1, <1>2, <1>3, <1>4, <1>5, <1>6, <1>7, <1>8, <1>9, <1>10, <1>11 DEF PlatformNext

(***************************************************************************)
(* Owners.                                                                 *)
(***************************************************************************)
\* The roles change in one way: somebody becomes the owner of a store.
LEMMA RoleChanges ==
    ASSUME TypeInv, [PlatformNext]_platformVars
    PROVE  \/ UNCHANGED role
           \/ \E s \in StoreIds, u \in Accounts : role' = [role EXCEPT ![s] = DemoteAndOwn(s, u)]
<1>1. ASSUME NEW a \in Applications, ApproveShopApplication(a)
      PROVE  \E s \in StoreIds, u \in Accounts : role' = [role EXCEPT ![s] = DemoteAndOwn(s, u)]
  <2>1. approving[a] \in StoreIds /\ appBy[a] \in Accounts
    BY <1>1, PlatformAssumption DEF ApproveShopApplication, TypeInv, OwnersToBe, PlatformTypeOK, StoreIds
  <2> QED
    BY <1>1, <2>1 DEF ApproveShopApplication
<1>2. ASSUME NEW x \in Reviewers, AssignStoreOwner(x)
      PROVE  \/ UNCHANGED role
             \/ \E s \in StoreIds, u \in Accounts : role' = [role EXCEPT ![s] = DemoteAndOwn(s, u)]
  <2>1. assigning[x].store \in StoreIds /\ assigning[x].user \in Accounts
    BY <1>2 DEF AssignStoreOwner, TypeInv, OwnersToBe
  <2> QED
    BY <1>2, <2>1 DEF AssignStoreOwner
<1> QED
  BY <1>1, <1>2 DEF PlatformNext, CreateStore, UpdateStore, CreateShopApplication, ReviewShopApplication,
     BeginApprove, RejectShopApplication, AbortApprove, BeginAssign, StartPaging, ListShops, platformVars, ownerVars

LEMMA OwnerStep ==
    ASSUME TypeInv, OneOwner, [PlatformNext]_platformVars
    PROVE  /\ OneOwner'
           /\ \A s \in StoreIds : (\E u \in Accounts : role[s][u] = "OWNER")
                                  => \E u \in Accounts : role'[s][u] = "OWNER"
<1>1. CASE UNCHANGED role
  BY <1>1 DEF OneOwner
<1>2. ASSUME NEW s \in StoreIds, NEW u \in Accounts, role' = [role EXCEPT ![s] = DemoteAndOwn(s, u)]
      PROVE  /\ OneOwner'
             /\ \A t \in StoreIds : (\E v \in Accounts : role[t][v] = "OWNER")
                                    => \E v \in Accounts : role'[t][v] = "OWNER"
  <2> DEFINE row == DemoteAndOwn(s, u)
  <2>1. row[u] = "OWNER" /\ \A v \in Accounts : row[v] = "OWNER" => v = u
    BY OwnedRow DEF TypeInv
  <2>2. \A t \in StoreIds : role'[t] = IF t = s THEN row ELSE role[t]
    BY <1>2 DEF TypeInv, PlatformTypeOK
  <2> HIDE DEF row
  <2> QED
    BY <2>1, <2>2 DEF OneOwner
<1> QED
  BY <1>1, <1>2, RoleChanges

(***************************************************************************)
(* Applications.  The id an open approval has taken is nobody else's.      *)
(***************************************************************************)
ApplicationsInv ==
    /\ \A a \in Applications : appStatus[a] = "APPROVED" <=> appStore[a] # 0
    /\ \A a \in Applications : appStore[a] # 0 => appStore[a] \in stores
    /\ \A a, b \in Applications : appStore[a] = appStore[b] /\ appStore[a] # 0 => a = b
    /\ \A a \in Applications : approving[a] \notin stores
    /\ \A a, b \in Applications : approving[a] = approving[b] /\ approving[a] # 0 => a = b

LEMMA ApplicationsStep ==
    ASSUME TypeInv, ApplicationsInv, [PlatformNext]_platformVars
    PROVE  ApplicationsInv'
<1> USE DEF ApplicationsInv, ownerVars, appVars
<1>1. /\ lastStore \in Nat /\ stores \subseteq 1..lastStore
      /\ \A a \in Applications : approving[a] \in 0..lastStore /\ appStore[a] \in 0..lastStore
      /\ appStatus \in [Applications -> {"NONE", "PENDING", "APPROVED", "REJECTED"}]
      /\ appStore \in [Applications -> 0..lastStore] /\ approving \in [Applications -> 0..lastStore]
  BY PlatformAssumption DEF TypeInv, PlatformTypeOK
<1>2. CASE CreateStore
  BY <1>1, <1>2 DEF CreateStore
<1>3. ASSUME NEW a \in Applications, NEW u \in Accounts, CreateShopApplication(a, u) PROVE ApplicationsInv'
  BY <1>1, <1>3 DEF CreateShopApplication
<1>4. ASSUME NEW a \in Applications, BeginApprove(a) PROVE ApplicationsInv'
  BY <1>1, <1>4 DEF BeginApprove
<1>5. ASSUME NEW a \in Applications, RejectShopApplication(a) PROVE ApplicationsInv'
  BY <1>1, <1>5 DEF RejectShopApplication
<1>6. ASSUME NEW a \in Applications, ApproveShopApplication(a) PROVE ApplicationsInv'
  <2> DEFINE s == approving[a]
  <2>1. /\ s # 0 /\ s \notin stores /\ stores' = stores \cup {s}
        /\ appStatus' = [appStatus EXCEPT ![a] = "APPROVED"]
        /\ appStore' = [appStore EXCEPT ![a] = s]
        /\ approving' = [approving EXCEPT ![a] = 0]
    BY <1>6 DEF ApproveShopApplication
  <2>2. 0 \notin stores
    BY <1>1
  <2>3. \A b \in Applications : appStore[b] # s
    BY <2>1
  <2>4. \A b \in Applications : b # a => approving[b] # s
    BY <2>1
  <2>5. \A b \in Applications : /\ appStatus'[b] = IF b = a THEN "APPROVED" ELSE appStatus[b]
                                /\ appStore'[b] = IF b = a THEN s ELSE appStore[b]
                                /\ approving'[b] = IF b = a THEN 0 ELSE approving[b]
    BY <1>1, <2>1
  <2> HIDE DEF s
  <2> QED
    BY <2>1, <2>2, <2>3, <2>4, <2>5
<1>7. ASSUME NEW a \in Applications, AbortApprove(a) PROVE ApplicationsInv'
  BY <1>1, <1>7 DEF AbortApprove
<1>8. ASSUME UNCHANGED <<stores, appStatus, appStore, approving>> PROVE ApplicationsInv'
  BY <1>8
<1> QED
  BY <1>2, <1>3, <1>4, <1>5, <1>6, <1>7, <1>8 DEF PlatformNext, UpdateStore, ReviewShopApplication,
     BeginAssign, AssignStoreOwner, StartPaging, ListShops, platformVars

(***************************************************************************)
(* Pages.                                                                  *)
(***************************************************************************)
Before(cursor, s) == {t \in stores : t > cursor /\ t < s}

LEMMA StoresFinite ==
    ASSUME PlatformTypeOK
    PROVE  \A S \in SUBSET stores : IsFiniteSet(S) /\ Cardinality(S) \in Nat
<1>1. IsFiniteSet(StoreIds)
  BY PlatformAssumption, FS_Interval DEF StoreIds
<1>2. stores \subseteq StoreIds
  BY PageStores
<1> QED
  BY <1>1, <1>2, FS_Subset, FS_CardinalityType

\* A store before one of the page is on the page too.
LEMMA PageIsClosed ==
    ASSUME PlatformTypeOK, NEW cursor \in Nat, NEW m \in PageFrom(cursor),
           NEW s \in stores, s > cursor, s <= m
    PROVE  s \in PageFrom(cursor)
<1>1. stores \subseteq Nat /\ m \in stores
  BY PageStores
<1>2. Before(cursor, s) \subseteq Before(cursor, m) /\ Before(cursor, m) \subseteq stores
  <2>1. ASSUME NEW t \in Nat, t < s PROVE t < m
    BY <1>1, <2>1
  <2> QED
    BY <1>1, <2>1 DEF Before
<1>3. /\ Cardinality(Before(cursor, s)) <= Cardinality(Before(cursor, m))
      /\ Cardinality(Before(cursor, s)) \in Nat /\ Cardinality(Before(cursor, m)) \in Nat
  BY <1>2, StoresFinite, FS_Subset
<1>4. Cardinality(Before(cursor, m)) < PageLimit
  BY DEF PageFrom, Before
<1>5. Cardinality(Before(cursor, s)) < PageLimit
  BY <1>3, <1>4, PlatformAssumption
<1> QED
  BY <1>5 DEF PageFrom, Before

\* A page that is not full ends the list.  Were a store missing, so were a
\* least one; those before it are on the page, and are too many for it.
LEMMA ShortPageIsLast ==
    ASSUME PlatformTypeOK, NEW cursor \in Nat, Cardinality(PageFrom(cursor)) < PageLimit,
           NEW s \in stores, s > cursor
    PROVE  s \in PageFrom(cursor)
<1> DEFINE page == PageFrom(cursor)
           missing == {t \in stores : t > cursor /\ t \notin page}
<1>1. stores \subseteq Nat /\ page \subseteq stores
  BY PageStores
<1>2. SUFFICES ASSUME s \notin page PROVE FALSE
  OBVIOUS
<1>3. missing \in SUBSET Nat /\ missing # {}
  BY <1>1, <1>2
<1>4. PICK least \in missing : \A t \in missing : least <= t
  <2> HIDE DEF missing
  <2> QED
    BY <1>3, LeastExists
<1>5. Before(cursor, least) \subseteq page
  <2>1. ASSUME NEW t \in stores, t > cursor, t < least PROVE t \in page
    <3>1. t \in Nat /\ least \in Nat
      BY <1>1
    <3>2. ~(least <= t)
      BY <2>1, <3>1
    <3> HIDE DEF page
    <3> QED
      BY <1>4, <2>1, <3>2
  <2> QED
    BY <2>1 DEF Before
<1>6. Cardinality(Before(cursor, least)) <= Cardinality(page)
  <2> HIDE DEF page
  <2>1. IsFiniteSet(page) /\ Before(cursor, least) \in SUBSET page
    BY <1>1, <1>5, StoresFinite
  <2> QED
    BY <2>1, FS_Subset
<1>7. Cardinality(Before(cursor, least)) \in Nat /\ Cardinality(page) \in Nat
  <2>1. Before(cursor, least) \in SUBSET stores /\ page \in SUBSET stores
    BY <1>1 DEF Before
  <2> HIDE DEF page
  <2> QED
    BY <2>1, StoresFinite
<1>8. Cardinality(Before(cursor, least)) < PageLimit
  <2> HIDE DEF page
  <2> QED
    BY <1>6, <1>7, PlatformAssumption DEF page
<1>9. least \in page
  BY <1>4, <1>8 DEF PageFrom, Before
<1> QED
  BY <1>4, <1>9

\* What the reader has seen is what there was up to the cursor.
PagingInv ==
    paging.on => /\ \A s \in paging.seen : s <= paging.cursor
                 /\ paging.atStart \subseteq stores
                 /\ \A s \in paging.atStart : s <= paging.cursor => s \in paging.seen

LEMMA PagingStep ==
    ASSUME TypeInv, PagingInv, [PlatformNext]_platformVars
    PROVE  PagingInv'
<1>1. ASSUME UNCHANGED paging, stores \subseteq stores' PROVE PagingInv'
  BY <1>1 DEF PagingInv
<1>2. CASE StartPaging
  <2>1. /\ paging'.seen = {} /\ paging'.atStart = stores /\ paging'.cursor = 0 /\ stores' = stores
    BY <1>2 DEF StartPaging, NotPaging, ownerVars
  <2>2. \A s \in stores : ~(s <= 0)
    BY PlatformAssumption DEF TypeInv, PlatformTypeOK
  <2> QED
    BY <2>1, <2>2 DEF PagingInv
<1>3. CASE ListShops
  <2> DEFINE cursor == paging.cursor
             page == PageFrom(cursor)
             last == LastOf(page, cursor)
             next == [paging EXCEPT !.cursor = last, !.seen = paging.seen \cup page]
  <2>1. paging.on /\ paging \in PagingRows /\ stores' = stores
    BY <1>3 DEF ListShops, TypeInv, PlatformTypeOK, PagingRows, ownerVars
  <2>2. cursor \in 0..MaxStores /\ cursor \in Nat /\ paging.seen \subseteq Nat /\ paging.atStart \subseteq Nat
    BY <2>1, PlatformAssumption DEF PagingRows, StoreIds
  <2>3. stores \subseteq Nat /\ page \subseteq stores /\ \A s \in page : s > cursor
    BY PageStores DEF TypeInv, PageFrom
  <2>4. CASE paging' = NotPaging
    BY <2>4 DEF PagingInv, NotPaging
  <2>5. CASE paging' = next /\ ~(Cardinality(page) < PageLimit)
    <3>1. page # {}
      BY <2>5, FS_EmptySet, PlatformAssumption
    <3>2. last \in page /\ \A t \in page : t <= last
      BY <2>2, <3>1, LastOfPage DEF TypeInv
    <3>3. next.on = TRUE /\ next.cursor = last /\ next.seen = paging.seen \cup page /\ next.atStart = paging.atStart
      BY <2>1 DEF PagingRows
    <3>4. last \in Nat /\ last > cursor
      BY <2>3, <3>2
    <3>5. \A s \in stores : s > cursor /\ s <= last => s \in page
      BY <2>2, <3>2, PageIsClosed DEF TypeInv
    <3> HIDE DEF page, last, next
    <3>6. \A s \in paging.seen \cup page : s <= last
      <4>1. ASSUME NEW s \in paging.seen PROVE s <= last
        BY <2>1, <2>2, <3>4 DEF PagingInv
      <4> QED
        BY <3>2, <4>1
    <3>7. \A s \in paging.atStart : s <= last => s \in paging.seen \cup page
      BY <2>1, <2>2, <3>4, <3>5 DEF PagingInv
    <3> QED
      BY <2>1, <2>5, <3>3, <3>6, <3>7 DEF PagingInv
  <2> QED
    BY <1>3, <2>4, <2>5 DEF ListShops
<1>4. UNCHANGED paging \/ StartPaging \/ ListShops
  BY DEF PlatformNext, CreateStore, UpdateStore, CreateShopApplication, ReviewShopApplication, BeginApprove,
     RejectShopApplication, ApproveShopApplication, AbortApprove, BeginAssign, AssignStoreOwner, platformVars
<1>5. stores \subseteq stores'
  BY DEF PlatformNext, CreateStore, UpdateStore, CreateShopApplication, ReviewShopApplication, BeginApprove,
     RejectShopApplication, ApproveShopApplication, AbortApprove, BeginAssign, AssignStoreOwner, StartPaging,
     ListShops, platformVars, ownerVars
<1> QED
  BY <1>1, <1>2, <1>3, <1>4, <1>5

\* The step from one page to the next, or past the last.
LEMMA PageStep ==
    ASSUME TypeInv, PagingInv, [PlatformNext]_platformVars, paging.on, paging' # paging
    PROVE  LET page == PageFrom(paging.cursor) IN
           /\ page \cap paging.seen = {}
           /\ ~paging'.on => paging.atStart \subseteq paging.seen \cup page
<1> DEFINE cursor == paging.cursor
           page == PageFrom(cursor)
<1>1. ListShops
  BY DEF PlatformNext, CreateStore, UpdateStore, CreateShopApplication, ReviewShopApplication, BeginApprove,
     RejectShopApplication, ApproveShopApplication, AbortApprove, BeginAssign, AssignStoreOwner, StartPaging, platformVars
<1>2. paging \in PagingRows
  BY DEF TypeInv, PlatformTypeOK, PagingRows
<1>3. cursor \in Nat /\ paging.seen \subseteq Nat /\ paging.atStart \subseteq Nat
  BY <1>2, PlatformAssumption DEF PagingRows, StoreIds
<1>4. page \cap paging.seen = {}
  BY <1>3 DEF PagingInv, PageFrom
<1>5. ASSUME ~paging'.on PROVE paging.atStart \subseteq paging.seen \cup page
  <2>1. Cardinality(page) < PageLimit
    <3> SUFFICES ASSUME ~(Cardinality(page) < PageLimit) PROVE FALSE
      OBVIOUS
    <3>1. paging' = [paging EXCEPT !.cursor = LastOf(page, cursor), !.seen = paging.seen \cup page]
      BY <1>1 DEF ListShops
    <3>2. paging'.on = paging.on
      BY <1>2, <3>1 DEF PagingRows
    <3> QED
      BY <1>5, <3>2
  <2>2. \A s \in stores : s > cursor => s \in page
    BY <1>3, <2>1, ShortPageIsLast DEF TypeInv
  <2> HIDE DEF page
  <2> QED
    BY <1>3, <2>2 DEF PagingInv
<1> QED
  BY <1>4, <1>5

(***************************************************************************)
(* The theorems.                                                           *)
(***************************************************************************)
\* Every variable keeps its type; ids of stores are never used twice.
THEOREM PlatformTyped == PlatformSpec => []PlatformTypeOK
<1>1. TypeInv => PlatformTypeOK
  BY DEF TypeInv
<1> QED
  BY <1>1, TypeInit, TypeStep, PTL DEF PlatformSpec

LEMMA TypeAlways == PlatformSpec => []TypeInv
BY TypeInit, TypeStep, PTL DEF PlatformSpec

\* A store has one owner at most, however many assignments and approvals
\* overlap: whoever becomes the owner demotes the others in one transaction.
THEOREM StoreHasOneOwner == PlatformSpec => []OneOwner
<1>1. PlatformInit => OneOwner
  BY DEF PlatformInit, OneOwner
<1>2. TypeInv /\ OneOwner /\ [PlatformNext]_platformVars => OneOwner'
  BY OwnerStep
<1> QED
  BY <1>1, <1>2, TypeAlways, PTL DEF PlatformSpec

\* No step leaves a store that had an owner without one.
THEOREM StoreKeepsAnOwner == PlatformSpec => OwnedStaysOwned
<1>1. TypeInv /\ OneOwner /\ [PlatformNext]_platformVars =>
        [\A s \in StoreIds : (\E u \in Accounts : role[s][u] = "OWNER")
                             => \E u \in Accounts : role'[s][u] = "OWNER"]_platformVars
  BY OwnerStep
<1> QED
  BY <1>1, StoreHasOneOwner, TypeAlways, PTL DEF PlatformSpec, OwnedStaysOwned

\* An application opens one store at most, its own, and exactly when it is
\* approved.
THEOREM ApplicationsOpenTheirStores == PlatformSpec => []ApplicationOpensItsStore
<1>1. PlatformInit => ApplicationsInv
  BY DEF PlatformInit, ApplicationsInv
<1>2. TypeInv /\ ApplicationsInv => ApplicationOpensItsStore
  BY PlatformAssumption DEF TypeInv, PlatformTypeOK, ApplicationsInv, ApplicationOpensItsStore
<1>3. TypeInv /\ ApplicationsInv /\ [PlatformNext]_platformVars => ApplicationsInv'
  BY ApplicationsStep
<1> QED
  BY <1>1, <1>2, <1>3, TypeAlways, PTL DEF PlatformSpec

\* Whoever turns the pages to the end sees every store of the start, and none
\* twice, for every size of a page and whatever stores are opened meanwhile.
THEOREM PagesAreComplete == PlatformSpec => PagingComplete
<1>1. PlatformInit => PagingInv
  BY DEF PlatformInit, PagingInv, NotPaging
<1>2. TypeInv /\ PagingInv /\ [PlatformNext]_platformVars => PagingInv'
  BY PagingStep
<1>3. TypeInv /\ PagingInv /\ [PlatformNext]_platformVars =>
        [paging.on /\ paging' # paging =>
           LET page == PageFrom(paging.cursor) IN
           /\ page \cap paging.seen = {}
           /\ ~paging'.on => paging.atStart \subseteq paging.seen \cup page]_platformVars
  BY PageStep
<1> QED
  BY <1>1, <1>2, <1>3, TypeAlways, PTL DEF PlatformSpec, PagingComplete

(***************************************************************************)
(* Migrate: the version a run works on.                                    *)
(***************************************************************************)
\* "up" works on the oldest version that is left, "down" on the newest.
LEMMA ScriptIsFirst ==
    ASSUME NEW p, tool[p].left \in SUBSET Scripts, tool[p].left # {}
    PROVE  /\ Script(p) \in tool[p].left
           /\ tool[p].cmd = "up" => \A u \in tool[p].left : Script(p) <= u
           /\ tool[p].cmd # "up" => \A u \in tool[p].left : u <= Script(p)
<1>1. Scripts \subseteq Nat
  BY DEF Scripts
<1>2. \E v \in tool[p].left : \A u \in tool[p].left : IF tool[p].cmd = "up" THEN v <= u ELSE u <= v
  <2>1. Scripts \subseteq 0..LastVersion
    BY MigrateAssumption DEF Scripts
  <2> QED
    BY <1>1, <2>1, LeastExists, GreatestExists, MigrateAssumption
<1> QED
  BY <1>2 DEF Script

(***************************************************************************)
(* The inductive invariant.                                                *)
(***************************************************************************)
ToolRows == [cmd : {"none", "up", "down"}, left : SUBSET Scripts, done : 0..TablesPer, redo : BOOLEAN]

MigrateTypes ==
    /\ tool \in [Migrators -> ToolRows]
    /\ recorded \subseteq Scripts
    /\ \A p \in Migrators : /\ tool[p].cmd = "none" => tool[p] = NoTool
                            /\ tool[p].redo => tool[p].cmd = "down"

\* A rollback runs alone.
RollbackIsAlone ==
    \A p, q \in Migrators : tool[p].cmd = "down" /\ q # p => tool[q] = NoTool

\* What "up" has executed of its script is there.
ExecutedIsThere ==
    \A p \in Migrators : Busy(p, "up") => \A i \in 1..tool[p].done : <<Script(p), i>> \in schema

\* What "up" has passed is recorded, and what a rollback has passed is not.
PassedIsRecorded ==
    \A p \in Migrators :
        /\ tool[p].cmd = "up" => Scripts \ tool[p].left \subseteq recorded
        /\ tool[p].cmd = "down" => /\ tool[p].left \subseteq recorded
                                   /\ \A v \in recorded \ tool[p].left : \A u \in tool[p].left : v < u

MigrateInv ==
    MigrateTypes /\ RollbackIsAlone /\ ExecutedIsThere /\ PassedIsRecorded
    /\ RecordedIsWhole /\ RecordedInOrder

LEMMA MigrateInitInv == MigrateInit => MigrateInv
BY MigrateAssumption DEF MigrateInit, MigrateInv, MigrateTypes, ToolRows, NoTool, RollbackIsAlone,
   ExecutedIsThere, Busy, PassedIsRecorded, RecordedIsWhole, RecordedInOrder

\* The first version of a run.
LEMMA ScriptFacts ==
    ASSUME MigrateInv, NEW p \in Migrators, tool[p].left # {}
    PROVE  /\ Script(p) \in tool[p].left /\ Script(p) \in Scripts
           /\ tool[p].cmd = "up" => \A u \in tool[p].left : Script(p) <= u
           /\ tool[p].cmd # "up" => \A u \in tool[p].left : u <= Script(p)
BY ScriptIsFirst DEF MigrateInv, MigrateTypes, ToolRows

\* A run that ends leaves nothing to say about it.
LEMMA FailInv ==
    ASSUME MigrateInv, NEW p \in Migrators, Fail(p), UNCHANGED <<schema, recorded, torn>>
    PROVE  MigrateInv'
<1>1. /\ tool'[p] = NoTool
      /\ \A q \in Migrators \ {p} : tool'[q] = tool[q]
      /\ tool' \in [Migrators -> ToolRows]
  BY MigrateAssumption DEF Fail, MigrateInv, MigrateTypes, ToolRows, NoTool
<1>2. NoTool.cmd = "none" /\ ~NoTool.redo
  BY DEF NoTool
<1>3. MigrateTypes' /\ RollbackIsAlone' /\ PassedIsRecorded'
  BY <1>1, <1>2 DEF MigrateInv, MigrateTypes, RollbackIsAlone, PassedIsRecorded
<1>4. ExecutedIsThere'
  BY <1>1, <1>2 DEF MigrateInv, ExecutedIsThere, Busy, Script
<1>5. RecordedIsWhole' /\ RecordedInOrder'
  BY DEF MigrateInv, RecordedIsWhole, RecordedInOrder, Complete
<1> QED
  BY <1>3, <1>4, <1>5 DEF MigrateInv

\* What p's step leaves of the other runs.
LEMMA OthersUntouched ==
    ASSUME NEW p \in Migrators, \A q \in Migrators \ {p} : tool'[q] = tool[q]
    PROVE  \A q \in Migrators \ {p} : Script(q)' = Script(q) /\ \A cmd : Busy(q, cmd)' = Busy(q, cmd)
BY DEF Script, Busy

(***************************************************************************)
(* Commands.                                                               *)
(***************************************************************************)
LEMMA NewestOfRecorded ==
    ASSUME recorded \subseteq Scripts, NEW n \in Scripts
    PROVE  /\ Newest(recorded, n) \subseteq recorded
           /\ \A v \in recorded \ Newest(recorded, n) : \A u \in Newest(recorded, n) : v < u
<1> DEFINE Above(v) == {x \in recorded : x > v}
<1>1. \A v : IsFiniteSet(Above(v)) /\ Cardinality(Above(v)) \in Nat
  <2>1. IsFiniteSet(Scripts)
    BY MigrateAssumption, FS_Interval DEF Scripts
  <2> QED
    BY <2>1, FS_Subset, FS_CardinalityType
<1>2. n \in Nat /\ recorded \subseteq Nat
  BY DEF Scripts
<1>3. Newest(recorded, n) = {v \in recorded : Cardinality(Above(v)) < n}
  BY DEF Newest
<1>4. ASSUME NEW v \in recorded, NEW u \in recorded, u <= v
      PROVE  Cardinality(Above(v)) <= Cardinality(Above(u))
  <2>1. \A x \in recorded : x > v => x > u
    <3> SUFFICES ASSUME NEW x \in recorded, x > v
                 PROVE  x > u
      OBVIOUS
    <3>1. x \in Nat /\ u \in Nat /\ v \in Nat
      BY <1>2
    <3> QED
      BY <1>4, <3>1
  <2>2. Above(v) \subseteq Above(u)
    BY <2>1
  <2> HIDE DEF Above
  <2> QED
    BY <1>1, <2>2, FS_Subset
<1> HIDE DEF Above
<1>5. ASSUME NEW v \in recorded, Cardinality(Above(v)) >= n, NEW u \in recorded, Cardinality(Above(u)) < n
      PROVE  v < u
  <2>1. ~(u <= v)
    BY <1>1, <1>2, <1>4, <1>5
  <2> QED
    BY <1>2, <2>1
<1>6. \A v \in recorded \ Newest(recorded, n) : Cardinality(Above(v)) >= n
  BY <1>1, <1>2, <1>3
<1> QED
  BY <1>3, <1>5, <1>6

\* p starts a command on its versions, or goes on from a rollback to "up".
LEMMA StartInv ==
    ASSUME MigrateInv, NEW p \in Migrators, NEW r \in ToolRows,
           tool' = [tool EXCEPT ![p] = r], UNCHANGED <<schema, recorded, torn>>,
           r.cmd # "none", r.done = 0, r.redo => r.cmd = "down",
           r.cmd = "up" => /\ r.left = Scripts \ recorded
                           /\ \A q \in Migrators \ {p} : tool[q].cmd # "down",
           r.cmd = "down" => /\ Alone(p)
                             /\ r.left \subseteq recorded
                             /\ \A v \in recorded \ r.left : \A u \in r.left : v < u
    PROVE  MigrateInv'
<1>1. /\ tool'[p] = r
      /\ \A q \in Migrators \ {p} : tool'[q] = tool[q]
      /\ tool' \in [Migrators -> ToolRows]
  BY DEF MigrateInv, MigrateTypes
<1>2. MigrateTypes'
  BY <1>1 DEF MigrateInv, MigrateTypes
<1>3. RollbackIsAlone'
  <2> SUFFICES ASSUME NEW a \in Migrators, NEW b \in Migrators, tool'[a].cmd = "down", b # a
               PROVE  tool'[b] = NoTool
    BY DEF RollbackIsAlone
  <2>1. CASE a = p
    BY <1>1, <2>1 DEF Alone
  <2>2. CASE a # p /\ b # p
    BY <1>1, <2>2 DEF MigrateInv, RollbackIsAlone
  <2>3. CASE b = p
    BY <1>1, <2>3 DEF Alone, ToolRows, NoTool
  <2> QED
    BY <2>1, <2>2, <2>3
<1>4. PassedIsRecorded'
  BY <1>1 DEF MigrateInv, MigrateTypes, PassedIsRecorded, ToolRows
<1>5. ExecutedIsThere'
  <2> SUFFICES ASSUME NEW q \in Migrators, Busy(q, "up")', NEW i \in 1..tool'[q].done
               PROVE  <<Script(q)', i>> \in schema
    BY DEF ExecutedIsThere
  <2>1. q # p
    BY <1>1
  <2> QED
    BY <1>1, <2>1, OthersUntouched DEF MigrateInv, ExecutedIsThere
<1>6. RecordedIsWhole' /\ RecordedInOrder'
  BY DEF MigrateInv, RecordedIsWhole, RecordedInOrder, Complete
<1> QED
  BY <1>2, <1>3, <1>4, <1>5, <1>6 DEF MigrateInv

LEMMA RunInv ==
    ASSUME MigrateInv, NEW p \in Migrators, run(p)
    PROVE  MigrateInv'
<1>1. /\ recorded \subseteq Scripts /\ UNCHANGED <<schema, recorded, torn>>
      /\ upWork \in ToolRows /\ upWork.cmd = "up" /\ upWork.done = 0 /\ ~upWork.redo /\ upWork.left = Scripts \ recorded
  BY MigrateAssumption DEF run, upWork, ToolRows, MigrateInv, MigrateTypes
<1>2. ASSUME NEW n \in Scripts, NEW redo \in BOOLEAN
      PROVE  /\ downWork(n, redo) \in ToolRows /\ downWork(n, redo).cmd = "down" /\ downWork(n, redo).done = 0
             /\ downWork(n, redo).left \subseteq recorded
             /\ \A v \in recorded \ downWork(n, redo).left : \A u \in downWork(n, redo).left : v < u
  BY <1>1, NewestOfRecorded, MigrateAssumption DEF downWork, ToolRows
<1>3. CASE (\A q \in Migrators : tool[q].cmd # "down") /\ tool' = [tool EXCEPT ![p] = upWork]
  BY <1>1, <1>3, StartInv
<1>4. CASE Alone(p) /\ \E n \in Scripts : tool' = [tool EXCEPT ![p] = downWork(n, FALSE)]
  <2> PICK n \in Scripts : tool' = [tool EXCEPT ![p] = downWork(n, FALSE)]
    BY <1>4
  <2>1. FALSE \in BOOLEAN
    OBVIOUS
  <2>2. /\ downWork(n, FALSE) \in ToolRows /\ downWork(n, FALSE).cmd = "down" /\ downWork(n, FALSE).done = 0
        /\ downWork(n, FALSE).left \subseteq recorded
        /\ \A v \in recorded \ downWork(n, FALSE).left : \A u \in downWork(n, FALSE).left : v < u
    BY <1>2, <2>1
  <2> QED
    BY <1>1, <1>4, <2>2, StartInv
<1>5. CASE Alone(p) /\ tool' = [tool EXCEPT ![p] = downWork(1, TRUE)]
  <2>1. CASE 1 \in Scripts
    <3>1. /\ downWork(1, TRUE) \in ToolRows /\ downWork(1, TRUE).cmd = "down" /\ downWork(1, TRUE).done = 0
          /\ downWork(1, TRUE).left \subseteq recorded
          /\ \A v \in recorded \ downWork(1, TRUE).left : \A u \in downWork(1, TRUE).left : v < u
      BY <1>2, <2>1
    <3> QED
      BY <1>1, <1>5, <3>1, StartInv
  <2>2. CASE 1 \notin Scripts
    <3>1. recorded = {}
      BY <1>1, <2>2, MigrateAssumption DEF Scripts
    <3>2. downWork(1, TRUE).left = {} /\ downWork(1, TRUE).cmd = "down" /\ downWork(1, TRUE).done = 0
      BY <3>1 DEF downWork, Newest
    <3>3. downWork(1, TRUE) \in ToolRows
      BY <3>1, MigrateAssumption DEF downWork, Newest, ToolRows
    <3> QED
      BY <1>1, <1>5, <3>1, <3>2, <3>3, StartInv
  <2> QED
    BY <2>1, <2>2
<1> QED
  BY <1>3, <1>4, <1>5 DEF run

LEMMA FinishInv ==
    ASSUME MigrateInv, NEW p \in Migrators, Finish(p)
    PROVE  MigrateInv'
<1>1. /\ recorded \subseteq Scripts /\ UNCHANGED <<schema, recorded, torn>>
      /\ upWork \in ToolRows /\ upWork.cmd = "up" /\ upWork.done = 0 /\ ~upWork.redo /\ upWork.left = Scripts \ recorded
  BY MigrateAssumption DEF Finish, upWork, ToolRows, MigrateInv, MigrateTypes
<1>2. CASE tool[p].redo /\ tool[p].cmd = "down"
  <2>1. \A q \in Migrators \ {p} : tool[q].cmd # "down"
    BY <1>2 DEF MigrateInv, RollbackIsAlone, NoTool
  <2>2. tool' = [tool EXCEPT ![p] = upWork]
    BY <1>2 DEF Finish
  <2> QED
    BY <1>1, <2>1, <2>2, StartInv
<1>3. CASE ~tool[p].redo
  BY <1>1, <1>3, FailInv DEF Finish, Fail
<1> QED
  BY <1>2, <1>3 DEF MigrateInv, MigrateTypes

(***************************************************************************)
(* Scripts.                                                                *)
(***************************************************************************)
\* A step of p's script, and p's passing to the next one.
LEMMA Stepped ==
    ASSUME MigrateInv, NEW p \in Migrators, Step(p), tool[p].done < TablesPer
    PROVE  /\ tool' \in [Migrators -> ToolRows]
           /\ \A q \in Migrators \ {p} : tool'[q] = tool[q]
           /\ tool'[p].cmd = tool[p].cmd /\ tool'[p].left = tool[p].left /\ tool'[p].redo = tool[p].redo
           /\ tool'[p].done = tool[p].done + 1
           /\ Script(p)' = Script(p)
<1>1. /\ tool[p] \in ToolRows
      /\ tool' = [tool EXCEPT ![p] = [cmd |-> tool[p].cmd, left |-> tool[p].left, done |-> tool[p].done + 1,
                                      redo |-> tool[p].redo]]
  <2>1. \A r \in ToolRows : \A n : [r EXCEPT !.done = n] = [cmd |-> r.cmd, left |-> r.left, done |-> n, redo |-> r.redo]
    BY DEF ToolRows
  <2> QED
    BY <2>1 DEF Step, MigrateInv, MigrateTypes
<1>2. tool[p].done + 1 \in 0..TablesPer
  BY <1>1, MigrateAssumption DEF ToolRows
<1>3. /\ tool' \in [Migrators -> ToolRows]
      /\ \A q \in Migrators \ {p} : tool'[q] = tool[q]
      /\ tool'[p].cmd = tool[p].cmd /\ tool'[p].left = tool[p].left /\ tool'[p].redo = tool[p].redo
      /\ tool'[p].done = tool[p].done + 1
  BY <1>1, <1>2 DEF MigrateInv, MigrateTypes, ToolRows
<1> QED
  BY <1>3 DEF Script

LEMMA Passed ==
    ASSUME MigrateInv, NEW p \in Migrators, NextScript(p)
    PROVE  /\ tool' \in [Migrators -> ToolRows]
           /\ \A q \in Migrators \ {p} : tool'[q] = tool[q]
           /\ tool'[p].cmd = tool[p].cmd /\ tool'[p].left = tool[p].left \ {Script(p)}
           /\ tool'[p].redo = tool[p].redo /\ tool'[p].done = 0
<1>1. /\ tool[p] \in ToolRows
      /\ tool' = [tool EXCEPT ![p] = [cmd |-> tool[p].cmd, left |-> tool[p].left \ {Script(p)}, done |-> 0,
                                      redo |-> tool[p].redo]]
  <2> DEFINE r == tool[p]
             l == tool[p].left \ {Script(p)}
  <2>1. r \in ToolRows /\ l \in SUBSET Scripts
    BY DEF MigrateInv, MigrateTypes, ToolRows
  <2>2. tool' = [tool EXCEPT ![p] = [[r EXCEPT !.left = l] EXCEPT !.done = 0]]
    BY DEF NextScript, MigrateInv, MigrateTypes
  <2> HIDE DEF r, l
  <2>3. [r EXCEPT !.left = l] = [cmd |-> r.cmd, left |-> l, done |-> r.done, redo |-> r.redo]
    BY <2>1 DEF ToolRows
  <2>4. \A x \in ToolRows : [x EXCEPT !.done = 0] = [cmd |-> x.cmd, left |-> x.left, done |-> 0, redo |-> x.redo]
    BY DEF ToolRows
  <2>5. [r EXCEPT !.left = l] \in ToolRows
    BY <2>1, <2>3 DEF ToolRows
  <2>6. [[r EXCEPT !.left = l] EXCEPT !.done = 0] = [cmd |-> r.cmd, left |-> l, done |-> 0, redo |-> r.redo]
    BY <2>3, <2>4, <2>5
  <2> QED
    BY <2>1, <2>2, <2>6 DEF r, l
<1>2. 0 \in 0..TablesPer
  BY MigrateAssumption
<1> QED
  BY <1>1, <1>2 DEF MigrateInv, MigrateTypes, ToolRows

LEMMA ExecUpInv ==
    ASSUME MigrateInv, NEW p \in Migrators, execUp(p)
    PROVE  MigrateInv'
<1> DEFINE t == <<Script(p), tool[p].done + 1>>
<1>1. Busy(p, "up") /\ tool[p].done < TablesPer /\ UNCHANGED <<recorded, torn>>
  BY DEF execUp
<1>2. CASE Fail(p) /\ UNCHANGED schema
  BY <1>1, <1>2, FailInv
<1>3. CASE Step(p) /\ schema' = schema \cup {t}
  <2>1. MigrateTypes'
    BY <1>1, <1>3, Stepped DEF MigrateInv, MigrateTypes, Busy
  <2>2. RollbackIsAlone'
    BY <1>1, <1>3, Stepped DEF MigrateInv, RollbackIsAlone, Busy, NoTool
  <2>5. PassedIsRecorded'
    BY <1>1, <1>3, Stepped DEF MigrateInv, PassedIsRecorded, Busy
  <2>3. ExecutedIsThere'
    <3> SUFFICES ASSUME NEW q \in Migrators, Busy(q, "up")', NEW i \in 1..tool'[q].done
                 PROVE  <<Script(q)', i>> \in schema'
      BY DEF ExecutedIsThere
    <3>1. CASE q # p
      BY <1>1, <1>3, <3>1, Stepped, OthersUntouched DEF MigrateInv, ExecutedIsThere
    <3>2. CASE q = p
      <4>1. i \in 1..tool[p].done \/ i = tool[p].done + 1
        BY <1>1, <1>3, <3>2, Stepped DEF MigrateInv, MigrateTypes, ToolRows
      <4> QED
        BY <1>1, <1>3, <3>2, <4>1, Stepped DEF MigrateInv, ExecutedIsThere
    <3> QED
      BY <3>1, <3>2
  <2>4. RecordedIsWhole' /\ RecordedInOrder'
    BY <1>1, <1>3 DEF MigrateInv, RecordedIsWhole, RecordedInOrder, Complete
  <2> QED
    BY <2>1, <2>2, <2>3, <2>4, <2>5 DEF MigrateInv
<1> QED
  BY <1>2, <1>3 DEF execUp

\* A version is recorded with all its tables, and after all before it.
LEMMA MigrateUpInv ==
    ASSUME MigrateInv, NEW p \in Migrators, migrateUp(p)
    PROVE  MigrateInv'
<1> DEFINE v == Script(p)
<1>1. /\ Busy(p, "up") /\ tool[p].done = TablesPer /\ tool[p].left # {} /\ tool[p].cmd = "up"
      /\ recorded' = recorded \cup {v} /\ UNCHANGED <<schema, torn>>
  BY DEF migrateUp, Busy
<1>2. v \in tool[p].left /\ v \in Scripts /\ \A u \in tool[p].left : v <= u
  BY <1>1, ScriptFacts
<1>3. \A q \in Migrators : tool[q].cmd # "down"
  BY <1>1 DEF MigrateInv, RollbackIsAlone, NoTool
<1>4. RecordedIsWhole'
  BY <1>1 DEF MigrateInv, RecordedIsWhole, ExecutedIsThere, Complete
<1>5. RecordedInOrder'
  <2>1. \A u \in 1..(v - 1) : u \in Scripts /\ u \notin tool[p].left
    BY <1>2, MigrateAssumption DEF Scripts
  <2> QED
    BY <1>1, <2>1 DEF MigrateInv, PassedIsRecorded, RecordedInOrder
<1> HIDE DEF v
<1>6. CASE v \in recorded /\ Fail(p)
  <2>1. UNCHANGED <<schema, recorded, torn>>
    BY <1>1, <1>6
  <2> QED
    BY <1>6, <2>1, FailInv
<1>7. CASE NextScript(p)
  <2>1. /\ tool' \in [Migrators -> ToolRows]
        /\ \A q \in Migrators \ {p} : tool'[q] = tool[q]
        /\ tool'[p].cmd = "up" /\ tool'[p].left = tool[p].left \ {v}
        /\ tool'[p].redo = tool[p].redo /\ tool'[p].done = 0
    BY <1>1, <1>7, Passed DEF v
  <2>2. MigrateTypes'
    BY <1>1, <1>2, <2>1 DEF MigrateInv, MigrateTypes
  <2>3. RollbackIsAlone'
    BY <1>3, <2>1 DEF RollbackIsAlone
  <2>4. PassedIsRecorded'
    BY <1>1, <1>3, <2>1 DEF MigrateInv, PassedIsRecorded
  <2>5. ExecutedIsThere'
    <3> SUFFICES ASSUME NEW q \in Migrators, Busy(q, "up")', NEW i \in 1..tool'[q].done
                 PROVE  <<Script(q)', i>> \in schema
      BY <1>1 DEF ExecutedIsThere
    <3>1. q # p
      BY <2>1
    <3> QED
      BY <2>1, <3>1, OthersUntouched DEF MigrateInv, ExecutedIsThere
  <2> QED
    BY <1>4, <1>5, <2>2, <2>3, <2>4, <2>5 DEF MigrateInv
<1> QED
  BY <1>6, <1>7 DEF migrateUp, v

\* A rollback has the schema to itself; what it takes apart is torn.
LEMMA OthersIdle ==
    ASSUME MigrateInv, NEW p \in Migrators, tool[p].cmd = "down"
    PROVE  \A q \in Migrators \ {p} : tool[q].cmd = "none"
BY DEF MigrateInv, RollbackIsAlone, NoTool

LEMMA ExecDownInv ==
    ASSUME MigrateInv, NEW p \in Migrators, execDown(p)
    PROVE  MigrateInv'
<1> DEFINE v == Script(p)
           t == <<v, TablesPer - tool[p].done>>
<1>1. Busy(p, "down") /\ tool[p].cmd = "down" /\ tool[p].done < TablesPer /\ UNCHANGED recorded
  BY DEF execDown, Busy
<1>2. CASE Fail(p) /\ UNCHANGED <<schema, torn>>
  BY <1>1, <1>2, FailInv
<1>3. CASE Step(p) /\ schema' = schema \ {t} /\ torn' = torn \cup {v}
  <2>1. /\ tool' \in [Migrators -> ToolRows]
        /\ \A q \in Migrators \ {p} : tool'[q] = tool[q]
        /\ tool'[p].cmd = "down" /\ tool'[p].left = tool[p].left /\ tool'[p].redo = tool[p].redo
    BY <1>1, <1>3, Stepped
  <2>2. MigrateTypes' /\ RollbackIsAlone'
    BY <1>1, <2>1 DEF MigrateInv, MigrateTypes, RollbackIsAlone, NoTool
  <2>3. PassedIsRecorded'
    BY <1>1, <2>1 DEF MigrateInv, PassedIsRecorded
  <2>4. ExecutedIsThere'
    BY <1>1, <2>1, OthersIdle DEF ExecutedIsThere, Busy
  <2>5. RecordedIsWhole'
    BY <1>1, <1>3 DEF MigrateInv, RecordedIsWhole, Complete
  <2>6. RecordedInOrder'
    BY <1>1 DEF MigrateInv, RecordedInOrder
  <2> QED
    BY <2>2, <2>3, <2>4, <2>5, <2>6 DEF MigrateInv
<1> QED
  BY <1>2, <1>3 DEF execDown

\* The newest recorded version goes first.
LEMMA MigrateDownInv ==
    ASSUME MigrateInv, NEW p \in Migrators, migrateDown(p)
    PROVE  MigrateInv'
<1> DEFINE v == Script(p)
<1>1. /\ tool[p].cmd = "down" /\ tool[p].left # {} /\ NextScript(p)
      /\ recorded' = recorded \ {v} /\ torn' = torn \ {v} /\ UNCHANGED schema
  BY DEF migrateDown, Busy
<1>2. v \in tool[p].left /\ v \in Scripts /\ \A u \in tool[p].left : u <= v
  BY <1>1, ScriptFacts
<1>3. /\ tool[p].left \subseteq recorded /\ recorded \subseteq Scripts
      /\ \A x \in recorded \ tool[p].left : \A u \in tool[p].left : x < u
  BY <1>1 DEF MigrateInv, MigrateTypes, PassedIsRecorded
<1>4. /\ tool' \in [Migrators -> ToolRows]
      /\ \A q \in Migrators \ {p} : tool'[q] = tool[q]
      /\ tool'[p].cmd = "down" /\ tool'[p].left = tool[p].left \ {v} /\ tool'[p].redo = tool[p].redo
  BY <1>1, Passed
<1> HIDE DEF v
<1>5. \A x \in recorded : x <= v
  <2> SUFFICES ASSUME NEW x \in recorded
               PROVE  x <= v
    OBVIOUS
  <2>1. x \in Int /\ v \in Int
    BY <1>2, <1>3 DEF Scripts
  <2>2. CASE x \notin tool[p].left
    <3>1. x < v
      BY <1>2, <1>3, <2>2
    <3> QED
      BY <2>1, <3>1
  <2> QED
    BY <1>2, <2>2
<1>6. MigrateTypes' /\ RollbackIsAlone'
  BY <1>1, <1>4 DEF MigrateInv, MigrateTypes, RollbackIsAlone, NoTool
<1>7. PassedIsRecorded'
  <2> SUFFICES ASSUME NEW q \in Migrators
               PROVE  /\ tool'[q].cmd = "up" => Scripts \ tool'[q].left \subseteq recorded'
                      /\ tool'[q].cmd = "down" =>
                           /\ tool'[q].left \subseteq recorded'
                           /\ \A x \in recorded' \ tool'[q].left : \A u \in tool'[q].left : x < u
    BY DEF PassedIsRecorded
  <2>1. CASE q # p
    BY <1>1, <1>4, <2>1, OthersIdle
  <2>2. CASE q = p
    BY <1>1, <1>3, <1>4, <2>2
  <2> QED
    BY <2>1, <2>2
<1>8. ExecutedIsThere'
  BY <1>1, <1>4, OthersIdle DEF ExecutedIsThere, Busy
<1>9. RecordedIsWhole'
  BY <1>1 DEF MigrateInv, RecordedIsWhole, Complete
<1>10. RecordedInOrder'
  <2> SUFFICES ASSUME NEW x \in recorded', NEW u \in 1..(x - 1)
               PROVE  u \in recorded'
    BY DEF RecordedInOrder
  <2>1. x \in recorded /\ x \in Nat /\ v \in Nat /\ u < x /\ u \in recorded
    BY <1>1, <1>2, <1>3 DEF MigrateInv, RecordedInOrder, Scripts
  <2>2. u # v
    BY <1>5, <2>1
  <2> QED
    BY <1>1, <2>1, <2>2
<1> QED
  BY <1>6, <1>7, <1>8, <1>9, <1>10 DEF MigrateInv

LEMMA MigrateStepInv == MigrateInv /\ [MigrateNext]_migrateVars => MigrateInv'
<1> SUFFICES ASSUME MigrateInv, [MigrateNext]_migrateVars
             PROVE  MigrateInv'
  OBVIOUS
<1>1. ASSUME NEW p \in Migrators, Stop(p)
      PROVE  MigrateInv'
  BY <1>1, FailInv DEF Stop
<1>2. CASE UNCHANGED migrateVars
  BY <1>2 DEF migrateVars, MigrateInv, MigrateTypes, RollbackIsAlone, ExecutedIsThere, Busy, Script,
     PassedIsRecorded, RecordedIsWhole, Complete, RecordedInOrder
<1> QED
  BY <1>1, <1>2, RunInv, FinishInv, ExecUpInv, MigrateUpInv, ExecDownInv, MigrateDownInv DEF MigrateNext

LEMMA MigrateInvariant == MigrateSpec => []MigrateInv
<1>1. MigrateInit => MigrateInv
  BY MigrateInitInv
<1>2. MigrateInv /\ [MigrateNext]_migrateVars => MigrateInv'
  BY MigrateStepInv
<1> QED
  BY <1>1, <1>2, PTL DEF MigrateSpec

(***************************************************************************)
(* Theorems.                                                               *)
(***************************************************************************)
\* A version that is recorded has all its tables, unless a rollback of it was
\* stopped: the order of execInTx and the INSERT, for any runs of "up" at once.
THEOREM RecordedVersionsAreWhole == MigrateSpec => []RecordedIsWhole
<1>1. MigrateInv => RecordedIsWhole
  BY DEF MigrateInv
<1> QED
  BY <1>1, MigrateInvariant, PTL

\* No version is recorded before an older one.
THEOREM RecordedVersionsAreInOrder == MigrateSpec => []RecordedInOrder
<1>1. MigrateInv => RecordedInOrder
  BY DEF MigrateInv
<1> QED
  BY <1>1, MigrateInvariant, PTL
=============================================================================
