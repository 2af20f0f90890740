----------------------------- MODULE Store_proofs -----------------------------
(***************************************************************************)
(* Proofs about what the staff of one store keep, for every number of      *)
(* members of staff and any bounds: its menu (categories, dishes and the   *)
(* bin, every window and every length of a day), the codes of its tables   *)
(* and its purchase lists.                                                 *)
(***************************************************************************)
EXTENDS Menu, Tables, PurchaseList, SequenceTheorems, TLAPS

(***************************************************************************)
(* The menu: the inductive invariant.                                      *)
(***************************************************************************)
\* A dish there is has a category, live or not.
DishesHaveCats == \A d \in Dishes : dishState[d] # "NONE" => dishCat[d] \in Cats

\* Batches are numbered upwards: every row in the bin is of one used so far.
BatchesAreUsed ==
    /\ \A c \in Cats : catBatch[c] <= batches
    /\ \A d \in Dishes : dishBatch[d] <= batches

\* A dish deleted on its own is in the bin, under a batch of no category.
AloneIsAlone ==
    \A d \in alone : /\ dishState[d] = "DELETED"
                     /\ \A c \in Cats : catBatch[c] # dishBatch[d]

MenuInv == MenuTypeOK /\ DishesHaveCats /\ BatchesAreUsed /\ AloneIsAlone /\ LiveDishHasCategory

LEMMA MenuInitInv == MenuInit => MenuInv
BY MenuAssumption DEF MenuInit, MenuInv, MenuTypeOK, DishesHaveCats, BatchesAreUsed, AloneIsAlone,
   LiveDishHasCategory, RowStates

\* Which rows a step leaves alone decides which conjuncts it can disturb.
LEMMA RowsUntouched ==
    ASSUME MenuInv, UNCHANGED <<catState, catBatch, dishState, dishBatch, dishCat, batches, alone, stray>>,
           MenuTypeOK'
    PROVE  MenuInv'
BY DEF MenuInv, DishesHaveCats, BatchesAreUsed, AloneIsAlone, LiveDishHasCategory

(***************************************************************************)
(* Categories.                                                             *)
(***************************************************************************)
LEMMA CreateCategoryInv ==
    ASSUME MenuInv, NEW c \in Cats, NEW on \in BOOLEAN, CreateCategory(c, on)
    PROVE  MenuInv'
<1> USE DEF CreateCategory, catVars, dishVars, binVars
<1>1. MenuTypeOK'
  BY DEF MenuInv, MenuTypeOK, RowStates
<1>2. \A x \in Cats : catState'[x] = IF x = c THEN "LIVE" ELSE catState[x]
  BY DEF MenuInv, MenuTypeOK
<1>3. DishesHaveCats' /\ BatchesAreUsed' /\ AloneIsAlone' /\ LiveDishHasCategory'
  BY <1>2 DEF MenuInv, DishesHaveCats, BatchesAreUsed, AloneIsAlone, LiveDishHasCategory
<1> QED
  BY <1>1, <1>3 DEF MenuInv

\* The number of a new batch.
LEMMA BatchIsNew ==
    ASSUME MenuInv, NewBatch
    PROVE  /\ batches + 1 \in 1..MaxBatches /\ batches \in Nat /\ batches' = batches + 1
           /\ batches' \in 0..MaxBatches /\ batchAt' \in [1..MaxBatches -> 0..MaxClock] /\ clock' = clock
           /\ \A c \in Cats : catBatch[c] \in 0..batches
           /\ \A d \in Dishes : dishBatch[d] \in 0..batches
BY MenuAssumption DEF NewBatch, MenuInv, MenuTypeOK, BatchesAreUsed

\* The rows of a deletion.
LEMMA TakenCategories ==
    ASSUME MenuInv, NewBatch, NEW C \in SUBSET Cats, TakeCategories(C)
    PROVE  /\ catState' \in [Cats -> RowStates] /\ catOn' \in [Cats -> BOOLEAN] /\ catBatch' \in [Cats -> 0..MaxBatches]
           /\ \A c \in Cats : /\ catState'[c] = IF c \in C THEN "DELETED" ELSE catState[c]
                              /\ catBatch'[c] = IF c \in C THEN batches + 1 ELSE catBatch[c]
           /\ \A c \in Cats : catState'[c] = "DELETED" <=> catBatch'[c] # 0
BY BatchIsNew DEF TakeCategories, MenuInv, MenuTypeOK, RowStates

LEMMA TakenDishes ==
    ASSUME MenuInv, NewBatch, NEW D \in SUBSET Dishes, TakeDishes(D)
    PROVE  /\ dishState' \in [Dishes -> RowStates] /\ dishOn' \in [Dishes -> BOOLEAN]
           /\ dishBatch' \in [Dishes -> 0..MaxBatches] /\ dishCat' = dishCat
           /\ \A d \in Dishes : /\ dishState'[d] = IF d \in D THEN "DELETED" ELSE dishState[d]
                                /\ dishBatch'[d] = IF d \in D THEN batches + 1 ELSE dishBatch[d]
           /\ \A d \in Dishes : dishState'[d] = "DELETED" <=> dishBatch'[d] # 0
BY BatchIsNew DEF TakeDishes, MenuInv, MenuTypeOK, RowStates

\* The live dishes of the category go with it, also when a second deletion
\* finds it in the bin already.
LEMMA CommitDeleteInv ==
    ASSUME MenuInv, NEW m \in MenuStaff, CommitDeleteCategory(m)
    PROVE  MenuInv'
<1> DEFINE c == deleting[m]
           D == ListProducts({c}, FALSE)
<1>1. /\ c \in Cats /\ NewBatch /\ TakeCategories({c}) /\ TakeDishes(D)
      /\ deleting' = [deleting EXCEPT ![m] = NoCat] /\ UNCHANGED <<alone, stray>>
  BY DEF CommitDeleteCategory, MenuInv, MenuTypeOK
<1>2. D = {d \in Dishes : dishCat[d] = c /\ dishState[d] = "LIVE"}
  BY DEF ListProducts
<1> HIDE DEF D, c
<1>3. /\ \A x \in Cats : /\ catState'[x] = IF x = c THEN "DELETED" ELSE catState[x]
                         /\ catBatch'[x] = IF x = c THEN batches + 1 ELSE catBatch[x]
      /\ \A d \in Dishes : /\ dishState'[d] = IF d \in D THEN "DELETED" ELSE dishState[d]
                           /\ dishBatch'[d] = IF d \in D THEN batches + 1 ELSE dishBatch[d]
      /\ dishCat' = dishCat
  BY <1>1, <1>2, TakenCategories, TakenDishes
<1>4. MenuTypeOK'
  <2>1. deleting' \in [MenuStaff -> Cats \cup {NoCat}]
    BY <1>1 DEF MenuInv, MenuTypeOK
  <2> QED
    BY <1>1, <1>2, <2>1, TakenCategories, TakenDishes, BatchIsNew DEF MenuInv, MenuTypeOK
<1>5. DishesHaveCats'
  BY <1>2, <1>3 DEF MenuInv, DishesHaveCats
<1>6. BatchesAreUsed'
  BY <1>1, <1>3, BatchIsNew DEF BatchesAreUsed
<1>7. AloneIsAlone'
  <2>1. \A d \in alone : d \in Dishes /\ d \notin D
    BY <1>2 DEF MenuInv, MenuTypeOK, AloneIsAlone
  <2> QED
    BY <1>1, <1>3, <2>1, BatchIsNew DEF MenuInv, AloneIsAlone
<1>8. LiveDishHasCategory'
  <2> SUFFICES ASSUME NEW d \in Dishes, dishState'[d] = "LIVE"
               PROVE  catState'[dishCat[d]] = "LIVE" \/ d \in stray
    BY <1>1, <1>3 DEF LiveDishHasCategory
  <2>1. dishState[d] = "LIVE" /\ dishCat[d] # c /\ dishCat[d] \in Cats
    BY <1>2, <1>3 DEF MenuInv, DishesHaveCats
  <2> QED
    BY <1>3, <2>1 DEF MenuInv, LiveDishHasCategory
<1> QED
  BY <1>4, <1>5, <1>6, <1>7, <1>8 DEF MenuInv

\* What comes back with a category is what shares its batch.
LEMMA RestoreCategoryInv ==
    ASSUME MenuInv, NEW c \in Cats, RestoreCategory(c)
    PROVE  MenuInv'
<1> DEFINE D == {d \in Dishes : dishBatch[d] = catBatch[c]}
<1>1. /\ catState[c] = "DELETED" /\ catBatch[c] # 0
      /\ catState' = [catState EXCEPT ![c] = "LIVE"]
      /\ catBatch' = [catBatch EXCEPT ![c] = 0]
      /\ catOn' = [catOn EXCEPT ![c] = TRUE]
      /\ dishState' = [d \in Dishes |-> IF d \in D THEN "LIVE" ELSE dishState[d]]
      /\ dishBatch' = [d \in Dishes |-> IF d \in D THEN 0 ELSE dishBatch[d]]
      /\ stray' = stray \cup {d \in D : dishCat[d] # c /\ catState[dishCat[d]] # "LIVE"}
      /\ UNCHANGED <<dishOn, dishCat, batches, batchAt, clock, deleting, alone>>
  BY DEF RestoreCategory, binVars, MenuInv, MenuTypeOK
<1>2. \A d \in D : dishState[d] = "DELETED" /\ d \notin alone
  BY <1>1 DEF MenuInv, MenuTypeOK, AloneIsAlone
<1>3. /\ \A x \in Cats : /\ catState'[x] = IF x = c THEN "LIVE" ELSE catState[x]
                         /\ catBatch'[x] = IF x = c THEN 0 ELSE catBatch[x]
      /\ \A d \in Dishes : /\ dishState'[d] = IF d \in D THEN "LIVE" ELSE dishState[d]
                           /\ dishBatch'[d] = IF d \in D THEN 0 ELSE dishBatch[d]
  BY <1>1 DEF MenuInv, MenuTypeOK
<1>4. D \subseteq Dishes /\ alone \subseteq Dishes
  BY DEF MenuInv, MenuTypeOK
<1> HIDE DEF D
<1>5. MenuTypeOK'
  <2>1. 0 \in 0..MaxBatches
    BY MenuAssumption
  <2>2. /\ catState' \in [Cats -> RowStates] /\ catOn' \in [Cats -> BOOLEAN] /\ catBatch' \in [Cats -> 0..MaxBatches]
        /\ \A x \in Cats : catState'[x] = "DELETED" <=> catBatch'[x] # 0
    BY <1>1, <1>3, <2>1 DEF MenuInv, MenuTypeOK, RowStates
  <2>3. /\ dishState' \in [Dishes -> RowStates] /\ dishBatch' \in [Dishes -> 0..MaxBatches]
        /\ \A d \in Dishes : dishState'[d] = "DELETED" <=> dishBatch'[d] # 0
    BY <1>1, <1>3, <2>1 DEF MenuInv, MenuTypeOK, RowStates
  <2>4. stray' \subseteq Dishes
    BY <1>1, <1>4 DEF MenuInv, MenuTypeOK
  <2> QED
    BY <1>1, <2>2, <2>3, <2>4 DEF MenuInv, MenuTypeOK
<1>6. DishesHaveCats' /\ BatchesAreUsed'
  BY <1>1, <1>2, <1>3, MenuAssumption DEF MenuInv, MenuTypeOK, DishesHaveCats, BatchesAreUsed
<1>7. AloneIsAlone'
  <2>1. \A d \in alone : dishBatch[d] # 0
    BY <1>4 DEF MenuInv, MenuTypeOK, AloneIsAlone
  <2> QED
    BY <1>1, <1>2, <1>3, <1>4, <2>1 DEF MenuInv, AloneIsAlone
<1>8. LiveDishHasCategory'
  <2> SUFFICES ASSUME NEW d \in Dishes, dishState'[d] = "LIVE", d \notin stray'
               PROVE  catState'[dishCat[d]] = "LIVE"
    BY <1>1 DEF LiveDishHasCategory
  <2>1. dishCat[d] \in Cats
    BY <1>2, <1>3 DEF MenuInv, DishesHaveCats
  <2>2. dishCat[d] = c \/ catState[dishCat[d]] = "LIVE"
    BY <1>1, <1>3 DEF MenuInv, LiveDishHasCategory
  <2> QED
    BY <1>3, <2>1, <2>2
<1> QED
  BY <1>5, <1>6, <1>7, <1>8 DEF MenuInv

(***************************************************************************)
(* Dishes and imports.                                                     *)
(***************************************************************************)
LEMMA CreateProductInv ==
    ASSUME MenuInv, NEW d \in Dishes, NEW c \in Cats, NEW on \in BOOLEAN, CreateProduct(d, c, on)
    PROVE  MenuInv'
<1>1. /\ dishState[d] = "NONE"
      /\ dishState' = [dishState EXCEPT ![d] = "LIVE"]
      /\ dishCat' = [dishCat EXCEPT ![d] = c]
      /\ dishOn' = [dishOn EXCEPT ![d] = on]
      /\ stray' = IF catState[c] = "LIVE" THEN stray ELSE stray \cup {d}
      /\ UNCHANGED <<catState, catOn, catBatch, dishBatch, batches, batchAt, clock, deleting, alone>>
  BY DEF CreateProduct, catVars, binVars
<1>2. \A x \in Dishes : /\ dishState'[x] = IF x = d THEN "LIVE" ELSE dishState[x]
                        /\ dishCat'[x] = IF x = d THEN c ELSE dishCat[x]
  BY <1>1 DEF MenuInv, MenuTypeOK
<1>3. MenuTypeOK'
  BY <1>1, <1>2 DEF MenuInv, MenuTypeOK, RowStates
<1>4. DishesHaveCats' /\ BatchesAreUsed' /\ AloneIsAlone'
  BY <1>1, <1>2 DEF MenuInv, MenuTypeOK, DishesHaveCats, BatchesAreUsed, AloneIsAlone
<1>5. LiveDishHasCategory'
  BY <1>1, <1>2 DEF MenuInv, LiveDishHasCategory
<1> QED
  BY <1>3, <1>4, <1>5 DEF MenuInv

LEMMA DeleteProductInv ==
    ASSUME MenuInv, NEW d \in Dishes, DeleteProduct(d)
    PROVE  MenuInv'
<1>1. /\ dishState[d] = "LIVE" /\ NewBatch /\ TakeDishes({d}) /\ alone' = alone \cup {d}
      /\ UNCHANGED <<catState, catOn, catBatch, deleting, stray>>
  BY DEF DeleteProduct, catVars
<1>2. /\ \A x \in Dishes : /\ dishState'[x] = IF x = d THEN "DELETED" ELSE dishState[x]
                           /\ dishBatch'[x] = IF x = d THEN batches + 1 ELSE dishBatch[x]
      /\ dishCat' = dishCat
  BY <1>1, TakenDishes
<1>3. MenuTypeOK'
  BY <1>1, TakenDishes, BatchIsNew DEF MenuInv, MenuTypeOK
<1>4. DishesHaveCats' /\ LiveDishHasCategory'
  BY <1>1, <1>2 DEF MenuInv, DishesHaveCats, LiveDishHasCategory
<1>5. BatchesAreUsed'
  BY <1>1, <1>2, BatchIsNew DEF BatchesAreUsed
<1>6. AloneIsAlone'
  BY <1>1, <1>2, BatchIsNew DEF MenuInv, MenuTypeOK, AloneIsAlone
<1> QED
  BY <1>3, <1>4, <1>5, <1>6 DEF MenuInv

LEMMA RestoreProductInv ==
    ASSUME MenuInv, NEW d \in Dishes, RestoreProduct(d)
    PROVE  MenuInv'
<1>1. /\ catState[dishCat[d]] = "LIVE" /\ dishState[d] = "DELETED"
      /\ dishState' = [dishState EXCEPT ![d] = "LIVE"]
      /\ dishBatch' = [dishBatch EXCEPT ![d] = 0]
      /\ alone' = alone \ {d}
      /\ UNCHANGED <<catState, catOn, catBatch, dishOn, dishCat, batches, batchAt, clock, deleting, stray>>
  BY DEF RestoreProduct, ListCategories, catVars, binVars
<1>2. \A x \in Dishes : /\ dishState'[x] = IF x = d THEN "LIVE" ELSE dishState[x]
                        /\ dishBatch'[x] = IF x = d THEN 0 ELSE dishBatch[x]
  BY <1>1 DEF MenuInv, MenuTypeOK
<1>3. MenuTypeOK'
  <2>1. 0 \in 0..MaxBatches
    BY MenuAssumption
  <2>2. /\ dishState' \in [Dishes -> RowStates] /\ dishBatch' \in [Dishes -> 0..MaxBatches]
        /\ \A x \in Dishes : dishState'[x] = "DELETED" <=> dishBatch'[x] # 0
    BY <1>1, <1>2, <2>1 DEF MenuInv, MenuTypeOK, RowStates
  <2> QED
    BY <1>1, <2>2 DEF MenuInv, MenuTypeOK
<1>4. DishesHaveCats' /\ BatchesAreUsed' /\ AloneIsAlone'
  BY <1>1, <1>2 DEF MenuInv, MenuTypeOK, DishesHaveCats, BatchesAreUsed, AloneIsAlone
<1>5. LiveDishHasCategory'
  BY <1>1, <1>2 DEF MenuInv, LiveDishHasCategory
<1> QED
  BY <1>3, <1>4, <1>5 DEF MenuInv

\* The whole menu becomes one batch; what the file brings is new.
LEMMA ImportInv ==
    ASSUME MenuInv, NEW C \in SUBSET Cats, NEW D \in SUBSET Dishes,
           C = {} => D = {}, \A x, y \in C : x = y, Import(C, D)
    PROVE  MenuInv'
<1> DEFINE c == CHOOSE x \in C : TRUE
<1>1. /\ \A x \in C : catState[x] = "NONE"
      /\ \A d \in D : dishState[d] = "NONE"
      /\ NewBatch
      /\ catOn' = [x \in Cats |-> x \in C]
      /\ dishOn' = [d \in Dishes |-> d \in D]
      /\ UNCHANGED <<deleting, alone, stray>>
  BY DEF Import
<1>2. \A x \in C : x = c
  OBVIOUS
<1>3. catState' = [x \in Cats |-> IF x \in C THEN "LIVE"
                                  ELSE IF catState[x] = "LIVE" THEN "DELETED" ELSE catState[x]]
  BY DEF Import, ListCategories
<1>4. catBatch' = [x \in Cats |-> IF catState[x] = "LIVE" THEN batches + 1 ELSE catBatch[x]]
  BY DEF Import, ListCategories
<1>5. /\ dishState' = [d \in Dishes |-> IF d \in D THEN "LIVE"
                                        ELSE IF dishState[d] = "LIVE" THEN "DELETED" ELSE dishState[d]]
      /\ dishBatch' = [d \in Dishes |-> IF dishState[d] = "LIVE" THEN batches + 1 ELSE dishBatch[d]]
      /\ dishCat' = [d \in Dishes |-> IF d \in D THEN c ELSE dishCat[d]]
  BY DEF Import
<1>6. D # {} => c \in C
  BY <1>2
<1> HIDE DEF c
<1>7. MenuTypeOK'
  <2>1. /\ catState' \in [Cats -> RowStates] /\ catOn' \in [Cats -> BOOLEAN] /\ catBatch' \in [Cats -> 0..MaxBatches]
        /\ \A x \in Cats : catState'[x] = "DELETED" <=> catBatch'[x] # 0
    BY <1>1, <1>3, <1>4, BatchIsNew DEF MenuInv, MenuTypeOK, RowStates
  <2>2. /\ dishState' \in [Dishes -> RowStates] /\ dishOn' \in [Dishes -> BOOLEAN]
        /\ dishBatch' \in [Dishes -> 0..MaxBatches]
        /\ \A d \in Dishes : dishState'[d] = "DELETED" <=> dishBatch'[d] # 0
    BY <1>1, <1>5, BatchIsNew DEF MenuInv, MenuTypeOK, RowStates
  <2>3. dishCat' \in [Dishes -> Cats \cup {NoCat}]
    BY <1>5, <1>6 DEF MenuInv, MenuTypeOK
  <2> QED
    BY <1>1, <2>1, <2>2, <2>3, BatchIsNew DEF MenuInv, MenuTypeOK
<1>8. DishesHaveCats'
  BY <1>5, <1>6 DEF MenuInv, DishesHaveCats
<1>9. BatchesAreUsed'
  BY <1>1, <1>4, <1>5, BatchIsNew DEF BatchesAreUsed
<1>10. AloneIsAlone'
  <2>1. \A d \in alone : d \in Dishes /\ dishState[d] = "DELETED" /\ d \notin D
    BY <1>1 DEF MenuInv, MenuTypeOK, AloneIsAlone
  <2> QED
    BY <1>1, <1>4, <1>5, <2>1, BatchIsNew DEF MenuInv, AloneIsAlone
<1>11. LiveDishHasCategory'
  <2>1. \A d \in Dishes : dishState'[d] = "LIVE" => d \in D
    BY <1>5
  <2> QED
    BY <1>3, <1>5, <1>6, <2>1 DEF LiveDishHasCategory
<1> QED
  BY <1>7, <1>8, <1>9, <1>10, <1>11 DEF MenuInv

(***************************************************************************)
(* Every step keeps the invariant.                                         *)
(***************************************************************************)
LEMMA MenuStepInv == MenuInv /\ [MenuNext]_menuVars => MenuInv'
<1> SUFFICES ASSUME MenuInv, [MenuNext]_menuVars
             PROVE  MenuInv'
  OBVIOUS
<1>1. CASE PostCategory
  BY <1>1, CreateCategoryInv DEF PostCategory
<1>2. CASE PatchCategory
  <2> PICK c \in Cats, on \in BOOLEAN : UpdateCategory(c, on)
    BY <1>2 DEF PatchCategory
  <2> QED
    BY RowsUntouched DEF UpdateCategory, catVars, dishVars, binVars, MenuInv, MenuTypeOK
<1>3. CASE DeleteCategory
  <2> PICK m \in MenuStaff, c \in Cats : BeginDeleteCategory(m, c)
    BY <1>3 DEF DeleteCategory
  <2>1. deleting' \in [MenuStaff -> Cats \cup {NoCat}]
    BY DEF BeginDeleteCategory, MenuInv, MenuTypeOK
  <2> QED
    BY <2>1, RowsUntouched DEF BeginDeleteCategory, catVars, dishVars, binVars, MenuInv, MenuTypeOK
<1>4. CASE \E m \in MenuStaff : CommitDeleteCategory(m)
  BY <1>4, CommitDeleteInv
<1>5. CASE PostRestoreCategory
  BY <1>5, RestoreCategoryInv DEF PostRestoreCategory
<1>6. CASE PostDish
  BY <1>6, CreateProductInv DEF PostDish
<1>7. CASE DeleteDish
  BY <1>7, DeleteProductInv DEF DeleteDish
<1>8. CASE PostRestoreDish
  BY <1>8, RestoreProductInv DEF PostRestoreDish
<1>9. CASE PostImport
  <2>1. CASE Import({}, {})
    BY <2>1, ImportInv
  <2>2. CASE \E c \in Cats, D \in SUBSET Dishes : Import({c}, D)
    <3> PICK c \in Cats, D \in SUBSET Dishes : Import({c}, D)
      BY <2>2
    <3> QED
      BY ImportInv
  <2> QED
    BY <1>9, <2>1, <2>2 DEF PostImport
<1>10. CASE MenuTick
  <2>1. clock' \in 0..MaxClock
    BY <1>10, MenuAssumption DEF MenuTick, MenuInv, MenuTypeOK
  <2> QED
    BY <1>10, <2>1, RowsUntouched DEF MenuTick, catVars, dishVars, MenuInv, MenuTypeOK
<1>11. CASE UNCHANGED menuVars
  BY <1>11, RowsUntouched DEF menuVars, catVars, dishVars, binVars, MenuInv, MenuTypeOK
<1> QED
  BY <1>1, <1>2, <1>3, <1>4, <1>5, <1>6, <1>7, <1>8, <1>9, <1>10, <1>11 DEF MenuNext

LEMMA MenuInvariant == MenuSpec => []MenuInv
<1>1. MenuInit => MenuInv
  BY MenuInitInv
<1>2. MenuInv /\ [MenuNext]_menuVars => MenuInv'
  BY MenuStepInv
<1> QED
  BY <1>1, <1>2, PTL DEF MenuSpec

(***************************************************************************)
(* Theorems.                                                               *)
(***************************************************************************)
\* Every row of the menu is well formed, and is in the bin exactly while it
\* has a batch.
THEOREM MenuTyped == MenuSpec => []MenuTypeOK
<1>1. MenuInv => MenuTypeOK
  BY DEF MenuInv
<1> QED
  BY <1>1, MenuInvariant, PTL

\* However deletions, restorations and imports overlap, a live dish has a
\* live category, but for the two ways in that LiveDishHasCategory names.
THEOREM LiveDishesAreSomewhere == MenuSpec => []LiveDishHasCategory
<1>1. MenuInv => LiveDishHasCategory
  BY DEF MenuInv
<1> QED
  BY <1>1, MenuInvariant, PTL

\* Whole days and ticks: at most w whole days is less than w + 1 days.
LEMMA WholeDays ==
    ASSUME NEW x \in Int, NEW k \in Nat \ {0}, NEW w \in Nat, x \div k <= w
    PROVE  x < (w + 1) * k
<1> DEFINE q == x \div k
<1>1. q \in Int /\ x < k * q + k
  OBVIOUS
<1>2. q \in Int /\ q <= w
  BY <1>1
<1> HIDE DEF q
<1>3. k * q <= k * w
  BY <1>2
<1>4. (w + 1) * k = k * w + k
  OBVIOUS
<1> QED
  BY <1>1, <1>2, <1>3, <1>4

\* What a step can bring back, and how.
LEMMA WhatComesBack ==
    ASSUME MenuInv, MenuNext
    PROVE  /\ \A c \in Cats : catState[c] = "DELETED" /\ catState'[c] = "LIVE" => RestoreCategory(c)
           /\ \A d \in Dishes : dishState[d] = "DELETED" /\ dishState'[d] = "LIVE" =>
                 \/ RestoreProduct(d)
                 \/ \E c \in Cats : RestoreCategory(c) /\ dishBatch[d] = catBatch[c]
<1> DEFINE CatBack(c) == catState[c] = "DELETED" /\ catState'[c] = "LIVE"
           DishBack(d) == dishState[d] = "DELETED" /\ dishState'[d] = "LIVE"
           NothingBack == (\A c \in Cats : ~CatBack(c)) /\ (\A d \in Dishes : ~DishBack(d))
<1>1. ASSUME NEW c \in Cats, NEW on \in BOOLEAN, CreateCategory(c, on)
      PROVE  NothingBack
  BY <1>1 DEF CreateCategory, dishVars, MenuInv, MenuTypeOK
<1>2. ASSUME NEW m \in MenuStaff, CommitDeleteCategory(m)
      PROVE  NothingBack
  BY <1>2 DEF CommitDeleteCategory, TakeCategories, TakeDishes, MenuInv, MenuTypeOK
<1>3. ASSUME NEW c \in Cats, RestoreCategory(c)
      PROVE  /\ \A x \in Cats : CatBack(x) => x = c
             /\ \A d \in Dishes : DishBack(d) => dishBatch[d] = catBatch[c]
  BY <1>3 DEF RestoreCategory, MenuInv, MenuTypeOK
<1>4. ASSUME NEW d \in Dishes, NEW c \in Cats, NEW on \in BOOLEAN, CreateProduct(d, c, on)
      PROVE  NothingBack
  BY <1>4 DEF CreateProduct, catVars, MenuInv, MenuTypeOK
<1>5. ASSUME NEW d \in Dishes, DeleteProduct(d)
      PROVE  NothingBack
  BY <1>5 DEF DeleteProduct, TakeDishes, catVars, MenuInv, MenuTypeOK
<1>6. ASSUME NEW d \in Dishes, RestoreProduct(d)
      PROVE  (\A c \in Cats : ~CatBack(c)) /\ (\A x \in Dishes : DishBack(x) => x = d)
  BY <1>6 DEF RestoreProduct, catVars, MenuInv, MenuTypeOK
<1>7. ASSUME NEW C \in SUBSET Cats, NEW D \in SUBSET Dishes, Import(C, D)
      PROVE  NothingBack
  BY <1>7 DEF Import, ListCategories, MenuInv, MenuTypeOK
<1>8. ASSUME UNCHANGED <<catState, dishState>>
      PROVE  NothingBack
  BY <1>8
<1>9. CASE PostCategory \/ (\E m \in MenuStaff : CommitDeleteCategory(m)) \/ PostDish \/ DeleteDish \/ PostImport
  <2>1. NothingBack
    BY <1>1, <1>2, <1>4, <1>5, <1>7, <1>9 DEF PostCategory, PostDish, DeleteDish, PostImport
  <2> QED
    BY <2>1
<1>10. CASE PatchCategory \/ DeleteCategory \/ MenuTick
  <2>1. NothingBack
    BY <1>8, <1>10 DEF PatchCategory, UpdateCategory, DeleteCategory, BeginDeleteCategory, MenuTick,
       catVars, dishVars
  <2> QED
    BY <2>1
<1>11. CASE PostRestoreCategory
  BY <1>3, <1>11 DEF PostRestoreCategory
<1>12. CASE PostRestoreDish
  BY <1>6, <1>12 DEF PostRestoreDish
<1> QED
  BY <1>9, <1>10, <1>11, <1>12 DEF MenuNext

\* A dish deleted on its own stays in the bin until it is restored itself.
THEOREM OwnDeletionIsOwn == MenuSpec => RestoredWithItsBatch
<1> DEFINE Step == \A d \in Dishes :
                     dishState[d] = "DELETED" /\ dishState'[d] = "LIVE" =>
                       \/ catState' = catState
                       \/ d \notin alone /\ \E c \in Cats : /\ catBatch[c] = dishBatch[d]
                                                             /\ catState[c] = "DELETED" /\ catState'[c] = "LIVE"
<1>1. MenuInv /\ [MenuNext]_menuVars => [Step]_menuVars
  <2> SUFFICES ASSUME MenuInv, MenuNext, NEW d \in Dishes, dishState[d] = "DELETED", dishState'[d] = "LIVE"
               PROVE  \/ catState' = catState
                      \/ d \notin alone /\ \E c \in Cats : /\ catBatch[c] = dishBatch[d]
                                                            /\ catState[c] = "DELETED" /\ catState'[c] = "LIVE"
    OBVIOUS
  <2>1. CASE RestoreProduct(d)
    BY <2>1 DEF RestoreProduct, catVars
  <2>2. ASSUME NEW c \in Cats, RestoreCategory(c), dishBatch[d] = catBatch[c]
        PROVE  /\ catState[c] = "DELETED" /\ catState'[c] = "LIVE"
               /\ d \notin alone
    BY <2>2 DEF RestoreCategory, MenuInv, MenuTypeOK, AloneIsAlone
  <2> QED
    BY <2>1, <2>2, WhatComesBack
<1> QED
  BY <1>1, MenuInvariant, PTL DEF MenuSpec, RestoredWithItsBatch

\* Nothing comes back once the window, and the day the cut to whole days
\* lends against the requirements, is over.
THEOREM BinIsClosedADayLate == MenuSpec => BinClosesADayLate
<1> DEFINE Fresh(b) == clock - batchAt[b] < (WindowDays + 1) * DayTicks
           Step == /\ \A c \in Cats : catState[c] = "DELETED" /\ catState'[c] = "LIVE" => Fresh(catBatch[c])
                   /\ \A d \in Dishes : dishState[d] = "DELETED" /\ dishState'[d] = "LIVE" => Fresh(dishBatch[d])
<1>1. ASSUME MenuInv, NEW b \in 1..MaxBatches, InWindow(b)
      PROVE  Fresh(b)
  <2>1. clock - batchAt[b] \in Int
    BY <1>1 DEF MenuInv, MenuTypeOK
  <2> QED
    BY <1>1, <2>1, WholeDays, MenuAssumption DEF InWindow, DaysSince
<1>2. ASSUME MenuInv
      PROVE  /\ \A c \in Cats : catState[c] = "DELETED" => catBatch[c] \in 1..MaxBatches
             /\ \A d \in Dishes : dishState[d] = "DELETED" => dishBatch[d] \in 1..MaxBatches
  BY <1>2, MenuAssumption DEF MenuInv, MenuTypeOK
<1>3. MenuInv /\ [MenuNext]_menuVars => [Step]_menuVars
  <2> SUFFICES ASSUME MenuInv, MenuNext
               PROVE  Step
    OBVIOUS
  <2>1. ASSUME NEW c \in Cats, RestoreCategory(c)
        PROVE  Fresh(catBatch[c])
    <3>1. InWindow(catBatch[c]) /\ catState[c] = "DELETED"
      BY <2>1 DEF RestoreCategory
    <3> QED
      BY <1>1, <1>2, <3>1
  <2>2. ASSUME NEW d \in Dishes, RestoreProduct(d)
        PROVE  Fresh(dishBatch[d])
    <3>1. InWindow(dishBatch[d]) /\ dishState[d] = "DELETED"
      BY <2>2 DEF RestoreProduct
    <3> QED
      BY <1>1, <1>2, <3>1
  <2> HIDE DEF Fresh
  <2> QED
    BY <2>1, <2>2, WhatComesBack
<1> QED
  BY <1>3, MenuInvariant, PTL DEF MenuSpec, BinClosesADayLate

(***************************************************************************)
(* The codes of the tables.  Tokens are drawn upwards, so a table's token  *)
(* only grows: it is at least what any rotation under way has written.     *)
(***************************************************************************)
Rotations == [table : DiningTables \cup {NoTable}, wrote : Nat]
Answers == [table : DiningTables \cup {NoTable}, wrote : Nat, token : Nat]

TablesInv ==
    /\ drawn \in Nat
    /\ tableToken \in [DiningTables -> Nat]
    /\ minicode \in [DiningTables -> Nat]
    /\ rotating \in [TableStaff -> Rotations]
    /\ handed \in [TableStaff -> Answers]
    /\ \A t \in DiningTables : tableToken[t] <= drawn
    /\ \A t, u \in DiningTables : tableToken[t] = tableToken[u] /\ tableToken[t] # 0 => t = u
    /\ \A m \in TableStaff : rotating[m] # NotRotating =>
         rotating[m].table \in DiningTables /\ rotating[m].wrote <= tableToken[rotating[m].table]
    /\ \A t \in DiningTables : minicode[t] \in {0, tableToken[t]}
    /\ \A m \in TableStaff : handed[m].token >= handed[m].wrote

LEMMA TablesInitInv == TablesInit => TablesInv
BY DEF TablesInit, TablesInv, NotRotating, Rotations, Answers

LEMMA RotationIsRow == NotRotating \in Rotations
BY DEF NotRotating, Rotations

\* A table that gets a new token keeps the codes apart.
LEMMA NewToken ==
    ASSUME TablesInv, NEW t \in DiningTables, drawn' = drawn + 1,
           tableToken' = [tableToken EXCEPT ![t] = drawn + 1]
    PROVE  /\ drawn' \in Nat /\ tableToken' \in [DiningTables -> Nat]
           /\ tableToken'[t] = drawn + 1 /\ \A u \in DiningTables \ {t} : tableToken'[u] = tableToken[u]
           /\ \A u \in DiningTables : tableToken[u] <= tableToken'[u] /\ tableToken'[u] <= drawn'
           /\ \A u, x \in DiningTables : tableToken'[u] = tableToken'[x] /\ tableToken'[u] # 0 => u = x
<1>1. /\ drawn' \in Nat /\ tableToken' \in [DiningTables -> Nat]
      /\ tableToken'[t] = drawn + 1 /\ \A u \in DiningTables \ {t} : tableToken'[u] = tableToken[u]
  BY DEF TablesInv
<1>2. \A u \in DiningTables : tableToken[u] \in Nat /\ tableToken[u] <= drawn /\ drawn \in Nat
  BY DEF TablesInv
<1>3. \A u \in DiningTables : tableToken[u] <= tableToken'[u] /\ tableToken'[u] <= drawn'
  BY <1>1, <1>2
<1>4. \A u, x \in DiningTables : tableToken'[u] = tableToken'[x] /\ tableToken'[u] # 0 => u = x
  <2> SUFFICES ASSUME NEW u \in DiningTables, NEW x \in DiningTables, u # x, tableToken'[u] = tableToken'[x],
                      tableToken'[u] # 0
               PROVE  FALSE
    OBVIOUS
  <2>1. CASE u # t /\ x # t
    BY <1>1, <2>1 DEF TablesInv
  <2>2. CASE u = t
    BY <1>1, <1>2, <2>2
  <2>3. CASE x = t
    BY <1>1, <1>2, <2>3
  <2> QED
    BY <2>1, <2>2, <2>3
<1> QED
  BY <1>1, <1>3, <1>4

LEMMA TablesStepInv == TablesInv /\ [TablesNext]_tablesVars => TablesInv'
<1> SUFFICES ASSUME TablesInv, [TablesNext]_tablesVars
             PROVE  TablesInv'
  OBVIOUS
<1>1. ASSUME NEW m \in TableStaff, NEW t \in DiningTables, CreateTable(m, t)
      PROVE  TablesInv'
  <2>1. /\ tableToken[t] = 0 /\ drawn' = drawn + 1 /\ tableToken' = [tableToken EXCEPT ![t] = drawn + 1]
        /\ handed' = [handed EXCEPT ![m] = [table |-> t, wrote |-> drawn + 1, token |-> drawn + 1]]
        /\ UNCHANGED <<minicode, rotating>>
    BY <1>1 DEF CreateTable
  <2>2. [table |-> t, wrote |-> drawn + 1, token |-> drawn + 1] \in Answers
    BY DEF TablesInv, Answers
  <2>3. /\ handed' \in [TableStaff -> Answers]
        /\ \A x \in TableStaff : handed'[x].token >= handed'[x].wrote
    BY <2>1, <2>2 DEF TablesInv
  <2>4. \A x \in TableStaff : rotating[x] # NotRotating =>
          rotating[x].table \in DiningTables /\ rotating[x].wrote <= tableToken'[rotating[x].table]
    <3> SUFFICES ASSUME NEW x \in TableStaff, rotating[x] # NotRotating
                 PROVE  rotating[x].table \in DiningTables /\ rotating[x].wrote <= tableToken'[rotating[x].table]
      OBVIOUS
    <3>1. /\ rotating[x].table \in DiningTables /\ rotating[x].wrote <= tableToken[rotating[x].table]
          /\ rotating[x].wrote \in Nat /\ tableToken[rotating[x].table] \in Nat
      BY DEF TablesInv, Rotations
    <3>2. tableToken[rotating[x].table] <= tableToken'[rotating[x].table] /\ tableToken'[rotating[x].table] \in Nat
      BY <2>1, <3>1, NewToken
    <3> QED
      BY <3>1, <3>2
  <2>5. \A u \in DiningTables : minicode[u] \in {0, tableToken'[u]}
    BY <2>1, NewToken DEF TablesInv
  <2> QED
    BY <2>1, <2>3, <2>4, <2>5, NewToken DEF TablesInv
<1>2. ASSUME NEW m \in TableStaff, NEW t \in DiningTables, RotateToken(m, t)
      PROVE  TablesInv'
  <2> DEFINE r == [table |-> t, wrote |-> drawn + 1]
  <2>1. /\ drawn' = drawn + 1 /\ tableToken' = [tableToken EXCEPT ![t] = drawn + 1]
        /\ minicode' = [minicode EXCEPT ![t] = 0] /\ rotating' = [rotating EXCEPT ![m] = r] /\ handed' = handed
    BY <1>2 DEF RotateToken
  <2>2. r \in Rotations /\ r.table = t /\ r.wrote = drawn + 1
    BY DEF TablesInv, Rotations
  <2> HIDE DEF r
  <2>3. rotating' \in [TableStaff -> Rotations] /\ rotating'[m] = r
        /\ \A x \in TableStaff \ {m} : rotating'[x] = rotating[x]
    BY <2>1, <2>2 DEF TablesInv
  <2>4. \A x \in TableStaff : rotating'[x] # NotRotating =>
          rotating'[x].table \in DiningTables /\ rotating'[x].wrote <= tableToken'[rotating'[x].table]
    <3> SUFFICES ASSUME NEW x \in TableStaff, rotating'[x] # NotRotating
                 PROVE  rotating'[x].table \in DiningTables /\ rotating'[x].wrote <= tableToken'[rotating'[x].table]
      OBVIOUS
    <3>1. CASE x = m
      BY <2>1, <2>2, <2>3, <3>1, NewToken DEF TablesInv
    <3>2. CASE x # m
      <4>1. /\ rotating[x].table \in DiningTables /\ rotating[x].wrote <= tableToken[rotating[x].table]
            /\ rotating[x].wrote \in Nat /\ tableToken[rotating[x].table] \in Nat /\ rotating'[x] = rotating[x]
        BY <2>3, <3>2 DEF TablesInv, Rotations
      <4>2. /\ tableToken[rotating[x].table] <= tableToken'[rotating[x].table]
            /\ tableToken'[rotating[x].table] \in Nat
        BY <2>1, <4>1, NewToken
      <4> QED
        BY <4>1, <4>2
    <3> QED
      BY <3>1, <3>2
  <2>5. /\ minicode' \in [DiningTables -> Nat]
        /\ \A u \in DiningTables : minicode'[u] \in {0, tableToken'[u]}
    BY <2>1, NewToken DEF TablesInv
  <2> QED
    BY <2>1, <2>3, <2>4, <2>5, NewToken DEF TablesInv
<1>3. ASSUME NEW m \in TableStaff, AnswerRotation(m)
      PROVE  TablesInv'
  <2> DEFINE a == [table |-> rotating[m].table, wrote |-> rotating[m].wrote, token |-> tableToken[rotating[m].table]]
  <2>1. /\ rotating[m] # NotRotating
        /\ handed' = [handed EXCEPT ![m] = a] /\ rotating' = [rotating EXCEPT ![m] = NotRotating]
        /\ UNCHANGED <<drawn, tableToken, minicode>>
    BY <1>3 DEF AnswerRotation
  <2>2. /\ rotating[m].table \in DiningTables /\ rotating[m].wrote \in Nat /\ tableToken[rotating[m].table] \in Nat
        /\ rotating[m].wrote <= tableToken[rotating[m].table]
    BY <2>1 DEF TablesInv, Rotations
  <2>3. a \in Answers /\ a.token >= a.wrote
    BY <2>2 DEF Answers
  <2> HIDE DEF a
  <2>4. /\ handed' \in [TableStaff -> Answers]
        /\ \A x \in TableStaff : handed'[x].token >= handed'[x].wrote
    BY <2>1, <2>3 DEF TablesInv
  <2>5. /\ rotating' \in [TableStaff -> Rotations]
        /\ \A x \in TableStaff : rotating'[x] # NotRotating => rotating'[x] = rotating[x]
    BY <2>1, RotationIsRow DEF TablesInv
  <2> QED
    BY <2>1, <2>4, <2>5 DEF TablesInv
<1>4. ASSUME NEW t \in DiningTables, SetMinicodeKey(t)
      PROVE  TablesInv'
  BY <1>4 DEF SetMinicodeKey, TablesInv
<1>5. ASSUME UNCHANGED <<drawn, tableToken, minicode, rotating, handed>>
      PROVE  TablesInv'
  BY <1>5 DEF TablesInv
<1>6. ASSUME NEW t \in DiningTables, NEW on \in BOOLEAN, UpdateTable(t, on)
      PROVE  TablesInv'
  BY <1>5, <1>6 DEF UpdateTable
<1>7. CASE UNCHANGED tablesVars
  BY <1>5, <1>7 DEF tablesVars
<1> QED
  BY <1>1, <1>2, <1>3, <1>4, <1>6, <1>7 DEF TablesNext, RotateTableToken

\* However creations and rotations overlap, no code leads to two tables, no
\* stored code is one that was taken away, and no rotation is answered with an
\* older code than its own.
THEOREM CodesAreOfTheirTable == TablesSpec => []CodesLeadToTheirTable
<1>1. TablesInit => TablesInv
  BY TablesInitInv
<1>2. TablesInv /\ [TablesNext]_tablesVars => TablesInv'
  BY TablesStepInv
<1>3. TablesInv => CodesLeadToTheirTable
  BY TablesAssumption DEF TablesInv, CodesLeadToTheirTable, Resolve
<1> QED
  BY <1>1, <1>2, <1>3, PTL DEF TablesSpec

(***************************************************************************)
(* Purchase lists.  A list that was printed is past SUBMITTED, so it is    *)
(* not printed again.                                                      *)
(***************************************************************************)
EventRows == [from : ListStates \cup {"NULL"}, to : {"SUBMITTED", "PRINTED", "COMPLETED", "VOID"}]

WasPrinted == \E i \in 1..Len(listEvents) : listEvents[i].to = "PRINTED"

PurchaseInv ==
    /\ listEvents \in Seq(EventRows)
    /\ expectedBy \in Seq(Nat)
    /\ listVersion \in Nat
    /\ listEvents = <<>> => listStatus \in {"NONE", "DRAFT"}
    /\ listStatus = "NONE" => listEvents = <<>>
    /\ WasPrinted => listStatus \in {"PRINTED", "COMPLETED", "VOID"}
    /\ TrailTellsState
    /\ VersionDecidesOnce

LEMMA PurchaseInitInv == PurchaseInit => PurchaseInv
<1> SUFFICES ASSUME PurchaseInit
             PROVE  PurchaseInv
  OBVIOUS
<1>1. /\ listEvents = <<>> /\ expectedBy = <<>> /\ Len(listEvents) = 0 /\ Len(expectedBy) = 0
      /\ listEvents \in Seq(EventRows) /\ expectedBy \in Seq(Nat)
  BY DEF PurchaseInit
<1>2. ~WasPrinted
  BY <1>1 DEF WasPrinted
<1> QED
  BY <1>1, <1>2 DEF PurchaseInit, PurchaseInv, TrailTellsState, VersionDecidesOnce, ListStates, FinalStates

\* A move of a list that has not ended, with its event.
LEMMA MovedInv ==
    ASSUME PurchaseInv, NEW to \in {"SUBMITTED", "PRINTED", "COMPLETED", "VOID"},
           NEW from \in ListStates \cup {"NULL"},
           listStatus \in {"DRAFT", "SUBMITTED", "PRINTED"},
           to # "VOID" => from = listStatus, to = "VOID" => from = "NULL",
           listStatus = "DRAFT" => to \in {"SUBMITTED", "VOID"},
           WasPrinted => to \in {"COMPLETED", "VOID"},
           Move(listVersion, to), LogEvent(from, to),
           printCount' = IF to = "PRINTED" THEN printCount + 1 ELSE printCount,
           (listTotal' # NoTotal) <=> (to = "COMPLETED")
    PROVE  PurchaseInv'
<1> DEFINE n == Len(listEvents)
           e == [from |-> from, to |-> to]
<1>1. e \in EventRows /\ e.from = from /\ e.to = to
  BY DEF EventRows
<1>2. /\ listStatus' = to /\ listVersion' = listVersion + 1 /\ listVersion \in Nat
      /\ listEvents' = Append(listEvents, e) /\ expectedBy' = Append(expectedBy, listVersion)
  BY DEF Move, LogEvent, PurchaseInv
<1> HIDE DEF e
<1>3. /\ listEvents' \in Seq(EventRows) /\ listEvents' # <<>> /\ n \in Nat /\ Len(listEvents') = n + 1
      /\ \A i \in 1..n : listEvents'[i] = listEvents[i]
      /\ listEvents'[n + 1] = e
  BY <1>1, <1>2, AppendProperties, LenProperties DEF PurchaseInv
<1>4. /\ listVersion = n + 1 /\ Len(expectedBy) = n
      /\ n # 0 => listEvents[n].to = listStatus
      /\ n = 0 => listStatus = "DRAFT"
      /\ n # 0 => listStatus # "DRAFT"
  <2>1. listVersion = 1 + n /\ Len(expectedBy) = n /\ (listEvents # <<>> => listEvents[n].to = listStatus)
    BY DEF PurchaseInv, TrailTellsState, VersionDecidesOnce
  <2>2. n = 0 <=> listEvents = <<>>
    BY EmptySeq DEF PurchaseInv
  <2>3. n # 0 => listEvents[n] \in EventRows
    BY <1>3, ElementOfSeq DEF PurchaseInv
  <2> QED
    BY <1>3, <2>1, <2>2, <2>3 DEF PurchaseInv, EventRows
<1>5. /\ expectedBy' \in Seq(Nat) /\ Len(expectedBy') = n + 1
      /\ \A i \in 1..n : expectedBy'[i] = expectedBy[i]
      /\ expectedBy'[n + 1] = n + 1
  BY <1>2, <1>4, AppendProperties DEF PurchaseInv
<1>6. \A i \in 1..(n + 1) : i \in 1..n \/ i = n + 1
  BY <1>3
<1>7. WasPrinted' <=> WasPrinted \/ to = "PRINTED"
  <2>1. \A i \in 1..n : i \in 1..(n + 1)
    BY <1>3
  <2>2. n + 1 \in 1..(n + 1)
    BY <1>3
  <2> HIDE DEF n
  <2> QED
    BY <1>1, <1>3, <1>6, <2>1, <2>2 DEF WasPrinted, n
<1>8. VersionDecidesOnce'
  BY <1>3, <1>5, <1>6 DEF PurchaseInv, VersionDecidesOnce
<1>9. \A i \in 1..(n + 1) : EventChain(i)'
  <2> SUFFICES ASSUME NEW i \in 1..(n + 1)
               PROVE  /\ listEvents'[i].from = IF listEvents'[i].to = "VOID" THEN "NULL"
                                               ELSE IF i = 1 THEN "DRAFT" ELSE listEvents'[i - 1].to
                      /\ listEvents'[i].to \in FinalStates => i = n + 1
    BY <1>3 DEF EventChain
  <2>1. CASE i \in 1..n
    <3>1. EventChain(i)
      BY <2>1 DEF PurchaseInv, TrailTellsState
    <3>2. i # 1 => i - 1 \in 1..n
      BY <1>3, <2>1
    <3>3. listEvents[i].to \notin FinalStates
      <4>1. CASE i = n
        BY <1>3, <1>4, <2>1, <4>1 DEF FinalStates
      <4>2. CASE i # n
        BY <3>1, <4>2 DEF EventChain
      <4> QED
        BY <4>1, <4>2
    <3> QED
      BY <1>3, <2>1, <3>1, <3>2, <3>3 DEF EventChain
  <2>2. CASE i = n + 1
    <3>1. i # 1 => i - 1 = n /\ n \in 1..n
      BY <1>3, <2>2
    <3>2. i = 1 => n = 0
      BY <1>3, <2>2
    <3> QED
      BY <1>1, <1>3, <1>4, <2>2, <3>1, <3>2
  <2> QED
    BY <1>6, <2>1, <2>2
<1>10. printCount' = IF WasPrinted' THEN 1 ELSE 0
  <2>1. printCount = IF WasPrinted THEN 1 ELSE 0
    BY DEF PurchaseInv, TrailTellsState, WasPrinted
  <2> QED
    BY <1>7, <2>1
<1>11. TrailTellsState'
  <2>1. listEvents'[Len(listEvents')].to = listStatus'
    BY <1>1, <1>2, <1>3
  <2>2. listVersion' = 1 + Len(listEvents') /\ listStatus' # "NONE" /\ listStatus' \in ListStates
    BY <1>2, <1>3, <1>4 DEF ListStates
  <2> QED
    BY <1>2, <1>3, <1>9, <1>10, <2>1, <2>2 DEF TrailTellsState, WasPrinted
<1>12. WasPrinted' => listStatus' \in {"PRINTED", "COMPLETED", "VOID"}
  BY <1>2, <1>7
<1> QED
  BY <1>2, <1>3, <1>5, <1>8, <1>11, <1>12 DEF PurchaseInv

LEMMA PurchaseStepInv == PurchaseInv /\ [PurchaseNext]_purchaseVars => PurchaseInv'
<1> SUFFICES ASSUME PurchaseInv, [PurchaseNext]_purchaseVars
             PROVE  PurchaseInv'
  OBVIOUS
<1>1. listTotal # NoTotal <=> listStatus = "COMPLETED"
  BY DEF PurchaseInv, TrailTellsState
<1>2. ASSUME UNCHANGED <<listStatus, listVersion, printCount, listTotal, listEvents, expectedBy>>
      PROVE  PurchaseInv'
  BY <1>2 DEF PurchaseInv, WasPrinted, TrailTellsState, EventChain, VersionDecidesOnce
<1>3. CASE CreateList
  <2>1. listEvents = <<>> /\ listVersion' = 1 /\ listStatus' = "DRAFT" /\ listStatus = "NONE"
        /\ UNCHANGED <<printCount, listTotal, listEvents, expectedBy>>
    BY <1>3 DEF CreateList, PurchaseInv
  <2>2. Len(listEvents) = 0
    BY <2>1
  <2> QED
    BY <2>1, <2>2 DEF PurchaseInv, WasPrinted, TrailTellsState, EventChain, VersionDecidesOnce, ListStates
<1>4. ASSUME NEW v \in Versions, SubmitList(v)
      PROVE  PurchaseInv'
  <2>1. /\ listStatus = "DRAFT" /\ Move(listVersion, "SUBMITTED") /\ LogEvent("DRAFT", "SUBMITTED")
        /\ printCount' = printCount /\ listTotal' = listTotal
    BY <1>4 DEF SubmitList, transitionList, lockTransition
  <2>2. ~WasPrinted
    BY <2>1 DEF PurchaseInv
  <2> QED
    BY <1>1, <2>1, <2>2, MovedInv DEF ListStates
<1>5. ASSUME NEW v \in Versions, MarkPrinted(v)
      PROVE  PurchaseInv'
  <2>1. /\ listStatus = "SUBMITTED" /\ Move(listVersion, "PRINTED") /\ LogEvent("SUBMITTED", "PRINTED")
        /\ printCount' = printCount + 1 /\ listTotal' = listTotal
    BY <1>5 DEF MarkPrinted, lockTransition
  <2>2. ~WasPrinted
    BY <2>1 DEF PurchaseInv
  <2> QED
    BY <1>1, <2>1, <2>2, MovedInv DEF ListStates
<1>6. ASSUME NEW v \in Versions, NEW total \in {0, 1}, CompleteList(v, total)
      PROVE  PurchaseInv'
  <2>1. /\ listStatus = "PRINTED" /\ Move(listVersion, "COMPLETED") /\ LogEvent("PRINTED", "COMPLETED")
        /\ printCount' = printCount /\ listTotal' # NoTotal
    BY <1>6, PurchaseAssumption DEF CompleteList, lockTransition
  <2> QED
    BY <2>1, MovedInv DEF ListStates
<1>7. ASSUME NEW v \in Versions, VoidList(v)
      PROVE  PurchaseInv'
  <2>1. /\ Move(listVersion, "VOID") /\ LogEvent("NULL", "VOID")
        /\ printCount' = printCount /\ listTotal' = listTotal
        /\ listStatus \notin {"NONE", "COMPLETED", "VOID"}
    BY <1>7 DEF VoidList, lockTransitionNotFinal, FinalStates
  <2>2. listStatus \in {"DRAFT", "SUBMITTED", "PRINTED"}
    BY <2>1 DEF PurchaseInv, TrailTellsState, ListStates
  <2> QED
    BY <1>1, <2>1, <2>2, MovedInv
<1>8. CASE PostMaterial \/ AddPurchaseItem
  BY <1>2, <1>8 DEF PostMaterial, CreateMaterial, AddPurchaseItem, AddItem
<1>9. CASE UNCHANGED purchaseVars
  BY <1>2, <1>9 DEF purchaseVars
<1> QED
  BY <1>3, <1>4, <1>5, <1>6, <1>7, <1>8, <1>9
  DEF PurchaseNext, CreatePurchaseList, SubmitPurchaseList, CompletePurchaseList

LEMMA PurchaseInvariant == PurchaseSpec => []PurchaseInv
<1>1. PurchaseInit => PurchaseInv
  BY PurchaseInitInv
<1>2. PurchaseInv /\ [PurchaseNext]_purchaseVars => PurchaseInv'
  BY PurchaseStepInv
<1> QED
  BY <1>1, <1>2, PTL DEF PurchaseSpec

\* The trail of a purchase list tells how it came to where it is.
THEOREM TrailIsTrue == PurchaseSpec => []TrailTellsState
<1>1. PurchaseInv => TrailTellsState
  BY DEF PurchaseInv
<1> QED
  BY <1>1, PurchaseInvariant, PTL

\* Of the requests that expect one version of a list, one moves it.
THEOREM OneMovePerVersion == PurchaseSpec => []VersionDecidesOnce
<1>1. PurchaseInv => VersionDecidesOnce
  BY DEF PurchaseInv
<1> QED
  BY <1>1, PurchaseInvariant, PTL
=============================================================================
