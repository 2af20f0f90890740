----------------------------- MODULE MCBackOffice -----------------------------
(***************************************************************************)
(* Small instances of what the staff and the operators of a shop work      *)
(* with.  The components share no state: a behaviour picks one of them and *)
(* the others stay as they began.                                          *)
(***************************************************************************)
EXTENDS Menu, Platform, PurchaseList, Tables, Sessions, Migrate, TLC

CONSTANTS Parts

VARIABLES part

backOfficeVars ==
    <<menuVars, platformVars, purchaseVars, tablesVars, sessionVars, migrateVars, part>>

Init ==
    /\ part \in Parts
    /\ MenuInit /\ PlatformInit /\ PurchaseInit /\ TablesInit /\ SessionsInit /\ MigrateInit

Next ==
    \/ /\ part = "menu" /\ MenuNext
       /\ UNCHANGED <<platformVars, purchaseVars, tablesVars, sessionVars, migrateVars, part>>
    \/ /\ part = "platform" /\ PlatformNext
       /\ UNCHANGED <<menuVars, purchaseVars, tablesVars, sessionVars, migrateVars, part>>
    \/ /\ part = "purchase" /\ PurchaseNext
       /\ UNCHANGED <<menuVars, platformVars, tablesVars, sessionVars, migrateVars, part>>
    \/ /\ part = "tables" /\ TablesNext
       /\ UNCHANGED <<menuVars, platformVars, purchaseVars, sessionVars, migrateVars, part>>
    \/ /\ part = "sessions" /\ SessionsNext
       /\ UNCHANGED <<menuVars, platformVars, purchaseVars, tablesVars, migrateVars, part>>
    \/ /\ part = "migrate" /\ MigrateNext
       /\ UNCHANGED <<menuVars, platformVars, purchaseVars, tablesVars, sessionVars, part>>

Spec == Init /\ [][Next]_backOfficeVars

\* Every set of model values is symmetric; the components take theirs from
\* the same three sets, which keeps the permutations few.
Symmetry == UNION {Permutations(S) : S \in {Cats, Applications, MenuStaff}}
=============================================================================
