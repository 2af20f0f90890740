-------------------------------- MODULE Tables --------------------------------
(***************************************************************************)
(* The codes of the dining tables of a store.  A rotation replaces the     *)
(* token of a table and reads the row again in a second statement, so the  *)
(* answer of one rotation may carry the token of another.  Guests keep the *)
(* codes they have scanned.                                                *)
(***************************************************************************)
EXTENDS Integers

CONSTANTS
    DiningTables,   \* tables of the store
    TableStaff,     \* members of staff whose requests overlap
    NoTable,        \* of no table
    MaxTokens       \* bound on the tokens drawn

ASSUME TablesAssumption ==
    /\ NoTable \notin DiningTables
    /\ MaxTokens \in Nat

VARIABLES
    drawn,          \* tokens drawn so far; each is new (16 random bytes)
    tableToken,     \* table_token by table, 0 before the row exists
    tableOn,        \* enabled
    minicode,       \* token the stored mini-program code was made of, 0 for none
    rotating,       \* rotating[m]: table whose token m has replaced and not read back
    handed          \* handed[m]: [table, token] m was last answered with

tablesVars == <<drawn, tableToken, tableOn, minicode, rotating, handed>>

TablesInit ==
    /\ drawn = 0
    /\ tableToken = [t \in DiningTables |-> 0]
    /\ tableOn = [t \in DiningTables |-> FALSE]
    /\ minicode = [t \in DiningTables |-> 0]
    /\ rotating = [m \in TableStaff |-> [table |-> NoTable, wrote |-> 0]]
    /\ handed = [m \in TableStaff |-> [table |-> NoTable, wrote |-> 0, token |-> 0]]

NotRotating == [table |-> NoTable, wrote |-> 0]

\* table_no is unique in the store: a second creation of t fails.
CreateTable(m, t) ==
    /\ rotating[m] = NotRotating
    /\ tableToken[t] = 0
    /\ drawn < MaxTokens
    /\ drawn' = drawn + 1
    /\ tableToken' = [tableToken EXCEPT ![t] = drawn + 1]
    /\ tableOn' = [tableOn EXCEPT ![t] = TRUE]
    /\ handed' = [handed EXCEPT ![m] = [table |-> t, wrote |-> drawn + 1, token |-> drawn + 1]]
    /\ UNCHANGED <<minicode, rotating>>

\* The UPDATE: a new token, and the code made of the old one is dropped.
RotateKeepsCode(m, t) ==
    /\ rotating[m] = NotRotating
    /\ tableToken[t] # 0
    /\ drawn < MaxTokens
    /\ drawn' = drawn + 1
    /\ tableToken' = [tableToken EXCEPT ![t] = drawn + 1]
    /\ rotating' = [rotating EXCEPT ![m] = [table |-> t, wrote |-> drawn + 1]]
    /\ UNCHANGED <<tableOn, minicode, handed>>
RotateToken(m, t) ==
    /\ rotating[m] = NotRotating
    /\ tableToken[t] # 0
    /\ drawn < MaxTokens
    /\ drawn' = drawn + 1
    /\ tableToken' = [tableToken EXCEPT ![t] = drawn + 1]
    /\ minicode' = [minicode EXCEPT ![t] = 0]
    /\ rotating' = [rotating EXCEPT ![m] = [table |-> t, wrote |-> drawn + 1]]
    /\ UNCHANGED <<tableOn, handed>>

\* The SELECT that follows, and the answer.
AnswerRotation(m) ==
    LET r == rotating[m] IN
    /\ r # NotRotating
    /\ handed' = [handed EXCEPT ![m] = [table |-> r.table, wrote |-> r.wrote, token |-> tableToken[r.table]]]
    /\ rotating' = [rotating EXCEPT ![m] = NotRotating]
    /\ UNCHANGED <<drawn, tableToken, tableOn, minicode>>

RotateTableToken == \E m \in TableStaff : AnswerRotation(m) \/ \E t \in DiningTables : RotateToken(m, t)

\* Update and SetMinicodeKey have no route; the code is made of the token
\* that is current when the key is set.
UpdateTable(t, on) ==
    /\ tableToken[t] # 0
    /\ tableOn[t] # on
    /\ tableOn' = [tableOn EXCEPT ![t] = on]
    /\ UNCHANGED <<drawn, tableToken, minicode, rotating, handed>>
SetMinicodeKey(t) ==
    /\ tableToken[t] # 0
    /\ minicode' = [minicode EXCEPT ![t] = tableToken[t]]
    /\ UNCHANGED <<drawn, tableToken, tableOn, rotating, handed>>

TablesNext ==
    \/ \E m \in TableStaff, t \in DiningTables : CreateTable(m, t)
    \/ RotateTableToken
    \/ \E t \in DiningTables : SetMinicodeKey(t) \/ \E on \in BOOLEAN : UpdateTable(t, on)

TablesSpec == TablesInit /\ [][TablesNext]_tablesVars

\* ResolveTable: the enabled tables a scanned token leads to.
Resolve(token) == {t \in DiningTables : tableToken[t] = token /\ tableOn[t]}

(***************************************************************************)
(* Properties.                                                             *)
(***************************************************************************)
\* A code leads to one table at most, the stored mini-program code is never
\* one that was taken away, and a member of staff is never answered with a
\* code older than the one the request wrote, although another rotation may
\* come between its two statements (tables/store.go:88-103).
CodesLeadToTheirTable ==
    /\ \A token \in 1..MaxTokens, t, u \in DiningTables :
           t \in Resolve(token) /\ u \in Resolve(token) => t = u
    /\ \A t \in DiningTables : minicode[t] \in {0, tableToken[t]}
    /\ \A m \in TableStaff : handed[m].token >= handed[m].wrote
=============================================================================
