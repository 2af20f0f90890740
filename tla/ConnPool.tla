------------------------------- MODULE ConnPool -------------------------------
(***************************************************************************)
(* The pool of database connections, shared by every request.  A query     *)
(* holds a connection until its rows are read to the end or closed.  Most  *)
(* requests read one result after the other; the export of a store asks    *)
(* for the products while it reads the categories, for the options while   *)
(* it reads the products, and for the items while it reads the groups.     *)
(***************************************************************************)
EXTENDS Integers, Sequences, FiniteSets, Functions

CONSTANTS
    PoolSize,       \* SetMaxOpenConns
    Exports,        \* requests that export a store
    Readers         \* requests that read a dish

ASSUME PoolAssumption ==
    /\ PoolSize \in Nat
    /\ IsFiniteSet(Exports) /\ IsFiniteSet(Readers) /\ Exports \cap Readers = {}

VARIABLES at        \* at[r]: queries and closes of r so far

(***************************************************************************)
(* What a request does to the pool, in order: +1 a query, -1 the end of    *)
(* its rows.  One row of each kind; more repeat the same nesting.          *)
(***************************************************************************)
exportOptionGroups == <<1, 1, -1, -1>>                     \* groups(items)
ProductsKeepSkus == <<1, 1>> \o exportOptionGroups \o <<-1, -1>>
exportProducts == <<1, 1, -1>> \o exportOptionGroups \o <<-1>>   \* products(skus, groups)
Export == <<1, -1, 1, -1, 1>> \o exportProducts \o <<-1>>  \* store, mini program, categories(products)

listSKUs == <<1, -1>>
listOptionGroups == <<1, -1, 1, -1>>                       \* groups, then all their items
GetProductDetail == <<1, -1>> \o listSKUs \o listOptionGroups

Walk(r) == IF r \in Exports THEN Export ELSE GetProductDetail

Holds(r) == SumFunction(SubSeq(Walk(r), 1, at[r]))
InUse == SumFunction([r \in Exports \cup Readers |-> Holds(r)])

Waiting(r) == at[r] < Len(Walk(r)) /\ Walk(r)[at[r] + 1] = 1

PoolInit == at = [r \in Exports \cup Readers |-> 0]

\* A query waits for a free connection; closing never waits.
Query(r) ==
    /\ Waiting(r)
    /\ InUse < PoolSize
    /\ at' = [at EXCEPT ![r] = @ + 1]
CloseRows(r) ==
    /\ at[r] < Len(Walk(r)) /\ Walk(r)[at[r] + 1] = -1
    /\ at' = [at EXCEPT ![r] = @ + 1]

\* The answer; the same client may ask again.
AnswerRead(r) ==
    /\ at[r] = Len(Walk(r))
    /\ at' = [at EXCEPT ![r] = 0]

\* The client goes away: whatever is open is closed.
Disconnect(r) ==
    /\ at[r] \notin {0, Len(Walk(r))}
    /\ at' = [at EXCEPT ![r] = 0]

PoolNext ==
    \E r \in Exports \cup Readers : Query(r) \/ CloseRows(r) \/ AnswerRead(r) \/ Disconnect(r)

PoolSpec == PoolInit /\ [][PoolNext]_at

(***************************************************************************)
(* Properties.                                                             *)
(***************************************************************************)
Holders == {r \in Exports \cup Readers : Holds(r) > 0}

\* No connection is free, and everyone who has one waits for another: all
\* requests of the process stop until a client goes away.
Jammed == InUse = PoolSize /\ \A r \in Holders : Waiting(r)

\* The pool can jam: nothing bounds the exports under way, and the 50
\* connections of storage/db.go:25 are taken by seventeen of them.  But only
\* exports jam it, all that hold a connection then are, and it takes more
\* than one for every three connections; a reader of a dish never holds one
\* connection while it waits for another (menu/dishes.go:257-345).
OnlyExportsJam == Jammed => Holders \subseteq Exports /\ PoolSize <= 3 * Cardinality(Holders)
=============================================================================
