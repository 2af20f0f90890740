----------------------------- MODULE PurchaseList -----------------------------
(***************************************************************************)
(* A purchase list of a store: its items, its state, and the trail of      *)
(* events.  Every transition is one transaction under the lock of the      *)
(* list's row and takes the version its caller expects.  MarkPrinted and   *)
(* VoidList have no route yet; the component offers them.                  *)
(***************************************************************************)
EXTENDS Integers, Sequences

CONSTANTS
    Materials,      \* names a material may be given (unique in a store)
    MaxExpected,      \* largest version a caller expects
    NoTotal         \* of a list without an amount

ASSUME PurchaseAssumption == MaxExpected \in Nat /\ NoTotal \notin {0, 1}

VARIABLES
    catalogue,      \* materials created
    listStatus, listVersion, printCount, listTotal,   \* purchase_lists
    listItems,      \* material_id of purchase_list_items
    listEvents,     \* purchase_list_events, from_status "NULL" where there is none
    expectedBy      \* history: the version each accepted request expected

purchaseVars == <<catalogue, listStatus, listVersion, printCount, listTotal,
                  listItems, listEvents, expectedBy>>

ListStates == {"NONE", "DRAFT", "SUBMITTED", "PRINTED", "COMPLETED", "VOID"}
FinalStates == {"COMPLETED", "VOID"}

PurchaseInit ==
    /\ catalogue = {}
    /\ listStatus = "NONE"
    /\ listVersion = 0
    /\ printCount = 0
    /\ listTotal = NoTotal
    /\ listItems = {}
    /\ listEvents = <<>>
    /\ expectedBy = <<>>

CreateMaterial(m) ==
    /\ m \notin catalogue
    /\ catalogue' = catalogue \cup {m}
    /\ UNCHANGED <<listStatus, listVersion, printCount, listTotal, listItems, listEvents, expectedBy>>

CreateList ==
    /\ listStatus = "NONE"
    /\ listStatus' = "DRAFT"
    /\ listVersion' = 1
    /\ UNCHANGED <<catalogue, printCount, listTotal, listItems, listEvents, expectedBy>>

\* uq_pli_list_material refuses a material twice; the state is not looked at.
AddItem(m) ==
    /\ listStatus # "NONE"
    /\ m \in catalogue
    /\ m \notin listItems
    /\ listItems' = listItems \cup {m}
    /\ UNCHANGED <<catalogue, listStatus, listVersion, printCount, listTotal, listEvents, expectedBy>>

Move(expected, to) ==
    /\ listStatus' = to
    /\ listVersion' = listVersion + 1
    /\ expectedBy' = Append(expectedBy, expected)
LogEvent(from, to) == listEvents' = Append(listEvents, [from |-> from, to |-> to])

lockAnyVersion(expected, to, from) ==
    /\ listStatus = from
    /\ Move(expected, to)
lockTransition(expected, to, from) ==
    /\ listVersion = expected
    /\ listStatus = from
    /\ Move(expected, to)
lockTransitionNotFinal(expected, to) ==
    /\ listVersion = expected
    /\ listStatus \notin FinalStates \cup {"NONE"}
    /\ Move(expected, to)

transitionList(expected, to, from) ==
    /\ lockTransition(expected, to, from)
    /\ LogEvent(from, to)

SubmitList(expected) ==
    /\ transitionList(expected, "SUBMITTED", "DRAFT")
    /\ UNCHANGED <<catalogue, printCount, listTotal, listItems>>

MarkPrinted(expected) ==
    /\ lockTransition(expected, "PRINTED", "SUBMITTED")
    /\ LogEvent("SUBMITTED", "PRINTED")
    /\ printCount' = printCount + 1
    /\ UNCHANGED <<catalogue, listTotal, listItems>>

CompleteList(expected, total) ==
    /\ lockTransition(expected, "COMPLETED", "PRINTED")
    /\ LogEvent("PRINTED", "COMPLETED")
    /\ listTotal' = total
    /\ UNCHANGED <<catalogue, printCount, listItems>>

VoidList(expected) ==
    /\ lockTransitionNotFinal(expected, "VOID")
    /\ LogEvent("NULL", "VOID")
    /\ UNCHANGED <<catalogue, printCount, listTotal, listItems>>

(***************************************************************************)
(* The requests; a body that cannot be read leaves expected_version 0.     *)
(***************************************************************************)
Versions == 0..MaxExpected
PostMaterial == \E m \in Materials : CreateMaterial(m)
CreatePurchaseList == CreateList
AddPurchaseItem == \E m \in Materials : AddItem(m)
SubmitPurchaseList == \E v \in Versions : SubmitList(v)
CompletePurchaseList == \E v \in Versions, total \in {0, 1} : CompleteList(v, total)

PurchaseNext ==
    \/ PostMaterial \/ CreatePurchaseList \/ AddPurchaseItem
    \/ SubmitPurchaseList \/ CompletePurchaseList
    \/ \E v \in Versions : MarkPrinted(v) \/ VoidList(v)

PurchaseSpec == PurchaseInit /\ [][PurchaseNext]_purchaseVars

(***************************************************************************)
(* Properties.                                                             *)
(***************************************************************************)
EventChain(i) ==
    LET e == listEvents[i] IN
    /\ e.from = IF e.to = "VOID" THEN "NULL" ELSE IF i = 1 THEN "DRAFT" ELSE listEvents[i - 1].to
    /\ e.to \in FinalStates => i = Len(listEvents)

\* The trail of a list tells how it came to where it is: one event per
\* version, each starting where the one before it ended, nothing after the
\* end, a print counted and an amount entered exactly when their event is
\* there (the transition, its column and its event commit together).
TrailTellsState ==
    /\ listStatus \in ListStates
    /\ listVersion = IF listStatus = "NONE" THEN 0 ELSE 1 + Len(listEvents)
    /\ listEvents # <<>> => listEvents[Len(listEvents)].to = listStatus
    /\ \A i \in 1..Len(listEvents) : EventChain(i)
    /\ printCount = IF \E i \in 1..Len(listEvents) : listEvents[i].to = "PRINTED" THEN 1 ELSE 0
    /\ (listTotal # NoTotal) <=> (listStatus = "COMPLETED")

\* A version decides once: of the requests that expect one version, one moves
\* the list, and the next move is made by who has seen that one.  A request
\* answered late, or sent twice, changes nothing (materials/store.go:213, 231).
VersionDecidesOnce ==
    /\ Len(expectedBy) = Len(listEvents)
    /\ \A i \in 1..Len(expectedBy) : expectedBy[i] = i
=============================================================================
