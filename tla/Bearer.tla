-------------------------------- MODULE Bearer --------------------------------
(***************************************************************************)
(* The customers of a store and their Bearer tokens.  A code of WeChat     *)
(* gives an openid; the customer is looked up and otherwise inserted, in   *)
(* two statements that other logins of the same person may come between.   *)
(***************************************************************************)
EXTENDS Integers

CONSTANTS
    OpenIds,        \* people
    Logins,         \* logins that overlap
    NoPerson        \* of no person

ASSUME BearerAssumption == NoPerson \notin OpenIds

VARIABLES
    lastCustomer,   \* AUTO_INCREMENT of customers
    customerOf,     \* customers.id by wechat_openid, 0 without a row
    login,          \* login[l]: [at, openid, id] under way
    token           \* token[l]: the customer_sessions row login l has made

bearerVars == <<lastCustomer, customerOf, login, token>>

NoLogin == [at |-> "idle", openid |-> NoPerson, id |-> 0]
NoToken == [openid |-> NoPerson, customer |-> 0]

BearerInit ==
    /\ lastCustomer = 0
    /\ customerOf = [o \in OpenIds |-> 0]
    /\ login = [l \in Logins |-> NoLogin]
    /\ token = [l \in Logins |-> NoToken]

\* The exchange of the code, and the SELECT.
WechatSession(l, o) ==
    /\ login[l] = NoLogin
    /\ token[l] = NoToken
    /\ login' = [login EXCEPT ![l] = [at |-> IF customerOf[o] = 0 THEN "insert" ELSE "issue",
                                      openid |-> o, id |-> customerOf[o]]]
    /\ UNCHANGED <<lastCustomer, customerOf, token>>

\* INSERT ... ON DUPLICATE KEY UPDATE: the row of a login that came between
\* is taken as it is.
InsertCustomerAnew(l) ==
    LET o == login[l].openid IN
    /\ login[l].at = "insert"
    /\ lastCustomer' = lastCustomer + 1
    /\ customerOf' = [customerOf EXCEPT ![o] = lastCustomer + 1]
    /\ login' = [login EXCEPT ![l] = [at |-> "issue", openid |-> o, id |-> lastCustomer + 1]]
    /\ UNCHANGED token
EnsureByOpenID(l) ==
    LET o == login[l].openid IN
    /\ login[l].at = "insert"
    /\ lastCustomer' = lastCustomer + 1
    /\ customerOf' = [customerOf EXCEPT ![o] = IF @ = 0 THEN lastCustomer + 1 ELSE @]
    /\ login' = [login EXCEPT ![l] = [at |-> "issue", openid |-> o, id |-> customerOf'[o]]]
    /\ UNCHANGED token

IssueSession(l) ==
    /\ login[l].at = "issue"
    /\ token' = [token EXCEPT ![l] = [openid |-> login[l].openid, customer |-> login[l].id]]
    /\ login' = [login EXCEPT ![l] = NoLogin]
    /\ UNCHANGED <<lastCustomer, customerOf>>

BearerNext ==
    \E l \in Logins : \/ \E o \in OpenIds : WechatSession(l, o)
                      \/ EnsureByOpenID(l) \/ IssueSession(l)

BearerSpec == BearerInit /\ [][BearerNext]_bearerVars

(***************************************************************************)
(* Properties.                                                             *)
(***************************************************************************)
\* A person is one customer, whichever of several first logins comes first,
\* and every token of theirs is that customer's: orders and coupons are not
\* spread over two (customerauth/store.go:84-101).
OneCustomerPerPerson ==
    /\ \A o, p \in OpenIds : customerOf[o] = customerOf[p] /\ customerOf[o] # 0 => o = p
    /\ \A l \in Logins : token[l] # NoToken => token[l].customer = customerOf[token[l].openid]
=============================================================================
