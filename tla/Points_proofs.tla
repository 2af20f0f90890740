----------------------------- MODULE Points_proofs -----------------------------
(***************************************************************************)
(* Proofs about Points, for every number of customers, phone numbers,      *)
(* orders and workers, every amount and every set of adjustments.          *)
(***************************************************************************)
EXTENDS Points, FiniteSetTheorems, SequenceTheorems, TLAPS

(***************************************************************************)
(* Member numbers.  Who is about to insert a membership has none, and has  *)
(* counted no more members than there are now.                             *)
(***************************************************************************)
JoinRows == [at : {"idle", "bind", "count", "insert"}, phone : Phones \cup {NoPhone}, no : Nat]

NumbersInv ==
    /\ memberNo \in [Customers -> Nat]
    /\ joining \in [Customers -> JoinRows]
    /\ IsFiniteSet(Members)
    /\ \A c \in Customers : joining[c].at \in {"count", "insert"} => memberNo[c] = 0
    /\ \A c \in Customers : joining[c].at = "insert" => joining[c].no \in 1..(Cardinality(Members) + 1)
    /\ MemberNumbersGapless

LEMMA NumbersInit == PointsInit => NumbersInv
<1> SUFFICES ASSUME PointsInit
             PROVE  NumbersInv
  OBVIOUS
<1>1. Members = {}
  BY DEF PointsInit, Members
<1>2. NotJoining \in JoinRows /\ NotJoining.at = "idle"
  BY DEF NotJoining, JoinRows
<1> QED
  BY <1>1, <1>2, FS_EmptySet DEF PointsInit, NumbersInv, MemberNumbersGapless

\* A request that goes on, and numbers nobody.
LEMMA NumbersAfterRequest ==
    ASSUME NumbersInv, memberNo' = memberNo, NEW c \in Customers, NEW r \in JoinRows,
           joining' = [joining EXCEPT ![c] = r],
           r.at \in {"count", "insert"} => memberNo[c] = 0,
           r.at = "insert" => r.no \in 1..(Cardinality(Members) + 1)
    PROVE  NumbersInv'
<1>1. Members' = Members
  BY DEF Members
<1>2. /\ joining'[c] = r /\ \A d \in Customers \ {c} : joining'[d] = joining[d]
      /\ joining' \in [Customers -> JoinRows]
  BY DEF NumbersInv
<1>3. /\ \A d \in Customers : joining'[d].at \in {"count", "insert"} => memberNo[d] = 0
      /\ \A d \in Customers : joining'[d].at = "insert" => joining'[d].no \in 1..(Cardinality(Members) + 1)
  BY <1>2 DEF NumbersInv
<1> QED
  BY <1>1, <1>2, <1>3 DEF NumbersInv, MemberNumbersGapless

LEMMA NumbersAfterInsert ==
    ASSUME NumbersInv, NEW c \in Customers, InsertMembership(c)
    PROVE  NumbersInv'
<1>1. NotJoining \in JoinRows /\ NotJoining.at = "idle"
  BY DEF NotJoining, JoinRows
<1>2. /\ joining[c].at = "insert" /\ joining' = [joining EXCEPT ![c] = NotJoining]
      /\ memberNo' = IF \E d \in Members : memberNo[d] = joining[c].no THEN memberNo
                     ELSE [memberNo EXCEPT ![c] = joining[c].no]
  BY DEF InsertMembership, JoinStep
<1>3. CASE \E d \in Members : memberNo[d] = joining[c].no
  BY <1>1, <1>2, <1>3, NumbersAfterRequest
<1>4. CASE \A d \in Members : memberNo[d] # joining[c].no
  <2> DEFINE n == Cardinality(Members)
  <2>1. /\ memberNo' = [memberNo EXCEPT ![c] = joining[c].no]
        /\ memberNo[c] = 0 /\ joining[c].no \in 1..(n + 1) /\ n \in Nat /\ c \notin Members
    BY <1>2, <1>4, FS_CardinalityType DEF NumbersInv, Members
  <2>2. /\ memberNo' \in [Customers -> Nat] /\ memberNo'[c] = joining[c].no
        /\ \A d \in Customers \ {c} : memberNo'[d] = memberNo[d]
    BY <2>1 DEF NumbersInv
  <2>3. Members' = Members \cup {c}
    BY <2>1, <2>2 DEF Members
  <2>4. IsFiniteSet(Members') /\ Cardinality(Members') = n + 1
    BY <2>1, <2>3, FS_AddElement DEF NumbersInv
  <2>5. /\ joining'[c] = NotJoining /\ \A d \in Customers \ {c} : joining'[d] = joining[d]
        /\ joining' \in [Customers -> JoinRows]
    BY <1>1, <1>2 DEF NumbersInv
  <2> HIDE DEF n
  <2>6. \A d \in Customers : joining'[d].at \in {"count", "insert"} => memberNo'[d] = 0
    BY <1>1, <2>2, <2>5 DEF NumbersInv
  <2>7. \A d \in Customers : joining'[d].at = "insert" => joining'[d].no \in 1..(n + 1 + 1)
    BY <1>1, <2>1, <2>5 DEF NumbersInv, n
  <2>8. MemberNumbersGapless'
    <3>1. \A d \in Members : memberNo[d] \in 1..n
      BY DEF NumbersInv, MemberNumbersGapless, n
    <3>2. \A d \in Members' : memberNo'[d] \in 1..(n + 1)
      BY <2>1, <2>2, <2>3, <3>1 DEF Members
    <3>3. \A d, e \in Members' : memberNo'[d] = memberNo'[e] => d = e
      BY <1>4, <2>1, <2>2, <2>3 DEF NumbersInv, MemberNumbersGapless, Members
    <3> QED
      BY <2>4, <3>2, <3>3 DEF MemberNumbersGapless
  <2> QED
    BY <2>2, <2>4, <2>5, <2>6, <2>7, <2>8 DEF NumbersInv
<1> QED
  BY <1>3, <1>4

LEMMA NumbersStep == NumbersInv /\ [PointsNext]_pointsVars => NumbersInv'
<1> SUFFICES ASSUME NumbersInv, [PointsNext]_pointsVars
             PROVE  NumbersInv'
  OBVIOUS
<1>1. ASSUME NEW c \in Customers, NEW p \in Phones, JoinMembership(c, p)
      PROVE  NumbersInv'
  <2> DEFINE r == [NotJoining EXCEPT !.at = "bind", !.phone = p]
  <2>1. r \in JoinRows /\ r.at = "bind"
    BY DEF NotJoining, JoinRows
  <2>2. memberNo' = memberNo /\ joining' = [joining EXCEPT ![c] = r]
    BY <1>1 DEF JoinMembership, JoinStep
  <2> HIDE DEF r
  <2> QED
    BY <2>1, <2>2, NumbersAfterRequest
<1>2. ASSUME NEW c \in Customers, Join(c)
      PROVE  NumbersInv'
  <2> DEFINE r == IF c \in Members THEN NotJoining ELSE [joining[c] EXCEPT !.at = "count"]
  <2>1. r \in JoinRows /\ r.at \in {"idle", "count"} /\ (r.at = "count" => memberNo[c] = 0)
    <3>1. joining[c] \in JoinRows
      BY DEF NumbersInv
    <3>2. \A x \in JoinRows : [x EXCEPT !.at = "count"] \in JoinRows /\ [x EXCEPT !.at = "count"].at = "count"
      BY DEF JoinRows
    <3> QED
      BY <3>1, <3>2 DEF NotJoining, JoinRows, Members
  <2>2. memberNo' = memberNo /\ joining' = [joining EXCEPT ![c] = r]
    BY <1>2 DEF Join, JoinStep
  <2> HIDE DEF r
  <2> QED
    BY <2>1, <2>2, NumbersAfterRequest
<1>3. ASSUME NEW c \in Customers, allocateMemberNo(c)
      PROVE  NumbersInv'
  <2> DEFINE n == Cardinality(Members) + 1
             r == [joining[c] EXCEPT !.at = "insert", !.no = n]
  <2>1. n \in Nat /\ n \in 1..n
    BY FS_CardinalityType DEF NumbersInv
  <2>2. memberNo' = memberNo /\ joining' = [joining EXCEPT ![c] = r] /\ joining[c] \in JoinRows /\ memberNo[c] = 0
    BY <1>3 DEF allocateMemberNo, JoinStep, NumbersInv
  <2> HIDE DEF n
  <2>3. r \in JoinRows /\ r.at = "insert" /\ r.no = n
    <3>1. \A x \in JoinRows : /\ [x EXCEPT !.at = "insert", !.no = n] \in JoinRows
                              /\ [x EXCEPT !.at = "insert", !.no = n].at = "insert"
                              /\ [x EXCEPT !.at = "insert", !.no = n].no = n
      BY <2>1 DEF JoinRows
    <3> QED
      BY <2>2, <3>1
  <2> HIDE DEF r
  <2> QED
    BY <2>1, <2>2, <2>3, NumbersAfterRequest DEF n
<1>4. ASSUME UNCHANGED <<memberNo, joining>>
      PROVE  NumbersInv'
  BY <1>4 DEF NumbersInv, Members, MemberNumbersGapless
<1>5. CASE PointsAdjustment
  BY <1>4, <1>5 DEF PointsAdjustment, AdjustPoints, joinVars
<1>6. CASE \E o \in Earners : OrderPaid(o) \/ OrderRefunded(o)
  BY <1>4, <1>6 DEF OrderPaid, OrderRefunded, joinVars
<1>7. CASE \E w \in Handlers : \/ \E o \in Earners : BeginAward(w, o) \/ BeginReverse(w, o)
                               \/ AwardPoints(w) \/ LookupEarned(w) \/ ReversePoints(w)
                               \/ AbandonJob(w)
  BY <1>4, <1>7 DEF BeginAward, BeginReverse, AwardPoints, LookupEarned, ReversePoints, AbandonJob, Work, joinVars
<1>8. CASE UNCHANGED pointsVars
  BY <1>4, <1>8 DEF pointsVars, joinVars
<1> QED
  BY <1>1, <1>2, <1>3, <1>5, <1>6, <1>7, <1>8, NumbersAfterInsert DEF PointsNext

LEMMA NumbersInvariant == PointsSpec => []NumbersInv
<1>1. PointsInit => NumbersInv
  BY NumbersInit
<1>2. NumbersInv /\ [PointsNext]_pointsVars => NumbersInv'
  BY NumbersStep
<1> QED
  BY <1>1, <1>2, PTL DEF PointsSpec

\* The member numbers of a store are 1, 2, 3, ... without gap or repetition,
\* whatever customers join at the same time: a count without a lock, decided
\* by the unique key.
THEOREM MembersAreNumbered == PointsSpec => []MemberNumbersGapless
<1>1. NumbersInv => MemberNumbersGapless
  BY DEF NumbersInv
<1> QED
  BY <1>1, NumbersInvariant, PTL

(***************************************************************************)
(* The ledger.  A worker's write starts from a balance the account has had *)
(* and, when it takes points back, is covered by what the order earned.    *)
(***************************************************************************)
LedgerRows ==
    [type : {"ADJUST", "EARN", "REVERSE"}, key : Earners \cup AdjustKeys \cup {0}, delta : Int, after : Nat]
JobRows ==
    [at : {"idle", "award", "lookup", "reverse"}, order : Earners \cup {0}, base : Nat, pts : Int]

\* The balances the account has had.
Afters == {0} \cup {ledger[i].after : i \in 1..Len(ledger)}

\* The order earned at least as much.
EarnedAtLeast(o, pts) ==
    \E i \in 1..Len(ledger) : ledger[i].type = "EARN" /\ ledger[i].key = o /\ pts <= ledger[i].delta

AccountInv ==
    /\ balance \in Nat
    /\ ledger \in Seq(LedgerRows)
    /\ PointsOncePerOrder
    /\ BalanceComesFromLedger

JobInv(j) ==
    /\ j.at # "idle" => j.base \in Afters
    /\ j.at = "award" => j.pts \in Nat
    /\ j.at = "reverse" => j.pts <= j.base /\ EarnedAtLeast(j.order, j.pts)

JobsInv == job \in [Handlers -> JobRows] /\ \A w \in Handlers : JobInv(job[w])

LedgerInv == AccountInv /\ JobsInv

LEMMA LedgerInit == PointsInit => LedgerInv
<1> SUFFICES ASSUME PointsInit
             PROVE  LedgerInv
  OBVIOUS
<1>1. ledger = <<>> /\ balance = 0 /\ Len(ledger) = 0 /\ ledger \in Seq(LedgerRows)
  BY DEF PointsInit
<1>2. AccountInv
  BY <1>1 DEF AccountInv, PointsOncePerOrder, BalanceComesFromLedger
<1>3. JobsInv
  BY DEF PointsInit, JobsInv, JobInv, JobRows, NoJob
<1> QED
  BY <1>2, <1>3 DEF LedgerInv

\* The balance is one the account has had.
LEMMA BalanceIsAfter ==
    ASSUME AccountInv
    PROVE  balance \in Afters /\ Afters \subseteq Nat
<1>1. Len(ledger) \in Nat /\ \A i \in 1..Len(ledger) : ledger[i] \in LedgerRows
  BY LenProperties, ElementOfSeq DEF AccountInv
<1>2. ledger # <<>> => Len(ledger) \in 1..Len(ledger)
  BY <1>1, EmptySeq DEF AccountInv
<1> QED
  BY <1>1, <1>2 DEF AccountInv, BalanceComesFromLedger, Afters, LedgerRows

\* The balance the entry before the i-th left.
Before(i) == IF i = 1 THEN 0 ELSE ledger[i - 1].after

\* An entry that starts from such a balance, and takes back only what was
\* earned, keeps the ledger right; an adjustment starts from the latest.
LEMMA EntryKeepsAccount ==
    ASSUME AccountInv, NEW e \in LedgerRows, e.after - e.delta \in Afters,
           e.type = "REVERSE" => EarnedAtLeast(e.key, -e.delta),
           e.type = "ADJUST" => e.after - e.delta = balance, Record(e)
    PROVE  /\ AccountInv'
           /\ Afters \subseteq Afters'
           /\ \A o, pts : EarnedAtLeast(o, pts) => EarnedAtLeast(o, pts)'
<1>1. CASE UNCHANGED accountVars
  BY <1>1 DEF accountVars, AccountInv, PointsOncePerOrder, BalanceComesFromLedger, Afters, EarnedAtLeast
<1>2. CASE ~Recorded(e.type, e.key) /\ RecordAnyway(e)
  <2> DEFINE n == Len(ledger)
  <2>1. /\ balance' = e.after /\ ledger' = Append(ledger, e) /\ balance' \in Nat
        /\ ledger' \in Seq(LedgerRows) /\ ledger' # <<>> /\ n \in Nat /\ Len(ledger') = n + 1
        /\ \A i \in 1..n : ledger'[i] = ledger[i]
        /\ ledger'[n + 1] = e
    BY <1>2, AppendProperties, LenProperties DEF RecordAnyway, AccountInv, LedgerRows
  <2>2. \A i \in 1..n : ~(ledger[i].type = e.type /\ ledger[i].key = e.key)
    BY <1>2 DEF Recorded
  <2>3. \A i \in 1..Len(ledger') : i \in 1..n \/ i = n + 1
    BY <2>1
  <2>4. 1..n \subseteq 1..Len(ledger') /\ n + 1 \in 1..Len(ledger')
    BY <2>1
  <2> HIDE DEF n
  <2>5. Afters \subseteq Afters'
    BY <2>1, <2>4 DEF Afters, n
  <2>6. \A o, pts : EarnedAtLeast(o, pts) => EarnedAtLeast(o, pts)'
    BY <2>1, <2>4 DEF EarnedAtLeast, n
  <2>7. PointsOncePerOrder'
    <3>1. \A i, j \in 1..Len(ledger') :
            ledger'[i].type = ledger'[j].type /\ ledger'[i].key = ledger'[j].key => i = j
      BY <2>1, <2>2, <2>3 DEF AccountInv, PointsOncePerOrder, n
    <3>2. ASSUME NEW j \in 1..Len(ledger'), ledger'[j].type = "REVERSE"
          PROVE  \E i \in 1..(j - 1) : /\ ledger'[i].type = "EARN" /\ ledger'[i].key = ledger'[j].key
                                         /\ ledger'[j].delta + ledger'[i].delta >= 0
      <4>1. CASE j \in 1..n
        <5>1. PICK i \in 1..(j - 1) : /\ ledger[i].type = "EARN" /\ ledger[i].key = ledger[j].key
                                       /\ ledger[j].delta + ledger[i].delta >= 0
          BY <2>1, <3>2, <4>1 DEF AccountInv, PointsOncePerOrder, n
        <5>2. i \in 1..n
          BY <2>1, <4>1
        <5> QED
          BY <2>1, <4>1, <5>1, <5>2
      <4>2. CASE j = n + 1
        <5>1. PICK i \in 1..n : ledger[i].type = "EARN" /\ ledger[i].key = e.key /\ -e.delta <= ledger[i].delta
          BY <2>1, <3>2, <4>2 DEF EarnedAtLeast, n
        <5>2. ledger[i] \in LedgerRows
          BY <5>1, ElementOfSeq DEF AccountInv, n
        <5>3. ledger[i].delta \in Int /\ e.delta \in Int
          BY <5>2 DEF LedgerRows
        <5>4. \A x, y \in Int : -x <= y => x + y >= 0
          OBVIOUS
        <5>5. e.delta + ledger[i].delta >= 0
          BY <5>1, <5>3, <5>4
        <5>6. i \in 1..(j - 1) /\ ledger'[j] = e /\ ledger'[i] = ledger[i]
          BY <2>1, <4>2
        <5> QED
          BY <3>2, <5>1, <5>5, <5>6
      <4> QED
        BY <2>3, <4>1, <4>2
    <3> QED
      BY <3>1, <3>2 DEF PointsOncePerOrder
  <2>8. BalanceComesFromLedger'
    <3>1. balance' = ledger'[Len(ledger')].after
      BY <2>1
    <3>2. ASSUME NEW i \in 1..Len(ledger')
          PROVE  /\ ledger'[i].after >= 0
                 /\ ledger'[i].type = "ADJUST" => ledger'[i].after - ledger'[i].delta = Before(i)'
                 /\ ledger'[i].after - ledger'[i].delta \in {0} \cup {ledger'[j].after : j \in 1..(i - 1)}
      <4>1. CASE i \in 1..n
        <5>1. 1..(i - 1) \subseteq 1..n
          BY <2>1, <4>1
        <5>2. {ledger'[j].after : j \in 1..(i - 1)} = {ledger[j].after : j \in 1..(i - 1)}
          BY <2>1, <5>1
        <5>3. Before(i)' = Before(i)
          BY <2>1, <4>1 DEF Before
        <5> QED
          BY <2>1, <4>1, <5>2, <5>3 DEF AccountInv, BalanceComesFromLedger, Before, n
      <4>2. CASE i = n + 1
        <5>1. i - 1 = n
          BY <2>1, <4>2
        <5>2. {ledger'[j].after : j \in 1..(i - 1)} = {ledger[j].after : j \in 1..n}
          BY <2>1, <5>1
        <5>3. Before(i)' = balance
          <6>1. n = 0 => ledger = <<>>
            BY EmptySeq DEF AccountInv, n
          <6>2. n # 0 => ledger # <<>> /\ n \in 1..n
            BY <2>1 DEF n
          <6> QED
            BY <2>1, <4>2, <6>1, <6>2 DEF Before, AccountInv, BalanceComesFromLedger, n
        <5> QED
          BY <2>1, <4>2, <5>2, <5>3 DEF Afters, LedgerRows, n
      <4> QED
        BY <2>3, <4>1, <4>2
    <3> QED
      BY <2>1, <3>1, <3>2 DEF BalanceComesFromLedger, Before
  <2> QED
    BY <2>1, <2>5, <2>6, <2>7, <2>8 DEF AccountInv
<1> QED
  BY <1>1, <1>2 DEF Record

\* A write of the balance, with the jobs of the other workers.
LEMMA LedgerAfterEntry ==
    ASSUME LedgerInv, NEW e \in LedgerRows, e.after - e.delta \in Afters,
           e.type = "REVERSE" => EarnedAtLeast(e.key, -e.delta),
           e.type = "ADJUST" => e.after - e.delta = balance, Record(e),
           job' = job \/ \E w \in Handlers : job' = [job EXCEPT ![w] = NoJob]
    PROVE  LedgerInv'
<1>1. /\ AccountInv' /\ Afters \subseteq Afters'
      /\ \A o, pts : EarnedAtLeast(o, pts) => EarnedAtLeast(o, pts)'
  BY EntryKeepsAccount DEF LedgerInv
<1>2. NoJob \in JobRows /\ NoJob.at = "idle"
  BY DEF NoJob, JobRows
<1>3. job' \in [Handlers -> JobRows] /\ \A w \in Handlers : job'[w] = job[w] \/ job'[w] = NoJob
  BY <1>2 DEF LedgerInv, JobsInv
<1>4. \A w \in Handlers : JobInv(job[w])'
  BY <1>1, <1>2, <1>3 DEF LedgerInv, JobsInv, JobInv
<1> QED
  BY <1>1, <1>3, <1>4 DEF LedgerInv, JobsInv

\* A worker's job changes and the account does not.
LEMMA LedgerAfterWork ==
    ASSUME LedgerInv, NEW w \in Handlers, NEW j \in JobRows, JobInv(j), Work(w, j), UNCHANGED accountVars
    PROVE  LedgerInv'
<1>1. job' \in [Handlers -> JobRows] /\ \A x \in Handlers : job'[x] = job[x] \/ job'[x] = j
  BY DEF LedgerInv, JobsInv, Work
<1>2. /\ AccountInv' /\ Afters' = Afters
      /\ \A o, pts : EarnedAtLeast(o, pts) = EarnedAtLeast(o, pts)'
  BY DEF LedgerInv, accountVars, AccountInv, PointsOncePerOrder, BalanceComesFromLedger, Afters, EarnedAtLeast
<1>3. \A x \in Handlers : JobInv(job[x])'
  BY <1>1, <1>2 DEF LedgerInv, JobsInv, JobInv
<1> QED
  BY <1>1, <1>2, <1>3 DEF LedgerInv, JobsInv

LEMMA AdjustmentInv ==
    ASSUME LedgerInv, NEW key \in AdjustKeys, NEW delta \in Deltas, AdjustPoints(key, delta)
    PROVE  LedgerInv'
<1> DEFINE e == Entry("ADJUST", key, delta, balance + delta)
<1>1. balance \in Nat /\ delta \in Int /\ balance + delta \in Nat /\ balance + delta - delta = balance
  BY PointsAssumption DEF AdjustPoints, LedgerInv, AccountInv
<1>2. e \in LedgerRows /\ e.type = "ADJUST" /\ e.after - e.delta = balance
  BY <1>1 DEF Entry, LedgerRows
<1>3. Record(e) /\ job' = job
  BY DEF AdjustPoints
<1> HIDE DEF e
<1> QED
  BY <1>2, <1>3, LedgerAfterEntry, BalanceIsAfter DEF LedgerInv

LEMMA AwardInv ==
    ASSUME LedgerInv, NEW w \in Handlers, AwardPoints(w)
    PROVE  LedgerInv'
<1> DEFINE e == Entry("EARN", job[w].order, job[w].pts, job[w].base + job[w].pts)
<1>1. /\ job[w].base \in Afters /\ job[w].base \in Nat /\ job[w].pts \in Nat
      /\ job[w].order \in Earners \cup {0}
  BY DEF AwardPoints, LedgerInv, JobsInv, JobInv, JobRows
<1>2. job[w].base + job[w].pts \in Nat /\ job[w].base + job[w].pts - job[w].pts = job[w].base
  BY <1>1
<1>3. e \in LedgerRows /\ e.type = "EARN" /\ e.after - e.delta = job[w].base
  BY <1>1, <1>2 DEF Entry, LedgerRows
<1>4. Record(e) /\ job' = [job EXCEPT ![w] = NoJob]
  BY DEF AwardPoints, Work
<1> HIDE DEF e
<1> QED
  BY <1>1, <1>3, <1>4, LedgerAfterEntry

LEMMA ReverseInv ==
    ASSUME LedgerInv, NEW w \in Handlers, ReversePoints(w)
    PROVE  LedgerInv'
<1> DEFINE e == Entry("REVERSE", job[w].order, -job[w].pts, job[w].base - job[w].pts)
<1>1. /\ job[w].base \in Afters /\ job[w].base \in Nat /\ job[w].pts \in Int /\ job[w].pts <= job[w].base
      /\ EarnedAtLeast(job[w].order, job[w].pts)
      /\ job[w].order \in Earners \cup {0}
  BY DEF ReversePoints, LedgerInv, JobsInv, JobInv, JobRows
<1>2. /\ job[w].base - job[w].pts \in Nat
      /\ job[w].base - job[w].pts - (-job[w].pts) = job[w].base
      /\ -job[w].pts \in Int /\ -(-job[w].pts) = job[w].pts
  BY <1>1
<1>3. /\ e \in LedgerRows /\ e.type = "REVERSE" /\ e.after - e.delta = job[w].base
      /\ e.key = job[w].order /\ -e.delta = job[w].pts
  BY <1>1, <1>2 DEF Entry, LedgerRows
<1>4. Record(e) /\ job' = [job EXCEPT ![w] = NoJob]
  BY DEF ReversePoints, Work
<1> HIDE DEF e
<1> QED
  BY <1>1, <1>3, <1>4, LedgerAfterEntry

\* What an order earned is in the ledger.
LEMMA EarnedIsEarned ==
    ASSUME AccountInv, NEW o
    PROVE  Earned(o) \in Int /\ (Earned(o) # 0 => EarnedAtLeast(o, Earned(o)))
<1>1. CASE Recorded("EARN", o)
  <2> DEFINE S == {ledger[i] : i \in 1..Len(ledger)}
             x == CHOOSE e \in S : e.type = "EARN" /\ e.key = o
  <2>1. \E e \in S : e.type = "EARN" /\ e.key = o
    BY <1>1 DEF Recorded
  <2>2. x \in S /\ x.type = "EARN" /\ x.key = o
    <3> HIDE DEF S
    <3> QED
      BY <2>1
  <2>3. Earned(o) = x.delta
    BY <1>1 DEF Earned
  <2> HIDE DEF x
  <2>4. PICK i \in 1..Len(ledger) : x = ledger[i]
    BY <2>2
  <2>5. ledger[i] \in LedgerRows
    BY <2>4, ElementOfSeq DEF AccountInv
  <2>6. x.delta \in Int
    BY <2>4, <2>5 DEF LedgerRows
  <2> QED
    BY <2>2, <2>3, <2>4, <2>6 DEF EarnedAtLeast
<1>2. CASE ~Recorded("EARN", o)
  BY <1>2 DEF Earned
<1> QED
  BY <1>1, <1>2

LEMMA LookupInv ==
    ASSUME LedgerInv, NEW w \in Handlers, LookupEarned(w)
    PROVE  LedgerInv'
<1> DEFINE pts == Earned(job[w].order)
           cut == IF pts > job[w].base THEN job[w].base ELSE pts
           j == IF pts = 0 THEN NoJob ELSE [job[w] EXCEPT !.at = "reverse", !.pts = cut]
<1>1. /\ job[w] \in JobRows /\ job[w].base \in Afters /\ job[w].base \in Nat
      /\ Work(w, j) /\ UNCHANGED accountVars
  BY DEF LookupEarned, LedgerInv, JobsInv, JobInv, JobRows
<1>2. pts \in Int /\ (pts # 0 => EarnedAtLeast(job[w].order, pts))
  BY EarnedIsEarned DEF LedgerInv
<1>3. cut \in Int /\ cut <= job[w].base /\ cut <= pts
  BY <1>1, <1>2
<1>4. pts # 0 => EarnedAtLeast(job[w].order, cut)
  <2> HIDE DEF pts, cut
  <2> SUFFICES ASSUME pts # 0
               PROVE  EarnedAtLeast(job[w].order, cut)
    OBVIOUS
  <2>1. PICK i \in 1..Len(ledger) : ledger[i].type = "EARN" /\ ledger[i].key = job[w].order /\ pts <= ledger[i].delta
    BY <1>2 DEF EarnedAtLeast
  <2>2. ledger[i] \in LedgerRows
    BY <2>1, ElementOfSeq DEF LedgerInv, AccountInv
  <2>3. ledger[i].delta \in Int
    BY <2>2 DEF LedgerRows
  <2>4. cut <= ledger[i].delta
    BY <1>2, <1>3, <2>1, <2>3
  <2> QED
    BY <2>1, <2>4 DEF EarnedAtLeast
<1> HIDE DEF pts, cut
<1>5. \A x \in JobRows : /\ [x EXCEPT !.at = "reverse", !.pts = cut] \in JobRows
                         /\ [x EXCEPT !.at = "reverse", !.pts = cut].at = "reverse"
                         /\ [x EXCEPT !.at = "reverse", !.pts = cut].order = x.order
                         /\ [x EXCEPT !.at = "reverse", !.pts = cut].base = x.base
                         /\ [x EXCEPT !.at = "reverse", !.pts = cut].pts = cut
  BY <1>3 DEF JobRows
<1>6. j \in JobRows /\ JobInv(j)
  <2>1. CASE pts = 0
    BY <2>1 DEF NoJob, JobRows, JobInv
  <2>2. CASE pts # 0
    <3>1. j \in JobRows /\ j.at = "reverse" /\ j.order = job[w].order /\ j.base = job[w].base /\ j.pts = cut
      BY <1>1, <1>5, <2>2
    <3> HIDE DEF j
    <3> QED
      BY <1>1, <1>3, <1>4, <2>2, <3>1 DEF JobInv
  <2> QED
    BY <2>1, <2>2
<1> HIDE DEF j
<1> QED
  BY <1>1, <1>6, LedgerAfterWork

LEMMA LedgerStep == LedgerInv /\ [PointsNext]_pointsVars => LedgerInv'
<1> SUFFICES ASSUME LedgerInv, [PointsNext]_pointsVars
             PROVE  LedgerInv'
  OBVIOUS
<1>1. ASSUME UNCHANGED <<accountVars, job>>
      PROVE  LedgerInv'
  BY <1>1 DEF LedgerInv, accountVars, AccountInv, PointsOncePerOrder, BalanceComesFromLedger, JobsInv, JobInv,
     Afters, EarnedAtLeast
<1>2. CASE \E c \in Customers : \/ \E p \in Phones : JoinMembership(c, p)
                                \/ Join(c) \/ allocateMemberNo(c) \/ InsertMembership(c)
  BY <1>1, <1>2 DEF JoinMembership, Join, allocateMemberNo, InsertMembership, JoinStep
<1>3. CASE PointsAdjustment
  BY <1>3, AdjustmentInv DEF PointsAdjustment
<1>4. CASE \E o \in Earners : OrderPaid(o) \/ OrderRefunded(o)
  BY <1>1, <1>4 DEF OrderPaid, OrderRefunded
<1>5. ASSUME NEW w \in Handlers, NEW o \in Earners, BeginAward(w, o)
      PROVE  LedgerInv'
  <2> DEFINE j == [at |-> "award", order |-> o, base |-> balance, pts |-> Points]
  <2>1. balance \in Nat /\ balance \in Afters /\ Points \in Nat
    BY BalanceIsAfter, PointsAssumption DEF LedgerInv, AccountInv, Points
  <2>2. j \in JobRows /\ JobInv(j)
    BY <2>1 DEF JobRows, JobInv
  <2>3. Work(w, j) /\ UNCHANGED accountVars
    BY <1>5 DEF BeginAward
  <2> HIDE DEF j
  <2> QED
    BY <2>2, <2>3, LedgerAfterWork
<1>6. ASSUME NEW w \in Handlers, NEW o \in Earners, BeginReverse(w, o)
      PROVE  LedgerInv'
  <2> DEFINE j == [at |-> "lookup", order |-> o, base |-> balance, pts |-> 0]
  <2>1. balance \in Nat /\ balance \in Afters
    BY BalanceIsAfter DEF LedgerInv, AccountInv
  <2>2. j \in JobRows /\ JobInv(j)
    BY <2>1 DEF JobRows, JobInv
  <2>3. Work(w, j) /\ UNCHANGED accountVars
    BY <1>6 DEF BeginReverse
  <2> HIDE DEF j
  <2> QED
    BY <2>2, <2>3, LedgerAfterWork
<1>7. ASSUME NEW w \in Handlers, AbandonJob(w)
      PROVE  LedgerInv'
  <2>1. NoJob \in JobRows /\ JobInv(NoJob)
    BY DEF NoJob, JobRows, JobInv
  <2> QED
    BY <1>7, <2>1, LedgerAfterWork DEF AbandonJob
<1>8. CASE UNCHANGED pointsVars
  BY <1>1, <1>8 DEF pointsVars
<1> QED
  BY <1>2, <1>3, <1>4, <1>5, <1>6, <1>7, <1>8, AwardInv, LookupInv, ReverseInv DEF PointsNext

LEMMA LedgerInvariant == PointsSpec => []LedgerInv
<1>1. PointsInit => LedgerInv
  BY LedgerInit
<1>2. LedgerInv /\ [PointsNext]_pointsVars => LedgerInv'
  BY LedgerStep
<1> QED
  BY <1>1, <1>2, PTL DEF PointsSpec

\* Events are delivered any number of times and in any order, and workers
\* stop anywhere: an order earns once, and a refund takes back once, after it,
\* and no more.
THEOREM OrdersEarnOnce == PointsSpec => []PointsOncePerOrder
<1>1. LedgerInv => PointsOncePerOrder
  BY DEF LedgerInv, AccountInv
<1> QED
  BY <1>1, LedgerInvariant, PTL

\* Whatever workers write over each other: an adjustment starts from the
\* balance the entry before it left, every other entry from a balance the
\* account has had, and none ends below zero.
THEOREM EntriesStartFromBalances == PointsSpec => []BalanceComesFromLedger
<1>1. LedgerInv => BalanceComesFromLedger
  BY DEF LedgerInv, AccountInv
<1> QED
  BY <1>1, LedgerInvariant, PTL
=============================================================================
