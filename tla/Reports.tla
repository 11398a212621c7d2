------------------------------ MODULE Reports ------------------------------
(***************************************************************************)
(* What the customers can ask for: lists and statistics of token.ts,       *)
(* settlements of clearing.ts, the journal of journal.ts.  Each report is  *)
(* one statement over what the requests of Token have written; intervals   *)
(* and limits only leave lines out and are not kept.                       *)
(*                                                                         *)
(* Two things the reports show come from elsewhere.  The rows of journal   *)
(* are inserted on connections of their own, by statements nobody waits    *)
(* for: they arrive later, in any order, or never.  And a settlement names *)
(* the devices as their customers call them today.                         *)
(***************************************************************************)
EXTENDS TokenSafety, FiniteSetsExt

CONSTANT RefName  \* the names customers give to their devices

\* An id is a uuid.
ASSUME ReportsAssumption == IsFiniteSet(TokenId)

VARIABLES
    journal,  \* the rows of table journal
    refname   \* the column refname of customer_device

reportVars == <<vars, journal, refname>>

\* journalize: an insert that was sent reaches the table.
JournalInsert(e) ==
    /\ e \in sent \ journal
    /\ journal' = journal \cup {e}
    /\ UNCHANGED <<vars, refname>>

\* updateDeviceByCustomerAndId; a device whose type is edited keeps its name.
EditDevice(d) ==
    /\ \E n \in RefName : refname' = [refname EXCEPT ![d] = n]
    /\ UNCHANGED <<vars, journal>>

ReportsInit == /\ Init
               /\ journal = {}
               /\ refname \in [Device -> RefName]

ReportsNext == \/ Next /\ UNCHANGED <<journal, refname>>
               \/ \E e \in sent : JournalInsert(e)
               \/ \E d \in Device : EditDevice(d)

ReportsSpec == ReportsInit /\ [][ReportsNext]_reportVars

-----------------------------------------------------------------------------
\* getFilteredExportedTokens: the owner's tokens, which a filter narrows.
OwnTokens(c) == {t \in TokenId : Exists(t) /\ Owner(t) = c}

\* getOpenForDevice: open by state, whether expired or not.
GetOpenForDevice(c, d) == {t \in OwnTokens(c) : token[t].device = d /\ IsOpen(t)}

\* getClearingData joins clearing, token and both devices.  Of the columns left
\* out, symbol and t.refname are as inserted, lockrefname comes with the amount
\* and both accounts and the date with the clearing row.
ClearingLine(t, names) ==
    [token |-> t, type |-> token[t].type, amount |-> token[t].amount,
     tokendevice |-> names[token[t].device], lockdevice |-> names[token[t].lock],
     debitor |-> clearing[t].debitor, creditor |-> clearing[t].creditor]
GetClearingData(c) == {ClearingLine(t, refname) : t \in {u \in TokenId :
    clearing[u] # NoClearing /\ c \in {clearing[u].debitor, clearing[u].creditor}}}

\* count(*) and sum(amount) over a set of lines or rows.
Totals(S) == [count |-> Cardinality(S),
              amount |-> SumFunction([x \in S |-> x.amount])]

\* getClearingDataSums, group by type, debitor_id, creditor_id.
GroupOf(l) == <<l.type, l.debitor, l.creditor>>
GetClearingDataSums(c) ==
    LET lines == GetClearingData(c)
    IN  [g \in {GroupOf(l) : l \in lines} |-> Totals({l \in lines : GroupOf(l) = g})]

\* Mutant: the tokens a customer's devices have locked are forgotten.
StatisticsOfOwner(c, state, type) ==
    Totals({[id |-> t, amount |-> token[t].amount] : t \in {u \in TokenId :
              Exists(u) /\ token[u].state = state /\ token[u].type = type /\ Owner(u) = c}})

\* getStatistics: owned by the customer, or locked by one of his devices.
GetStatistics(c, state, type) ==
    Totals({[id |-> t, amount |-> token[t].amount] : t \in {u \in TokenId :
              /\ Exists(u) /\ token[u].state = state /\ token[u].type = type
              /\ \/ Owner(u) = c
                 \/ token[u].lock # NoDevice /\ DeviceCustomer[token[u].lock] = c}})

\* getJournal of a customer.
GetJournal(c) == {e \in journal : e.customer = c}

-----------------------------------------------------------------------------
(* A settlement that can be read never changes, whatever requests do later *)
(* to its token, but for the names of its two devices: amount, type and    *)
(* parties are those of the first reading, and the devices are the same    *)
(* two, shown under the names their customers give them (clearing.ts:25-30,*)
(* token.ts:178, 384-395, 410, device.ts:53-69).                           *)
SettlementFixed == [][\A t \in TokenId : clearing[t] # NoClearing =>
    ClearingLine(t, refname)' = ClearingLine(t, refname')]_reportVars

(* What a customer settles by agrees: the sums of his clearing rows over   *)
(* all partners are the statistics of his COMPLETED tokens, as soon as no  *)
(* request is under way and none has died; what his devices show as open   *)
(* are the OPEN tokens of his statistics, always (clearing.ts:64-80,       *)
(* token.ts:67-72, 133-144).                                               *)
ReportsAgree == \A c \in Customer, type \in Type :
    /\ Quiet /\ orphaned = {} /\ type \in {"CASHOUT", "CASHIN"} =>
         LET sums == GetClearingDataSums(c)
             of == {g \in DOMAIN sums : g[1] = type}
             stat == GetStatistics(c, "COMPLETED", type)
         IN  /\ stat.count = SumFunction([g \in of |-> sums[g].count])
             /\ stat.amount = SumFunction([g \in of |-> sums[g].amount])
    /\ LET shown == {t \in UNION {GetOpenForDevice(c, d) : d \in Device} :
                       token[t].type = type}
       IN  Cardinality(shown) = GetStatistics(c, "OPEN", type).count

(* No row of the journal contradicts the table, however late it arrives:   *)
(* the state of an outcome is the state the token keeps, and it is filed   *)
(* with the owner or with the customer whose device holds the token        *)
(* (token.ts:114, 195, 316).                                               *)
JournalAgrees ==
    \A e \in journal : Exists(e.token) =>
        LET row == token[e.token] IN
        /\ e.action \in {"delete", "reject", "confirm"} => row.state = e.state
        /\ e.action = "lock" => row.lock # NoDevice
        /\ \/ e.customer = Owner(e.token)
           \/ row.lock # NoDevice /\ e.customer = DeviceCustomer[row.lock]

\* The inserts of a customer that have not arrived, or have failed unnoticed.
UnderWay(c) == {e \in sent \ journal : e.customer = c}

(* The journal agrees with the table, and lacks no outcome but for inserts *)
(* that failed or are late: both sides of a token find how it ended, the   *)
(* owner and the customer whose device holds it, or the insert of their    *)
(* entry was sent; unless the request died or the token just expired       *)
(* (token.ts:114, 195-196, 316-317; journal.ts:3-35).                      *)
JournalComplete ==
    /\ JournalAgrees
    /\ Quiet => \A t \in TokenId \ orphaned :
         token[t].state \in {"DELETED", "LOCKED"} \cup ConfirmStates =>
           \A c \in {Owner(t)} \cup
                    (IF token[t].lock = NoDevice THEN {} ELSE {DeviceCustomer[token[t].lock]}) :
             c \in Observed =>
               \E e \in GetJournal(c) \cup UnderWay(c) :
                  e.token = t /\ e.state = token[t].state
=============================================================================
