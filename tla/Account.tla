------------------------------ MODULE Account ------------------------------
(* The bank accounts of one customer and the one among them that clearing  *)
(* rows name (business/account.ts).  Every change is followed by a check   *)
(* that repairs the default; all of it are single statements, and the      *)
(* requests of a customer interleave.                                      *)
EXTENDS FiniteSets

CONSTANTS AccountId,
          Change,      \* requests of the customer, each made once
          NoAccount

VARIABLES account,   \* default of each row of customer_account, or "absent"
          unused,    \* ids that were never given out
          change,    \* what each request is about and waits for
          alone      \* history: requests that no other has overlapped

vars == <<account, unused, change, alone>>

Rows == {i \in AccountId : account[i] # "absent"}
Defaults == {i \in Rows : account[i] = "1"}
Active(r) == change[r].pc \notin {"idle", "done", "failed"}
Others(r) == {q \in Change \ {r} : Active(q)}

\* Any state that earlier requests have left: one default, if any account.
Init == /\ account \in [AccountId -> {"absent", "0", "1"}]
        /\ Rows # {} => Cardinality(Defaults) = 1
        /\ unused = AccountId \ Rows
        /\ change = [r \in Change |->
                       [pc |-> "idle", id |-> NoAccount, default |-> "none", wish |-> NoAccount]]
        /\ alone = [r \in Change |-> TRUE]

Goto(r, pc) == change' = [change EXCEPT ![r].pc = pc]

\* wish: history, the account an update is to make the default.
Begin(r, i, value, wish, pc) ==
    /\ change[r].pc = "idle"
    /\ change' = [change EXCEPT ![r] = [pc |-> pc, id |-> i, default |-> value, wish |-> wish]]
    /\ alone' = [q \in Change |-> IF Others(r) # {} /\ (q = r \/ Active(q))
                                  THEN FALSE ELSE alone[q]]
    /\ UNCHANGED account

\* POST /accounts, and DELETE and PUT /accounts/:id with any id.  The default
\* of an update: absent, 0, 1, or something that equals 1 in the database
\* without being the number ("true").  The body may name any column, and with
\* another customer_id the account goes "away", to that customer.
Create(r) == \E i \in unused, value \in {"0", "1"} :
    /\ Begin(r, i, value, NoAccount, "insert")
    /\ unused' = unused \ {i}
Delete(r) == \E i \in AccountId :
    /\ Begin(r, i, "none", NoAccount, "delete")
    /\ UNCHANGED unused
\* Mutant: the default is unset in a statement of the repair only.
UpdateWithoutClear(r) == \E i \in AccountId, value \in {"none", "0", "1", "true"} :
    /\ Begin(r, i, value, IF value = "1" THEN i ELSE NoAccount, "write")
    /\ UNCHANGED unused
Update(r) == \E i \in AccountId :
    /\ \/ Begin(r, i, "1", i, "clear")
       \/ Begin(r, i, "away", NoAccount, "clear")
       \/ \E value \in {"none", "0", "true", "away"} : Begin(r, i, value, NoAccount, "write")
    /\ UNCHANGED unused

Insert(r) == /\ change[r].pc = "insert"
             /\ account' = [account EXCEPT ![change[r].id] = change[r].default]
             /\ Goto(r, "count")
             /\ UNCHANGED <<unused, alone>>

\* Mutant: a deletion is not followed by the check.
RemoveUnchecked(r) == /\ change[r].pc = "delete"
                      /\ account' = [account EXCEPT ![change[r].id] = "absent"]
                      /\ Goto(r, "done")
                      /\ UNCHANGED <<unused, alone>>

Remove(r) == /\ change[r].pc = "delete"
             /\ account' = [account EXCEPT ![change[r].id] = "absent"]
             /\ Goto(r, "count")
             /\ UNCHANGED <<unused, alone>>

\* update customer_account set default=0: in updateAccount and in the repair
Unset == account' = [i \in AccountId |-> IF i \in Rows THEN "0" ELSE "absent"]
Clear(r) == /\ change[r].pc = "clear"
            /\ Unset
            /\ Goto(r, "write")
            /\ UNCHANGED <<unused, alone>>

\* The fields of the request, or the row that the repair has read.
Write(r) == LET i == change[r].id
                value == change[r].default IN
            /\ change[r].pc = "write"
            /\ account' = [account EXCEPT ![i] =
                 IF i \notin Rows \/ value = "none" THEN @
                 ELSE CASE value = "0" -> "0" [] value = "away" -> "absent" [] OTHER -> "1"]
            /\ Goto(r, "count")
            /\ UNCHANGED <<unused, alone>>

\* assertDefaultAccount: none or more than one default starts the repair.
Count(r) == /\ change[r].pc = "count"
            /\ Goto(r, IF Cardinality(Defaults) = 1 THEN "done" ELSE "unset")
            /\ UNCHANGED <<account, unused, alone>>

UnsetAll(r) == /\ change[r].pc = "unset"
               /\ Unset
               /\ Goto(r, "list")
               /\ UNCHANGED <<unused, alone>>

\* Mutant: the repair writes the row back as it was read.
ListUnchanged(r) ==
    /\ change[r].pc = "list"
    /\ \/ Rows = {} /\ Goto(r, "done")
       \/ \E i \in Rows :
            change' = [change EXCEPT ![r].pc = "write", ![r].id = i, ![r].default = account[i]]
    /\ UNCHANGED <<account, unused, alone>>

\* The first account of the list, whichever the database names first, gets
\* default=1 and goes through updateAccount, which clears, writes and checks.
List(r) == /\ change[r].pc = "list"
           /\ \/ Rows = {} /\ Goto(r, "done")
              \/ \E i \in Rows :
                   change' = [change EXCEPT ![r].pc = "clear", ![r].id = i, ![r].default = "1"]
           /\ UNCHANGED <<account, unused, alone>>

\* A statement fails, or the process dies: what was written stays.
Fail(r) == /\ Active(r)
           /\ Goto(r, "failed")
           /\ UNCHANGED <<account, unused, alone>>

Continue(r) == \/ Insert(r) \/ Remove(r) \/ Clear(r) \/ Write(r)
               \/ Count(r) \/ UnsetAll(r) \/ List(r)

Next == \E r \in Change : Create(r) \/ Delete(r) \/ Update(r) \/ Continue(r) \/ Fail(r)

Spec == Init /\ [][Next]_vars
FairSpec == Spec /\ \A r \in Change : WF_vars(Continue(r))

-----------------------------------------------------------------------------
Step == {"idle", "insert", "delete", "clear", "write", "count", "unset", "list",
         "done", "failed"}
TypeOK == /\ account \in [AccountId -> {"absent", "0", "1"}]
          /\ unused \subseteq AccountId
          /\ change \in [Change -> [pc : Step, id : AccountId \cup {NoAccount},
                                    default : {"none", "0", "1", "true", "away"},
                                    wish : AccountId \cup {NoAccount}]]
          /\ alone \in [Change -> BOOLEAN]

(* When nothing is under way, a clearing row finds the one account it is   *)
(* to name, however the changes before it have interleaved and whatever    *)
(* they have left to each other to repair (account.ts:54-70,               *)
(* clearing.ts:7-8).  This is so as long as no other customer moves an     *)
(* account here (account.ts:44), which nobody would repair.                *)
QuietHasDefault ==
    /\ \A r \in Change : ~Active(r) /\ change[r].pc # "failed"
    /\ Rows # {}
    => Cardinality(Defaults) = 1

(* A customer who makes an account the default while nobody else changes   *)
(* anything gets that account, not the one a repair would choose           *)
(* (account.ts:41-44).                                                     *)
ChosenIsDefault == [][\A r \in Change :
    /\ change[r].pc = "count" /\ change'[r].pc = "done"
    /\ change[r].wish \in Rows /\ alone[r]
    => account[change[r].wish] = "1"]_vars

(* A repair ends, although it calls the update that calls the repair,      *)
(* unless other requests undo it again and again (account.ts:47, 64).      *)
RepairEnds == \A r \in Change : Active(r) ~> ~Active(r) \/ Others(r) # {}
=============================================================================
