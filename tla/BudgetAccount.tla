---------------------------- MODULE BudgetAccount ----------------------------
(***************************************************************************)
(* What the budget of a virtual key promises (the BudgetStore trait of     *)
(* crates/kong-ai/src/budget/store.rs and the governance of accounts),     *)
(* without counters, revisions, checkpoints, fingerprints, clocks or       *)
(* retries: a request is prepared and sent under the authority of a        *)
(* session, and closed once, by the session, by maintenance or by an       *)
(* administrator, at one charge that enters the account.  BudgetLedger is  *)
(* shown to implement it.                                                  *)
(***************************************************************************)
EXTENDS Integers, FiniteSets

CONSTANTS Keys, Requests, KeyOf, Sessions, ConfigOf, MaxAmount, None

VARIABLES
  standing,   \* per key: "absent", "present", "deleted"
  limit,      \* per key: None while the budget is paused
  spent,      \* per key
  phase,      \* per request: "new", "prepared", "sent", "question", "closed"
  holder,     \* per request: the session that prepared it
  charge,     \* per request: 0 until it is closed
  closer,     \* per request: who closed it
  terms,      \* the configuration in force
  authority   \* per session: "new", "alive", "gone"

requestVars == <<phase, holder, charge, closer>>
accountVars == <<standing, limit, spent>>
vars == <<accountVars, requestVars, terms, authority>>

Amount == 0..MaxAmount
Open(k) == {r \in Requests : KeyOf[r] = k /\ phase[r] \in {"prepared", "sent", "question"}}
Questions(k) == {r \in Requests : KeyOf[r] = k /\ phase[r] = "question"}
Alive == {s \in Sessions : authority[s] = "alive"}
Abandoned(r) == authority[holder[r]] = "gone"

Init ==
  /\ standing = [k \in Keys |-> "absent"]
  /\ limit = [k \in Keys |-> None]
  /\ spent = [k \in Keys |-> 0]
  /\ phase = [r \in Requests |-> "new"]
  /\ holder = [r \in Requests |-> None]
  /\ charge = [r \in Requests |-> 0]
  /\ closer = [r \in Requests |-> None]
  /\ terms = None
  /\ authority = [s \in Sessions |-> "new"]

-----------------------------------------------------------------------------

(* All living sessions work under the same terms, and the dead stay dead. *)
Enter(s) ==
  /\ authority[s] = "new"
  /\ terms \in {None, ConfigOf[s]} \/ Alive = {}
  /\ terms' = ConfigOf[s]
  /\ authority' = [authority EXCEPT ![s] = "alive"]
  /\ UNCHANGED <<accountVars, requestVars>>

Lapse(S) ==
  /\ S # {} /\ S \subseteq Alive
  /\ authority' = [s \in Sessions |-> IF s \in S THEN "gone" ELSE authority[s]]
  /\ UNCHANGED <<accountVars, requestVars, terms>>

(* Accounts; none is paused or deleted while a request of it is open. *)
Grant(k, l) ==
  /\ standing[k] = "absent"
  /\ standing' = [standing EXCEPT ![k] = "present"]
  /\ limit' = [limit EXCEPT ![k] = l]
  /\ UNCHANGED <<spent, requestVars, terms, authority>>

Amend(k, l) ==
  /\ standing[k] = "present"
  /\ l = None /\ limit[k] # None => Open(k) = {}
  /\ limit' = [limit EXCEPT ![k] = l]
  /\ UNCHANGED <<standing, spent, requestVars, terms, authority>>

Delete(k) ==
  /\ standing[k] = "present"
  /\ Open(k) = {}
  /\ standing' = [standing EXCEPT ![k] = "deleted"]
  /\ UNCHANGED <<limit, spent, requestVars, terms, authority>>

(* A request is taken on by a living session, while the account has no open  *)
(* question and has not spent its limit.                                     *)
Prepare(r, s) ==
  LET k == KeyOf[r] IN
  /\ phase[r] = "new"
  /\ standing[k] = "present" /\ limit[k] # None /\ spent[k] < limit[k]
  /\ Questions(k) = {}
  /\ s \in Alive /\ terms = ConfigOf[s]
  /\ phase' = [phase EXCEPT ![r] = "prepared"]
  /\ holder' = [holder EXCEPT ![r] = s]
  /\ UNCHANGED <<accountVars, charge, closer, terms, authority>>

Send(r) ==
  /\ phase[r] = "prepared"
  /\ holder[r] \in Alive
  /\ phase' = [phase EXCEPT ![r] = "sent"]
  /\ UNCHANGED <<accountVars, holder, charge, closer, terms, authority>>

(* The cost of a request is not known, or does not fit the account. *)
Ask(r) ==
  /\ standing[KeyOf[r]] = "present"
  /\ phase[r] \in {"prepared", "sent"}
  /\ phase' = [phase EXCEPT ![r] = "question"]
  /\ UNCHANGED <<accountVars, holder, charge, closer, terms, authority>>

(* A request is closed once, and its charge enters the account once.  What   *)
(* was never sent is free; maintenance closes only what was never sent, and  *)
(* administrators only what nobody works on any more.                        *)
MayClose(r, who, amount) ==
  CASE who = "session" -> phase[r] = "prepared" => amount = 0
    [] who = "maintenance" -> phase[r] = "prepared" /\ Abandoned(r) /\ amount = 0
    [] who = "administrator" -> phase[r] = "question" \/ Abandoned(r)

Close(r, who, amount) ==
  LET k == KeyOf[r] IN
  /\ standing[k] = "present"
  /\ phase[r] \in {"prepared", "sent", "question"}
  /\ MayClose(r, who, amount)
  /\ spent[k] + amount <= MaxAmount
  /\ spent' = [spent EXCEPT ![k] = @ + amount]
  /\ phase' = [phase EXCEPT ![r] = "closed"]
  /\ charge' = [charge EXCEPT ![r] = amount]
  /\ closer' = [closer EXCEPT ![r] = who]
  /\ UNCHANGED <<standing, limit, holder, terms, authority>>

Next ==
  \/ \E s \in Sessions : Enter(s)
  \/ \E S \in SUBSET Sessions : Lapse(S)
  \/ \E k \in Keys :
       Delete(k) \/ \E l \in Amount \cup {None} : Grant(k, l) \/ Amend(k, l)
  \/ \E r \in Requests :
       \/ \E s \in Sessions : Prepare(r, s)
       \/ Send(r)
       \/ Ask(r)
       \/ \E who \in {"session", "maintenance", "administrator"}, amount \in Amount :
            Close(r, who, amount)

Spec == Init /\ [][Next]_vars
=============================================================================
