----------------------------- MODULE HoldSweeper -----------------------------
(***************************************************************************)
(* Expiry of holds.  Clients place, settle and void holds through the      *)
(* ledger; the consumer projects the log into the holds table some time    *)
(* later; sweepers, any number at once, look up overdue holds in that      *)
(* table, read the payer's version and execute ExpireHold under a command  *)
(* id derived from the hold; retention deletes old command results.  A     *)
(* sweeper keeps nothing on disk: one that is killed is one that takes no  *)
(* further step, and its restart is another sweeper.                       *)
(*                                                                         *)
(* Commands are atomic here, which CommandUow justifies.  Retention waits  *)
(* for a result to be a week old; in the model any stored result may be    *)
(* that old.                                                               *)
(***************************************************************************)
EXTENDS AccountDomain

CONSTANTS
  Requests, Genesis, MaxNow,  \* as in Ledger
  Sweeper,     \* runs of sweep_holds.py
  Alive,       \* the sweepers that are not killed
  ExpiryId,    \* expiry_command_id: per hold id, the sweepers' command id
  Pruning      \* is retention scheduled?

ASSUME SweeperAssumption ==
  /\ \A r \in Requests : r.id \in CommandId /\ ValidCommand(r.cmd)
  /\ DOMAIN ExpiryId \subseteq CommandId
  /\ \A h \in DOMAIN ExpiryId :
       /\ ExpiryId[h] \in CommandId
       /\ \A r \in Requests : r.id # ExpiryId[h]
       /\ \A k \in DOMAIN ExpiryId : ExpiryId[h] = ExpiryId[k] => h = k
  /\ Alive \subseteq Sweeper
  /\ Pruning \in BOOLEAN

VARIABLES
  log, results, now,  \* the ledger
  projected,  \* per account, how many of its events the holds table reflects
  pc,         \* per sweeper: idle, sweeping or about to execute
  todo,       \* the <<account, hold>> pairs its query returned, not yet visited
  chosen,     \* the pair it visits
  expects     \* the version it read for that pair

ledger == <<log, results, now>>
sweeps == <<pc, todo, chosen, expects>>
vars   == <<ledger, projected, sweeps>>

L == INSTANCE Ledger

Nothing == <<NoAccount, NoId>>

Init ==
  /\ L!Init
  /\ projected = [a \in Account |-> 0]
  /\ pc = [s \in Sweeper |-> "idle"]
  /\ todo = [s \in Sweeper |-> {}]
  /\ chosen = [s \in Sweeper |-> Nothing]
  /\ expects = [s \in Sweeper |-> 0]

-----------------------------------------------------------------------------
(* Everybody else *)

ClientExecutes(r) == L!Execute(r) /\ UNCHANGED <<projected, sweeps>>

Tick == L!Tick /\ UNCHANGED <<projected, sweeps>>

(* The consumer applies the next event of a stream to the holds table.        *)
Project(a) ==
  /\ projected[a] < Version(log[a])
  /\ projected' = [projected EXCEPT ![a] = @ + 1]
  /\ UNCHANGED <<ledger, sweeps>>

Prune(id) ==
  /\ Pruning
  /\ results[id] # L!NoResult
  /\ results' = [results EXCEPT ![id] = L!NoResult]
  /\ UNCHANGED <<log, now, projected, sweeps>>

-----------------------------------------------------------------------------
(* sweep *)

(* The row of hold h, as the projected events left it.                        *)
HoldRow(a, h) == OpenHold([i \in DOMAIN log[a] \cap 1..projected[a] |-> log[a][i]], h)

(* Mutant: a hold is due one tick after it expires.                           *)
DueHoldsLate ==
  {x \in Account \X DOMAIN ExpiryId :
     LET row == HoldRow(x[1], x[2]) IN row # NoHold /\ row.expires < now}

DueHolds ==
  {x \in Account \X DOMAIN ExpiryId :
     LET row == HoldRow(x[1], x[2]) IN row # NoHold /\ row.expires <= now}

(* open_holds_expired_at; a sweep that finds nothing changes nothing.         *)
Query(s) ==
  /\ pc[s] = "idle"
  /\ \E due \in {DueHolds} : due # {} /\ todo' = [todo EXCEPT ![s] = due]
  /\ pc' = [pc EXCEPT ![s] = "sweeping"]
  /\ UNCHANGED <<ledger, projected, chosen, expects>>

ReadVersion(s, x) ==
  /\ pc[s] = "sweeping"
  /\ x \in todo[s]
  /\ todo' = [todo EXCEPT ![s] = @ \ {x}]
  /\ chosen' = [chosen EXCEPT ![s] = x]
  /\ expects' = [expects EXCEPT ![s] = Version(log[x[1]])]
  /\ pc' = [pc EXCEPT ![s] = "execute"]
  /\ UNCHANGED <<ledger, projected>>

ExpireRequest(s) ==
  [id  |-> ExpiryId[chosen[s][2]],
   cmd |-> [kind |-> "ExpireHold", account |-> chosen[s][1],
            expected |-> expects[s], hold |-> chosen[s][2]]]

(* execute(): a stored result, its own or another version's, is the answer    *)
(* and nothing changes; otherwise the command is decided.                     *)
Expire(s) ==
  LET r == ExpireRequest(s)
  IN  /\ pc[s] = "execute"
      /\ IF results[r.id] # L!NoResult THEN UNCHANGED ledger ELSE L!Execute(r)
      /\ pc' = [pc EXCEPT ![s] = IF todo[s] = {} THEN "idle" ELSE "sweeping"]
      /\ chosen' = [chosen EXCEPT ![s] = Nothing]
      /\ expects' = [expects EXCEPT ![s] = 0]
      /\ UNCHANGED <<projected, todo>>

Sweep(s) == Query(s) \/ (\E x \in todo[s] : ReadVersion(s, x)) \/ Expire(s)

Next ==
  \/ Tick
  \/ \E r \in Requests : ClientExecutes(r)
  \/ \E a \in Account : Project(a)
  \/ \E id \in CommandId : Prune(id)
  \/ \E s \in Sweeper : Sweep(s)

Spec == Init /\ [][Next]_vars

(* The sweeper that is not killed and retention run on a schedule, consumers  *)
(* poll; clients and killed sweepers owe nothing.                             *)
FairSpec ==
  /\ Spec
  /\ \A s \in Alive : WF_vars(Sweep(s))
  /\ \A a \in Account : WF_vars(Project(a))
  /\ \A h \in DOMAIN ExpiryId : WF_vars(Prune(ExpiryId[h]))

-----------------------------------------------------------------------------
(* Properties *)

Closings(a, h) ==
  {i \in DOMAIN log[a] :
     /\ log[a][i].group = h
     /\ \/ log[a][i].type = "HoldPosted"
        \/ log[a][i].type = "HoldReleased" /\ log[a][i].reason # "partial"}

(* A hold ends once: sweepers working from an old table or an old version,    *)
(* racing each other, a settlement or a void, never release it a second time, *)
(* even after retention has forgotten the command that ended it.              *)
ClosedOnce ==
  \A a \in Account, h \in DOMAIN ExpiryId : Cardinality(Closings(a, h)) <= 1

(* A command resubmitted after retention dropped its result is decided anew,  *)
(* but never writes again: the events one command id wrote to a stream come   *)
(* from a single execution.                                                   *)
NeverRewritten ==
  \A a \in Account : \A i, j \in DOMAIN log[a] :
    i < j /\ log[a][i].cmd # NoId /\ log[a][i].cmd = log[a][j].cmd =>
      j = i + 1 /\ log[a][i].type # log[a][j].type

Overdue(a, h) ==
  OpenHold(log[a], h) # NoHold /\ OpenHold(log[a], h).expires <= now

(* docs/RUNBOOK.md on an expired hold: the next sweep releases it.  Every     *)
(* overdue hold is eventually closed, so no client's money stays reserved.    *)
HoldsExpire ==
  \A a \in Account, h \in DOMAIN ExpiryId : Overdue(a, h) ~> ~Overdue(a, h)
=============================================================================
