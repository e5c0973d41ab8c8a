----------------------------- MODULE UnitOfWork -----------------------------
(***************************************************************************)
(* The rows of the user service and the transactions that change them, one *)
(* per request: a row is loaded, a copy of it changed, the row read again  *)
(* by save and what differs from the copy written, with the commit.        *)
(*                                                                         *)
(* READ COMMITTED: every read sees what is committed.  Statements that     *)
(* change rows are sent with the commit that follows them and share its    *)
(* step.                                                                   *)
(***************************************************************************)
EXTENDS Naturals, FiniteSets

CONSTANTS
  Person, Dept, Role, Tenant,  \* identifiers (uuid4: never handed out twice)
  Slot,                        \* requests in progress at the same time
  Environment,                 \* the kinds of environment a behaviour may have
  Null

Id == Person \cup Dept \cup Role \cup Tenant

ASSUME IdAssumption ==
  /\ Null \notin Id
  /\ Person \cap (Dept \cup Role \cup Tenant) = {} /\ Dept \cap (Role \cup Tenant) = {}
  /\ Role \cap Tenant = {}

VARIABLES
  env,   \* the calls clients make, whether they overlap, whether Redis, the
         \* database or a process may fail; never changes
  row,   \* row[x]: the row of x
  slot   \* slot[p]: the request in slot p

Idle == [stage |-> "idle"]
NoRow == [deleted |-> FALSE]

At(p, stage) == slot[p].stage = stage
End(p) == slot' = [slot EXCEPT ![p] = Idle]

\* Mutant: soft-deleted rows are found.
GetDeletedById(x) == row[x] # NoRow

\* get_by_id of every repository: users go by their status
GetById(x) == row[x] # NoRow /\ ~row[x].deleted

\* A request that passed its checks.
Begin(p, op) ==
  /\ op \in env.calls /\ At(p, "idle")
  /\ env.overlap \/ \A q \in Slot : At(q, "idle")

\* It has loaded x and changed its copy to new.
Load(p, op, x, new) ==
  /\ Begin(p, op) /\ GetById(x)
  /\ slot' = [slot EXCEPT ![p] = [stage |-> "save", op |-> op, id |-> x,
                                  loaded |-> row[x], base |-> row[x], new |-> new]]

\* It has added a row, or marked x as deleted.
Add(p, op, x, new) ==
  /\ Begin(p, op) /\ row[x] = NoRow
  /\ \A q \in Slot : ~At(q, "idle") => slot[q].id # x
  /\ slot' = [slot EXCEPT ![p] = [stage |-> "commit", op |-> op, id |-> x,
                                  loaded |-> NoRow, base |-> NoRow, new |-> new]]
Mark(p, op, x) ==
  /\ Begin(p, op) /\ GetById(x)
  /\ slot' = [slot EXCEPT ![p] = [stage |-> "commit", op |-> op, id |-> x, loaded |-> row[x],
                                  base |-> row[x], new |-> [row[x] EXCEPT !.deleted = TRUE]]]

\* save gets the record a second time: the session still has it, or has let
\* it go and reads the row again.
Save(p) ==
  /\ At(p, "save")
  /\ \E base \in {slot[p].loaded, row[slot[p].id]} :
       slot' = [slot EXCEPT ![p].stage = "commit", ![p].base = base]

\* The columns in which the copy differs from the record are written.
Written(p) ==
  LET c == slot[p]
  IN IF c.base = NoRow THEN c.new
     ELSE [f \in DOMAIN c.new |-> IF c.new[f] # c.base[f] THEN c.new[f] ELSE row[c.id][f]]

\* The row becomes r; what is left to do goes on with the copy.
Commit(p, r, stage) ==
  /\ At(p, "commit")
  /\ row' = [row EXCEPT ![slot[p].id] = r]
  /\ slot' = [slot EXCEPT ![p] = IF stage = "idle" THEN Idle ELSE [@ EXCEPT !.stage = stage]]

\* An error, or the death of the process: the transaction is rolled back, or
\* what follows it does not happen.
Dies(p) == env.faults /\ ~At(p, "idle") /\ End(p) /\ UNCHANGED <<env, row>>
=============================================================================
