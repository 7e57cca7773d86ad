------------------------------ MODULE UserAdmin ------------------------------
(***************************************************************************)
(* One user's account in the Cognito user pool, row and factory grants in  *)
(* the database (routers/admin_users.py), and requests to create, update   *)
(* and delete the user.  A request is one transaction under READ           *)
(* COMMITTED: statements see what is committed when they start, rows stay  *)
(* locked until the end, and Cognito takes part in no transaction.         *)
(***************************************************************************)
EXTENDS Integers, FiniteSets

CONSTANTS Requests,  \* request identifiers
          Factories,
          MaxFaults  \* bound: commits that fail

NoSub == 0
NoRow == [sub |-> NoSub, status |-> "none"]

VARIABLES account,  \* the sub of the account of the user's e-mail address
          subs,     \* how many accounts there were
          row,      \* the row of this address: its account's sub, its status
          grants,
          rowLock,  \* the request that has the row or its address locked
          grantsLock,
          request,  \* [op, at, read: the row it found, seen: grants a statement
          faults    \*   started on, asked: grants to set, sub: to insert]

user == <<account, subs, row, grants>>
locks == <<rowLock, grantsLock>>
vars == <<user, locks, request, faults>>

Nobody == "nobody"

\* A user with an account, and a row an earlier version disabled
Init ==
  /\ account = 1 /\ subs = 1
  /\ row \in [sub : {1}, status : {"active", "disabled"}]
  /\ grants = Factories
  /\ rowLock = Nobody /\ grantsLock = Nobody
  /\ request = [r \in Requests |-> [op |-> "none", at |-> "none", read |-> NoRow,
                                    seen |-> {}, asked |-> {}, sub |-> NoSub]]
  /\ faults = 0

Goto(r, at) == request' = [request EXCEPT ![r].at = at]

Unlocked(r, lock) == IF lock = r THEN Nobody ELSE lock

\* The transaction is rolled back, or had changed nothing.
End(r) ==
  /\ Goto(r, "ended")
  /\ rowLock' = Unlocked(r, rowLock) /\ grantsLock' = Unlocked(r, grantsLock)

At(r, at) == request[r].at = at
Free(r, lock) == lock \in {Nobody, r}

-----------------------------------------------------------------------------
\* The request finds the row.  One to create an active user is refused; one
\* to update or delete names the user by the row's id.
First(op) == [create |-> IF row = NoRow THEN "account" ELSE "cleanup",
              update |-> "grants", rename |-> "rename", delete |-> "delete account"][op]

Begin(r, op, asked) ==
  /\ At(r, "none")
  /\ IF op = "create" THEN row.status # "active" ELSE row # NoRow
  /\ request' = [request EXCEPT ![r] =
       [op |-> op, at |-> First(op), read |-> row, seen |-> {}, asked |-> asked, sub |-> NoSub]]
  /\ UNCHANGED <<user, locks, faults>>

\* create_user(): the account of a disabled user goes first, if there is one
CleanUp(r) ==
  /\ At(r, "cleanup")
  /\ account' = NoSub
  /\ Goto(r, "grants")
  /\ UNCHANGED <<subs, row, grants, locks, faults>>

\* delete_user(): without an account it ends, the row unchanged.
DeleteAccount(r) ==
  /\ At(r, "delete account")
  /\ account' = NoSub
  /\ IF account = NoSub THEN End(r)
     ELSE Goto(r, "grants") /\ UNCHANGED locks
  /\ UNCHANGED <<subs, row, grants, faults>>

\* The flush of a changed attribute of the user.  A row that is gone is an
\* error.
Rename(r) ==
  /\ At(r, "rename") /\ Free(r, rowLock)
  /\ IF row.sub # request[r].read.sub THEN End(r)
     ELSE rowLock' = r /\ Goto(r, "grants") /\ UNCHANGED grantsLock
  /\ UNCHANGED <<user, faults>>

After(r) == IF request[r].op \in {"update", "rename"} THEN "commit" ELSE "row"

\* DELETE of the grants of the row that was found: it waits for those another
\* request has changed, and does not see what that one puts in their place.
DeleteGrants(r) ==
  /\ At(r, "grants")
  /\ LET seen == IF row.sub = request[r].read.sub THEN grants ELSE {}
         waits == seen # {} /\ ~Free(r, grantsLock)
     IN /\ request' = [request EXCEPT ![r].seen = seen,
                                      ![r].at = IF waits THEN "waiting" ELSE After(r)]
        /\ grantsLock' = IF seen = {} \/ waits THEN grantsLock ELSE r
  /\ UNCHANGED <<user, rowLock, faults>>

HasWaited(r) ==
  /\ At(r, "waiting") /\ Free(r, grantsLock)
  /\ grantsLock' = r
  /\ Goto(r, After(r))
  /\ UNCHANGED <<user, rowLock, faults>>

\* DELETE of the row: nothing to delete if another has done that
DeleteRow(r) ==
  /\ At(r, "row") /\ Free(r, rowLock)
  /\ rowLock' = r
  /\ Goto(r, IF request[r].op = "create" THEN "account" ELSE "commit")
  /\ UNCHANGED <<user, grantsLock, faults>>

\* admin_create_user() and admin_get_user()
CreateAccount(r) ==
  /\ At(r, "account")
  /\ IF account # NoSub THEN End(r) /\ UNCHANGED <<account, subs>>
     ELSE /\ account' = subs + 1 /\ subs' = subs + 1
          /\ Goto(r, "profile") /\ UNCHANGED locks
  /\ UNCHANGED <<row, grants, faults>>

Profile(r) ==
  /\ At(r, "profile")
  /\ IF account = NoSub THEN End(r)
     ELSE /\ request' = [request EXCEPT ![r].at = "insert", ![r].sub = account]
          /\ UNCHANGED locks
  /\ UNCHANGED <<user, faults>>

\* The address is unique: INSERT waits for another's, and fails after it.
InsertRow(r) ==
  /\ At(r, "insert") /\ Free(r, rowLock)
  /\ IF row.sub # NoSub /\ row.sub # request[r].read.sub THEN End(r)
     ELSE rowLock' = r /\ Goto(r, "commit") /\ UNCHANGED grantsLock
  /\ UNCHANGED <<user, faults>>

Found(r) == row.sub = request[r].read.sub

\* What the transaction makes of row and grants
NewRow(r) ==
  CASE request[r].op = "create" -> [sub |-> request[r].sub, status |-> "active"]
    [] request[r].op = "delete" /\ Found(r) -> NoRow
    [] OTHER -> row

Kept(r) ==
  CASE request[r].op = "create" -> {}
    [] request[r].op = "delete" -> IF Found(r) THEN {} ELSE grants
    [] OTHER -> grants \ request[r].seen

\* Grants are unique and refer to a row: INSERT waits for the row's lock.
Insertable(r) ==
  \/ request[r].op = "create"
  \/ Found(r) /\ Kept(r) \cap request[r].asked = {}
  \/ request[r].asked = {}

Commit(r) ==
  /\ At(r, "commit")
  /\ request[r].asked # {} => Free(r, rowLock)
  /\ IF Insertable(r) THEN row' = NewRow(r) /\ grants' = Kept(r) \cup request[r].asked
     ELSE UNCHANGED <<row, grants>>
  /\ End(r)
  /\ UNCHANGED <<account, subs, faults>>

CommitFails(r) ==
  /\ At(r, "commit") /\ faults < MaxFaults
  /\ faults' = faults + 1
  /\ End(r)
  /\ UNCHANGED user

\* Two requests that wait for each other: PostgreSQL ends one of them.
Deadlocked(r) ==
  /\ At(r, "waiting") /\ rowLock = r /\ grantsLock \notin {Nobody, r}
  /\ At(grantsLock, "row")
  /\ \E victim \in {r, grantsLock} : End(victim)
  /\ UNCHANGED <<user, faults>>

Run(r) ==
  \/ CleanUp(r) \/ DeleteAccount(r) \/ Rename(r) \/ DeleteGrants(r) \/ HasWaited(r) \/ DeleteRow(r)
  \/ CreateAccount(r) \/ Profile(r) \/ InsertRow(r)
  \/ Commit(r) \/ CommitFails(r) \/ Deadlocked(r)

Next == \E r \in Requests :
  \/ \E op \in {"create", "update", "rename", "delete"}, asked \in SUBSET Factories :
       Begin(r, op, IF op = "delete" THEN {} ELSE asked)
  \/ Run(r)

Spec == Init /\ [][Next]_vars

-----------------------------------------------------------------------------
\* docs/changes/0031: what creating, deleting and changing users leaves behind
\* agrees in Cognito and RDS.  Whenever no request runs, an active row has its
\* account, and an account that has no row is none.
UsersConsistent ==
  (\A r \in Requests : request[r].at \in {"none", "ended"}) =>
    /\ row.status = "active" => account = row.sub
    /\ row = NoRow => account = NoSub
=============================================================================
