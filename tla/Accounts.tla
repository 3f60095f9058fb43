------------------------------ MODULE Accounts -------------------------------
(***************************************************************************)
(* Local accounts: first-run setup, creating, renaming and removing        *)
(* accounts, signing in with a progressive lockout.                        *)
(*                                                                         *)
(* Code: backend/app/users/service.py, users/router.py, auth/service.py,   *)
(* auth/router.py, auth/dependencies.py, models/user.py.                   *)
(*                                                                         *)
(* Every request checks what it has read and commits later, in a READ      *)
(* COMMITTED transaction that locks nothing: between the two another       *)
(* request may commit.  Only the UNIQUE constraint on user.email is checked*)
(* by the commit itself.  Passwords are right or wrong; the clock counts   *)
(* in units of lockout_base_seconds.                                       *)
(***************************************************************************)
EXTENDS Integers, FiniteSets

CONSTANTS
  Users,               \* user rows, by primary key
  Emails,              \* e-mail addresses
  Calls,               \* API requests that may be under way at a time
  MaxFailedAttempts,   \* max_failed_login_attempts
  MaxLockout,          \* lockout_max_seconds / lockout_base_seconds
  MaxAttempts          \* bound on failed_login_attempts

\* What the proofs ask of the constants.
AccountsAssumption ==
  /\ IsFiniteSet(Users) /\ Emails # {}
  /\ MaxFailedAttempts \in Nat /\ MaxLockout \in Nat /\ MaxAttempts \in Nat

VARIABLES
  user,       \* [Users -> row]
  call,       \* what each request is doing
  lastLock,   \* history: length of the account's last lock since it last signed in
  overlapped  \* history: accounts two sign-ins of which overlapped, Removals if two of them did

accountVars == <<user, call, lastLock, overlapped>>

\* `locked_until` is what is left of the lock: 0 when it is past, Null when there is none.
Null == -1
UserRows == [deactivated_at : {"absent", "null", "set"}, email : Emails,
             failed_login_attempts : 0..MaxAttempts, locked_until : Null..MaxLockout]

Exists(u) == user[u].deactivated_at # "absent"
Active(u) == user[u].deactivated_at = "null"
ActiveCount == Cardinality({u \in Users : Active(u)})

EmailTaken(e, excluded) == \E u \in Users \ excluded : Active(u) /\ user[u].email = e

\* A mutant of EmailConflict: a partial index that leaves removed accounts out.
EmailConflictActive(u, e) == \E v \in Users \ {u} : Active(v) /\ user[v].email = e

\* UNIQUE(email) spans removed accounts as well.
EmailConflict(u, e) == \E v \in Users \ {u} : Exists(v) /\ user[v].email = e

\* A request at rest, or: what it is about to commit to row `u`, given what it has read.
Done == [op |-> "none"]
Writes ==
  [op : {"setup", "create", "rename"}, u : Users, email : Emails]
  \cup [op : {"deactivate"}, u : Users]
  \cup [op : {"login"}, u : Users, attempts : 0..MaxAttempts, past : BOOLEAN]

Removals == "removals"
UnderWay(op) == {call[c].u : c \in {d \in Calls : call[d].op = op}}

Begin(c, write) ==
  /\ call[c] = Done
  /\ call' = [call EXCEPT ![c] = write]
  /\ overlapped' = overlapped
       \cup (IF write.op = "login" THEN {write.u} \cap UnderWay("login") ELSE {})
       \cup (IF write.op = "deactivate" /\ UnderWay("deactivate") # {} THEN {Removals} ELSE {})
  /\ UNCHANGED <<user, lastLock>>

\* get_current_user: every request but setup and login is some active account's.
Authenticated == \E actor \in Users : Active(actor)

-----------------------------------------------------------------------------
(* What the requests read and check.  A check that fails answers an error and changes nothing;
   a new row has a key of its own. *)

Unused(u) == ~Exists(u) /\ \A c \in Calls : call[c] # Done => call[c].u # u

BeginSetup(c, u, e) ==
  /\ \A v \in Users : ~Exists(v)
  /\ Unused(u)
  /\ Begin(c, [op |-> "setup", u |-> u, email |-> e])

BeginCreate(c, u, e) ==
  /\ Authenticated /\ Unused(u) /\ ~EmailTaken(e, {})
  /\ Begin(c, [op |-> "create", u |-> u, email |-> e])

BeginRename(c, u, e) ==
  /\ Active(u) /\ e # user[u].email /\ ~EmailTaken(e, {u})
  /\ Begin(c, [op |-> "rename", u |-> u, email |-> e])

\* A mutant of BeginDeactivate: the account to remove is counted as one that remains.
BeginDeactivateLast(c, u) ==
  /\ Active(u) /\ ActiveCount >= 1
  /\ Begin(c, [op |-> "deactivate", u |-> u])

BeginDeactivate(c, u) ==
  /\ Active(u) /\ ActiveCount > 1
  /\ Begin(c, [op |-> "deactivate", u |-> u])

BeginLogin(c, u) ==
  /\ Active(u) /\ user[u].locked_until <= 0
  /\ Begin(c, [op |-> "login", u |-> u, attempts |-> user[u].failed_login_attempts,
               past |-> user[u].locked_until # Null])

-----------------------------------------------------------------------------
(* The commits. *)

NewUser(e) == [deactivated_at |-> "null", email |-> e, failed_login_attempts |-> 0,
               locked_until |-> Null]

Ends(c) == call' = [call EXCEPT ![c] = Done]

\* An IntegrityError is not caught: the request ends with a 500 and nothing is stored.
CommitAccount(c) ==
  /\ call[c].op \in {"setup", "create"}
  /\ user' = IF EmailConflict(call[c].u, call[c].email) THEN user
             ELSE [user EXCEPT ![call[c].u] = NewUser(call[c].email)]
  /\ Ends(c)
  /\ UNCHANGED <<lastLock, overlapped>>

CommitRename(c) ==
  /\ call[c].op = "rename"
  /\ user' = IF EmailConflict(call[c].u, call[c].email) THEN user
             ELSE [user EXCEPT ![call[c].u].email = call[c].email]
  /\ Ends(c)
  /\ UNCHANGED <<lastLock, overlapped>>

CommitDeactivate(c) ==
  /\ call[c].op = "deactivate"
  /\ user' = [user EXCEPT ![call[c].u].deactivated_at = "set"]
  /\ Ends(c)
  /\ UNCHANGED <<lastLock, overlapped>>

\* 2**n, as a function that can be reasoned about.
Doubled[n \in Nat] == IF n = 0 THEN 1 ELSE 2 * Doubled[n - 1]

\* A mutant of LockoutSeconds: the exponent has the wrong sign.
LockoutSecondsHalved(attempts) ==
  IF attempts < MaxFailedAttempts THEN 0
  ELSE MaxLockout \div Doubled[attempts - MaxFailedAttempts]

\* _lockout_seconds: nothing below the limit, then the base doubled for every attempt beyond it.
LockoutSeconds(attempts) ==
  IF attempts < MaxFailedAttempts THEN 0
  ELSE LET doubled == Doubled[attempts - MaxFailedAttempts]
       IN IF doubled < MaxLockout THEN doubled ELSE MaxLockout

\* The wrong password: the session's count goes up by one, and may lock the account.
CommitFailure(c) ==
  /\ call[c].op = "login" /\ call[c].attempts < MaxAttempts
  /\ LET u == call[c].u
         attempts == call[c].attempts + 1
         lockout == LockoutSeconds(attempts)
     IN /\ user' = [user EXCEPT ![u].failed_login_attempts = attempts,
                                ![u].locked_until = IF lockout > 0 THEN lockout ELSE @]
        /\ lastLock' = [lastLock EXCEPT ![u] = IF lockout > 0 THEN lockout ELSE @]
  /\ Ends(c)
  /\ UNCHANGED overlapped

\* The right one: count and lock are reset, where they differ from what the session has read.
CommitLogin(c) ==
  /\ call[c].op = "login"
  /\ LET u == call[c].u IN
       /\ user' = [user EXCEPT ![u].failed_login_attempts = IF call[c].attempts > 0 THEN 0 ELSE @,
                               ![u].locked_until = IF call[c].past THEN Null ELSE @]
       /\ lastLock' = [lastLock EXCEPT ![u] = 0]
  /\ Ends(c)
  /\ UNCHANGED overlapped

\* Time passes.
ClockTick ==
  /\ \E u \in Users : user[u].locked_until > 0
  /\ user' = [u \in Users |-> [user[u] EXCEPT !.locked_until = IF @ > 0 THEN @ - 1 ELSE @]]
  /\ UNCHANGED <<call, lastLock, overlapped>>

-----------------------------------------------------------------------------
Init ==
  /\ user = [u \in Users |-> [NewUser(CHOOSE e \in Emails : TRUE) EXCEPT
                               !.deactivated_at = "absent"]]
  /\ call = [c \in Calls |-> Done]
  /\ lastLock = [u \in Users |-> 0]
  /\ overlapped = {}

Next ==
  \/ \E c \in Calls, u \in Users :
       \/ BeginDeactivate(c, u) \/ BeginLogin(c, u)
       \/ \E e \in Emails : BeginSetup(c, u, e) \/ BeginCreate(c, u, e) \/ BeginRename(c, u, e)
  \/ \E c \in Calls :
       \/ CommitAccount(c) \/ CommitRename(c) \/ CommitDeactivate(c)
       \/ CommitFailure(c) \/ CommitLogin(c)
  \/ ClockTick

Spec == Init /\ [][Next]_accountVars

-----------------------------------------------------------------------------
TypeOK ==
  /\ user \in [Users -> UserRows]
  /\ call \in [Calls -> Writes \cup {Done}]
  /\ lastLock \in [Users -> 0..MaxLockout]
  /\ overlapped \subseteq Users \cup {Removals}

\* "At least one local account must remain" (users/service.py:113): once there is an account,
\* some account can sign in (setup is closed for good by then, so nobody else could), whatever
\* overlaps but two removals.  Those may remove each other's last one.
AccountRemains ==
  Removals \notin overlapped /\ (\E u \in Users : Exists(u)) => ActiveCount > 0

\* Signing in looks the e-mail up among all rows, removed accounts included, and takes the one
\* it finds: no two rows may share an e-mail, whatever requests overlap.
EmailIdentifies ==
  \A u, v \in Users : Exists(u) /\ Exists(v) /\ user[u].email = user[v].email => u = v

\* Progressive lockout: no lock of an account is shorter than the one before it, until it signs
\* in, whatever overlaps but two sign-ins to it (the later commit writes a count it has read
\* before the other's).
LockoutProgresses ==
  [][\A u \in Users \ overlapped :
       lastLock'[u] \in {0} \cup lastLock[u]..MaxLockout]_accountVars
=============================================================================
