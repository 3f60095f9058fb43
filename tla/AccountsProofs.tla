--------------------------- MODULE AccountsProofs ----------------------------
(***************************************************************************)
(* TypeOK, EmailIdentifies, AccountRemains and LockoutProgresses hold of   *)
(* every instance of Accounts that satisfies AccountsAssumption.           *)
(*                                                                         *)
(* EmailIdentifies rests on removals being of rows that exist (TargetsExist)*)
(* and on the constraint the commits check.  AccountRemains speaks of the  *)
(* rows as they are when a removal commits, while the request has counted  *)
(* them when it began: RemovalIsSafe says that what it has counted on is   *)
(* still there, as long as no other removal overlaps.  LockoutProgresses   *)
(* follows from LockInv: the last lock of a row is no longer than the one  *)
(* its count stands for, and a longer count stands for no shorter lock.    *)
(***************************************************************************)
EXTENDS Accounts, FiniteSetTheorems, WellFoundedInduction, TLAPS

Removing(c) == call[c].op = "deactivate"

TargetsExist == \A c \in Calls : Removing(c) => Exists(call[c].u)

\* A removal under way is the only one, and leaves somebody.
RemovalIsSafe == Removals \notin overlapped => \A c \in Calls : Removing(c) =>
  /\ \A d \in Calls : Removing(d) => d = c
  /\ \E v \in Users : v # call[c].u /\ Active(v)

SomebodyRemains ==
  Removals \notin overlapped /\ (\E u \in Users : Exists(u)) => \E v \in Users : Active(v)

IInv == TypeOK /\ TargetsExist /\ EmailIdentifies /\ RemovalIsSafe /\ SomebodyRemains

-----------------------------------------------------------------------------
(* Counting *)

LEMMA ActiveCounted ==
  ASSUME AccountsAssumption
  PROVE  /\ ActiveCount > 0 <=> \E v \in Users : Active(v)
         /\ \A u \in Users : ActiveCount > 1 => \E v \in Users : v # u /\ Active(v)
<1> DEFINE actives == {u \in Users : Active(u)}
<1>1. IsFiniteSet(actives) /\ Cardinality(actives) \in Nat
  BY FS_Subset, FS_CardinalityType DEF AccountsAssumption
<1>2. ActiveCount > 0 <=> actives # {}
  BY <1>1, FS_EmptySet DEF ActiveCount
<1>3. ASSUME NEW u \in Users, ActiveCount > 1
      PROVE  \E v \in Users : v # u /\ Active(v)
  <2> SUFFICES ASSUME \A v \in Users : Active(v) => v = u
               PROVE  FALSE
    OBVIOUS
  <2>1. actives \subseteq {u} /\ IsFiniteSet({u}) /\ Cardinality({u}) = 1
    BY FS_Singleton
  <2>2. Cardinality(actives) <= 1
    BY <2>1, FS_Subset
  <2> QED
    BY <1>1, <1>3, <2>2 DEF ActiveCount
<1> QED
  BY <1>2, <1>3

-----------------------------------------------------------------------------
(* Powers of two: a recursive function is what its equation says, which is proved of tables of its
   first values. *)

LEMMA HasLeast ==
  ASSUME NEW S \in SUBSET Nat, S # {}
  PROVE  \E n \in S : \A m \in 0..(n - 1) : m \notin S
<1>1. PICK n \in S : \A m \in S : ~(<<m, n>> \in OpToRel(<, Nat))
  BY NatLessThanWellFounded, WFMin
<1>2. \A m \in 0..(n - 1) : <<m, n>> \in OpToRel(<, Nat)
  BY DEF OpToRel
<1> QED
  BY <1>1, <1>2

\* The first values of Doubled, as a table.
IsTable(g, n) == 
  /\ g \in [0..n -> Nat]
  /\ g[0] = 1
  /\ \A k \in 1..n : g[k] = 2 * g[k - 1]

LEMMA TablesAgree ==
  ASSUME NEW m \in Nat, NEW n \in Nat, NEW g, NEW h, IsTable(g, m), IsTable(h, n)
  PROVE  \A k \in 0..m \cap 0..n : g[k] = h[k]
<1> DEFINE differ == {k \in 0..m \cap 0..n : g[k] # h[k]}
<1> SUFFICES ASSUME differ # {} PROVE FALSE
  OBVIOUS
<1>1. differ \in SUBSET Nat
  OBVIOUS
<1>2. PICK k \in differ : \A l \in 0..(k - 1) : l \notin differ
  <2> HIDE DEF differ
  <2> QED BY <1>1, HasLeast
<1>3. k # 0
  BY DEF IsTable
<1>4. k - 1 \in 0..m /\ k - 1 \in 0..n /\ k \in 1..m /\ k \in 1..n /\ k - 1 \in 0..(k - 1)
  BY <1>3
<1>5. g[k - 1] = h[k - 1]
  BY <1>2, <1>4
<1>6. g[k] = h[k]
  BY <1>4, <1>5 DEF IsTable
<1> QED
  BY <1>6

LEMMA TablesExist == \A n \in Nat : \E g : IsTable(g, n)
<1> DEFINE missing == {n \in Nat : ~\E g : IsTable(g, n)}
<1> SUFFICES ASSUME missing # {} PROVE FALSE
  OBVIOUS
<1>1. PICK n \in missing : \A l \in 0..(n - 1) : l \notin missing
  <2>1. missing \in SUBSET Nat
    OBVIOUS
  <2> HIDE DEF missing
  <2> QED BY <2>1, HasLeast
<1>2. n # 0
  <2>1. IsTable([k \in 0..0 |-> 1], 0)
    BY DEF IsTable
  <2> QED
    BY <2>1
<1>3. PICK g : IsTable(g, n - 1)
  BY <1>1, <1>2
<1> DEFINE h == [k \in 0..n |-> IF k = n THEN 2 * g[n - 1] ELSE g[k]]
<1>4. g[n - 1] \in Nat /\ n \in Nat
  BY <1>2, <1>3 DEF IsTable
<1>5. h \in [0..n -> Nat] /\ h[0] = 1 
  BY <1>2, <1>3, <1>4 DEF IsTable
<1>6. \A k \in 1..n : h[k] = 2 * h[k - 1]
  <2> SUFFICES ASSUME NEW k \in 1..n PROVE h[k] = 2 * h[k - 1]
    OBVIOUS
  <2>1. CASE k = n
    BY <1>2, <1>4, <2>1
  <2>2. CASE k # n
    <3>1. k \in 1..(n - 1) /\ k \in 0..n /\ k - 1 \in 0..n /\ k - 1 # n
      BY <1>4, <2>2
    <3> QED BY <1>3, <2>2, <3>1 DEF IsTable
  <2> QED BY <2>1, <2>2
<1>7. IsTable(h, n)
  <2> HIDE DEF h
  <2> QED BY <1>5, <1>6 DEF IsTable
<1> QED
  BY <1>7

LEMMA DoubledDefined ==
  /\ Doubled \in [Nat -> Nat]
  /\ Doubled[0] = 1
  /\ \A n \in Nat : Doubled[n + 1] = 2 * Doubled[n]
<1> DEFINE table(n) == CHOOSE g : IsTable(g, n)
           f == [n \in Nat |-> table(n)[n]]
           Equation(g) == g = [n \in Nat |-> IF n = 0 THEN 1 ELSE 2 * g[n - 1]]
<1>1. \A n \in Nat : IsTable(table(n), n)
  BY TablesExist
<1> HIDE DEF table
<1>2. \A n \in Nat : f[n] \in Nat
  BY <1>1 DEF IsTable
<1>3. f[0] = 1
  BY <1>1 DEF IsTable
<1>4. ASSUME NEW n \in Nat, n # 0
      PROVE  f[n] = 2 * f[n - 1]
  <2>1. n - 1 \in Nat /\ n \in 1..n /\ n - 1 \in 0..n /\ n - 1 \in 0..(n - 1)
    BY <1>4
  <2>2. table(n)[n] = 2 * table(n)[n - 1]
    BY <1>1, <2>1 DEF IsTable
  <2>3. table(n)[n - 1] = table(n - 1)[n - 1]
    BY <1>1, <2>1, TablesAgree
  <2> QED
    BY <2>1, <2>2, <2>3
<1>5. Equation(f)
  <2> DEFINE body == [n \in Nat |-> IF n = 0 THEN 1 ELSE 2 * f[n - 1]]
  <2>1. \A n \in Nat : f[n] = body[n]
    <3> HIDE DEF f
    <3> QED BY <1>3, <1>4
  <2>2. f = [n \in Nat |-> f[n]] /\ body = [n \in Nat |-> body[n]]
    OBVIOUS
  <2> HIDE DEF f, body
  <2>3. f = body
    BY <2>1, <2>2
  <2> QED BY <2>3 DEF body
<1>6. Equation(CHOOSE g : Equation(g))
  <2> HIDE DEF Equation, f
  <2> QED BY <1>5
<1>7. Doubled = CHOOSE g : Equation(g)
  BY DEF Doubled
<1>8. Equation(Doubled)
  <2> HIDE DEF Equation
  <2> QED BY <1>6, <1>7
<1>9. Doubled[0] = 1
  BY <1>8
<1>10. \A n \in Nat : Doubled[n + 1] = 2 * Doubled[n]
  BY <1>8
<1>11. Doubled = [n \in Nat |-> Doubled[n]]
  BY <1>8
<1> DEFINE bad == {n \in Nat : Doubled[n] \notin Nat}
<1>12. bad = {}
  <2> SUFFICES ASSUME bad # {} PROVE FALSE
    OBVIOUS
  <2>1. bad \in SUBSET Nat
    OBVIOUS
  <2>2. PICK n \in bad : \A l \in 0..(n - 1) : l \notin bad
    <3> HIDE DEF bad
    <3> QED BY <2>1, HasLeast
  <2>3. n # 0
    BY <1>9
  <2>4. n - 1 \in Nat /\ n - 1 \in 0..(n - 1) /\ n = (n - 1) + 1
    BY <2>3
  <2>5. Doubled[n - 1] \in Nat
    BY <2>2, <2>4
  <2>6. Doubled[n] = 2 * Doubled[n - 1]
    BY <1>10, <2>4
  <2> QED BY <2>5, <2>6
<1> QED
  BY <1>9, <1>10, <1>11, <1>12

LEMMA LongerLocks ==
  ASSUME AccountsAssumption
  PROVE  /\ \A n \in Nat : LockoutSeconds(n) \in 0..MaxLockout
         /\ \A n \in Nat : LockoutSeconds(n) <= LockoutSeconds(n + 1)
<1>1. \A k \in Nat : /\ Doubled[k] \in Nat
                     /\ Doubled[k + 1] = 2 * Doubled[k]
  BY DoubledDefined
<1>2. \A n \in Nat : LockoutSeconds(n) \in 0..MaxLockout
  BY <1>1 DEF LockoutSeconds, AccountsAssumption
<1>3. ASSUME NEW n \in Nat
      PROVE  LockoutSeconds(n) <= LockoutSeconds(n + 1)
  <2>1. CASE n < MaxFailedAttempts
    BY <1>2, <2>1 DEF LockoutSeconds
  <2>2. CASE ~(n < MaxFailedAttempts)
    <3> DEFINE k == n - MaxFailedAttempts
    <3>1. k \in Nat /\ (n + 1) - MaxFailedAttempts = k + 1 /\ ~(n + 1 < MaxFailedAttempts)
      BY <2>2 DEF AccountsAssumption
    <3>2. Doubled[k] <= Doubled[k + 1] /\ Doubled[k] \in Nat /\ Doubled[k + 1] \in Nat
      BY <1>1, <3>1
    <3> QED
      BY <2>2, <3>1, <3>2 DEF LockoutSeconds, AccountsAssumption
  <2> QED
    BY <2>1, <2>2
<1> QED
  BY <1>2, <1>3

\* What a request under way has of its fields.
LEMMA CallFields ==
  ASSUME TypeOK, NEW c \in Calls
  PROVE  /\ call[c] # Done => call[c].u \in Users
         /\ call[c].op \in {"setup", "create", "rename"} => call[c].u \in Users /\ call[c].email \in Emails
         /\ call[c].op = "deactivate" => call[c].u \in Users
         /\ call[c].op = "login" => call[c].u \in Users /\ call[c].attempts \in 0..MaxAttempts
                                    /\ call[c].past \in BOOLEAN
<1>1. call[c] \in Writes \cup {Done}
  BY DEF TypeOK
<1> QED
  BY <1>1 DEF Writes, Done

-----------------------------------------------------------------------------
(* The steps *)

LEMMA InitIInv == ASSUME AccountsAssumption PROVE Init => IInv
<1> SUFFICES ASSUME Init PROVE IInv
  OBVIOUS
<1>1. (CHOOSE e \in Emails : TRUE) \in Emails
  BY DEF AccountsAssumption
<1>2. \A u \in Users : user[u].deactivated_at = "absent" /\ user[u] \in UserRows
  <2> DEFINE e == CHOOSE e \in Emails : TRUE
  <2>1. NewUser(e) \in UserRows
    BY <1>1 DEF NewUser, UserRows, Null, AccountsAssumption
  <2>2. [NewUser(e) EXCEPT !.deactivated_at = "absent"] \in UserRows
    BY <2>1 DEF UserRows
  <2>3. [NewUser(e) EXCEPT !.deactivated_at = "absent"].deactivated_at = "absent"
    BY <2>1 DEF UserRows
  <2>4. \A u \in Users : user[u] = [NewUser(e) EXCEPT !.deactivated_at = "absent"]
    BY DEF Init
  <2> HIDE DEF e
  <2> QED
    BY <2>2, <2>3, <2>4
<1>3. TypeOK
  BY <1>2 DEF Init, TypeOK, AccountsAssumption
<1> QED
  BY <1>2, <1>3 DEF IInv, Init, Done, TargetsExist, Removing, Exists, EmailIdentifies, RemovalIsSafe,
                    SomebodyRemains

LEMMA BeginStep ==
  ASSUME AccountsAssumption, IInv, NEW c \in Calls, NEW write \in Writes, Begin(c, write),
         write.op = "deactivate" => Active(write.u) /\ ActiveCount > 1
  PROVE  IInv'
<1>1. /\ \A d \in Calls : call'[d] = IF d = c THEN write ELSE call[d]
      /\ call[c] = Done /\ user' = user /\ lastLock' = lastLock
      /\ call' \in [Calls -> Writes \cup {Done}]
  BY DEF Begin, IInv, TypeOK
<1>2. \A u \in Users : (Exists(u)' <=> Exists(u)) /\ (Active(u)' <=> Active(u))
  BY <1>1 DEF Exists, Active
<1>3. overlapped \subseteq overlapped'
  BY DEF Begin
<1>4. TypeOK'
  <2>1. write.op = "login" => write.u \in Users
    BY DEF Writes
  <2> QED
    BY <1>1, <2>1 DEF Begin, IInv, TypeOK
<1>5. write.op = "deactivate" => write.u \in Users
  BY DEF Writes
<1>6. \A d \in Calls : d # c => (Removing(d)' <=> Removing(d))
  BY <1>1 DEF Removing
<1>7. TargetsExist'
  BY <1>1, <1>5, <1>6 DEF IInv, TargetsExist, Removing, Exists, Active
<1>8. RemovalIsSafe'
  <2> SUFFICES ASSUME Removals \notin overlapped', NEW d \in Calls, Removing(d)'
               PROVE  /\ \A e \in Calls : Removing(e)' => e = d
                      /\ \E v \in Users : v # call'[d].u /\ Active(v)'
    BY DEF RemovalIsSafe
  <2>1. Removals \notin overlapped
    BY <1>3
  <2>2. CASE write.op = "deactivate"
    <3>1. \A e \in Calls : ~Removing(e)
      BY <2>2 DEF Begin, UnderWay, Removing
    <3>2. d = c /\ \A e \in Calls : Removing(e)' => e = c
      BY <1>6, <3>1
    <3>3. \E v \in Users : v # write.u /\ Active(v)
      BY <1>5, <2>2, ActiveCounted
    <3> QED
      BY <1>1, <1>2, <3>2, <3>3
  <2>3. CASE write.op # "deactivate"
    <3>1. d # c /\ Removing(d) /\ ~Removing(c)' /\ call'[d] = call[d]
      BY <1>1, <1>6, <2>3 DEF Removing
    <3>2. /\ \A e \in Calls : Removing(e) => e = d
          /\ \E v \in Users : v # call[d].u /\ Active(v)
      BY <2>1, <3>1 DEF IInv, RemovalIsSafe
    <3> QED
      BY <1>2, <1>6, <3>1, <3>2
  <2> QED
    BY <2>2, <2>3
<1>9. SomebodyRemains'
  BY <1>2, <1>3 DEF IInv, SomebodyRemains
<1>10. EmailIdentifies'
  BY <1>1, <1>2 DEF IInv, EmailIdentifies
<1> QED
  BY <1>4, <1>7, <1>8, <1>9, <1>10 DEF IInv

LEMMA StepBegin ==
  ASSUME AccountsAssumption, IInv, NEW c \in Calls, NEW u \in Users,
         \/ BeginDeactivate(c, u) \/ BeginLogin(c, u)
         \/ \E e \in Emails : BeginSetup(c, u, e) \/ BeginCreate(c, u, e) \/ BeginRename(c, u, e)
  PROVE  IInv'
<1>1. CASE BeginDeactivate(c, u)
  BY <1>1, BeginStep DEF BeginDeactivate, Writes
<1>2. CASE BeginLogin(c, u)
  <2> DEFINE write == [op |-> "login", u |-> u, attempts |-> user[u].failed_login_attempts,
                       past |-> user[u].locked_until # Null]
  <2>1. user[u].failed_login_attempts \in 0..MaxAttempts
    BY DEF IInv, TypeOK, UserRows
  <2>2. write \in Writes /\ write.op # "deactivate" /\ Begin(c, write)
    BY <1>2, <2>1 DEF BeginLogin, Writes
  <2> QED
    BY <2>2, BeginStep
<1>3. ASSUME NEW e \in Emails, BeginSetup(c, u, e) \/ BeginCreate(c, u, e) \/ BeginRename(c, u, e)
      PROVE  IInv'
  <2>1. PICK op \in {"setup", "create", "rename"} : Begin(c, [op |-> op, u |-> u, email |-> e])
    BY <1>3 DEF BeginSetup, BeginCreate, BeginRename
  <2>2. [op |-> op, u |-> u, email |-> e] \in Writes
    BY DEF Writes
  <2> QED
    BY <2>1, <2>2, BeginStep
<1> QED
  BY <1>1, <1>2, <1>3

\* A commit that takes no account away, and ends its request.
LEMMA CommitStep ==
  ASSUME IInv, NEW c \in Calls, Ends(c), UNCHANGED overlapped, TypeOK', EmailIdentifies',
         \A u \in Users : (Exists(u) => Exists(u)') /\ (Active(u) => Active(u)'),
         \A u \in Users : Exists(u)' /\ ~Exists(u) => Active(u)'
  PROVE  IInv'
<1>1. /\ \A d \in Calls : call'[d] = IF d = c THEN Done ELSE call[d]
      /\ Done.op # "deactivate"
  BY DEF Ends, IInv, TypeOK, Done
<1>2. \A d \in Calls : Removing(d)' => Removing(d) /\ call'[d] = call[d] /\ call[d].u \in Users
  BY <1>1, CallFields DEF Removing, IInv
<1>3. TargetsExist'
  BY <1>2 DEF IInv, TargetsExist, Exists
<1>4. RemovalIsSafe'
  <2> SUFFICES ASSUME Removals \notin overlapped, NEW d \in Calls, Removing(d)'
               PROVE  /\ \A e \in Calls : Removing(e)' => e = d
                      /\ \E v \in Users : v # call'[d].u /\ Active(v)'
    BY DEF RemovalIsSafe
  <2> QED
    BY <1>2 DEF IInv, RemovalIsSafe
<1>5. SomebodyRemains'
  BY DEF IInv, SomebodyRemains
<1> QED
  BY <1>3, <1>4, <1>5 DEF IInv

LEMMA NewUserType ==
  ASSUME AccountsAssumption, NEW e \in Emails
  PROVE  /\ NewUser(e) \in UserRows
         /\ NewUser(e).email = e /\ NewUser(e).deactivated_at = "null"
BY DEF AccountsAssumption, NewUser, UserRows, Null

LEMMA StepCommitAccount ==
  ASSUME AccountsAssumption, IInv, NEW c \in Calls, CommitAccount(c)
  PROVE  IInv'
<1> DEFINE u == call[c].u
           e == call[c].email
<1>1. TypeOK /\ u \in Users /\ e \in Emails
  BY CallFields DEF IInv, CommitAccount
<1>2. Ends(c) /\ UNCHANGED <<lastLock, overlapped>>
  BY DEF CommitAccount
<1>3. call' \in [Calls -> Writes \cup {Done}]
  BY <1>1, <1>2 DEF TypeOK, Ends
<1>4. CASE EmailConflict(u, e)
  <2>1. user' = user
    BY <1>4 DEF CommitAccount
  <2>2. TypeOK' /\ EmailIdentifies'
    BY <1>1, <1>2, <1>3, <2>1 DEF TypeOK, IInv, EmailIdentifies, Exists
  <2> QED
    BY <1>2, <2>1, <2>2, CommitStep DEF Exists, Active
<1>5. CASE ~EmailConflict(u, e)
  <2>1. user' = [user EXCEPT ![u] = NewUser(e)]
    BY <1>5 DEF CommitAccount
  <2> HIDE DEF u, e
  <2>2. /\ user' \in [Users -> UserRows]
        /\ user'[u].email = e /\ user'[u].deactivated_at = "null"
        /\ \A v \in Users : v # u => user'[v] = user[v]
    BY <1>1, <2>1, NewUserType DEF TypeOK
  <2>3. TypeOK'
    BY <1>1, <1>2, <1>3, <2>2 DEF TypeOK
  <2>4. EmailIdentifies'
    BY <1>1, <1>5, <2>2 DEF IInv, EmailIdentifies, EmailConflict, Exists
  <2>5. \A v \in Users : /\ Exists(v) => Exists(v)'
                         /\ Active(v) => Active(v)'
                         /\ Exists(v)' /\ ~Exists(v) => Active(v)'
    BY <2>2 DEF Exists, Active
  <2> QED
    BY <1>2, <2>3, <2>4, <2>5, CommitStep
<1> QED
  BY <1>4, <1>5

LEMMA StepCommitRename ==
  ASSUME AccountsAssumption, IInv, NEW c \in Calls, CommitRename(c)
  PROVE  IInv'
<1> DEFINE u == call[c].u
           e == call[c].email
<1>1. TypeOK /\ u \in Users /\ e \in Emails
  BY CallFields DEF IInv, CommitRename
<1>2. Ends(c) /\ UNCHANGED <<lastLock, overlapped>>
  BY DEF CommitRename
<1>3. call' \in [Calls -> Writes \cup {Done}]
  BY <1>1, <1>2 DEF TypeOK, Ends
<1>4. CASE EmailConflict(u, e)
  <2>1. user' = user
    BY <1>4 DEF CommitRename
  <2>2. TypeOK' /\ EmailIdentifies'
    BY <1>1, <1>2, <1>3, <2>1 DEF TypeOK, IInv, EmailIdentifies, Exists
  <2> QED
    BY <1>2, <2>1, <2>2, CommitStep DEF Exists, Active
<1>5. CASE ~EmailConflict(u, e)
  <2>1. user' = [user EXCEPT ![u].email = e]
    BY <1>5 DEF CommitRename
  <2> HIDE DEF u, e
  <2>2. /\ user' \in [Users -> UserRows]
        /\ user'[u].email = e /\ user'[u].deactivated_at = user[u].deactivated_at
        /\ \A v \in Users : v # u => user'[v] = user[v]
    BY <1>1, <2>1 DEF TypeOK, UserRows
  <2>3. TypeOK'
    BY <1>1, <1>2, <1>3, <2>2 DEF TypeOK
  <2>4. EmailIdentifies'
    BY <1>1, <1>5, <2>2 DEF IInv, EmailIdentifies, EmailConflict, Exists
  <2>5. \A v \in Users : (Exists(v)' <=> Exists(v)) /\ (Active(v)' <=> Active(v))
    BY <2>2 DEF Exists, Active
  <2> QED
    BY <1>2, <2>3, <2>4, <2>5, CommitStep
<1> QED
  BY <1>4, <1>5

\* What the removal has counted on when it began is still there.
LEMMA StepCommitDeactivate ==
  ASSUME AccountsAssumption, IInv, NEW c \in Calls, CommitDeactivate(c)
  PROVE  IInv'
<1> DEFINE u == call[c].u
<1>1. TypeOK /\ u \in Users /\ Exists(u) /\ Removing(c)
  BY CallFields DEF IInv, CommitDeactivate, TargetsExist, Removing
<1>2. /\ user' \in [Users -> UserRows]
      /\ user'[u].deactivated_at = "set" /\ user'[u].email = user[u].email
      /\ \A v \in Users : v # u => user'[v] = user[v]
  BY <1>1 DEF CommitDeactivate, TypeOK, UserRows
<1>3. /\ \A d \in Calls : call'[d] = IF d = c THEN Done ELSE call[d]
      /\ ~Removing(c)' /\ \A d \in Calls : Removing(d)' => Removing(d)
  BY <1>1 DEF CommitDeactivate, Ends, TypeOK, Removing, Done
<1>4. TypeOK'
  BY <1>1, <1>2 DEF TypeOK, CommitDeactivate, Ends
<1> HIDE DEF u
<1>5. \A v \in Users : Exists(v)' <=> Exists(v)
  BY <1>1, <1>2 DEF Exists
<1>6. EmailIdentifies'
  BY <1>1, <1>2, <1>5 DEF IInv, EmailIdentifies
<1>7. TargetsExist'
  <2> SUFFICES ASSUME NEW d \in Calls, Removing(d)' PROVE Exists(call[d].u)'
    BY DEF TargetsExist
  <2>1. d # c /\ call'[d] = call[d] /\ Exists(call[d].u) /\ call[d].u \in Users
    BY <1>1, <1>3, CallFields DEF IInv, TargetsExist, Removing
  <2> QED
    BY <1>5, <2>1 DEF Exists
<1>8. Removals \notin overlapped =>
        /\ \A d \in Calls : ~Removing(d)'
        /\ \E v \in Users : Active(v)'
  <2> SUFFICES ASSUME Removals \notin overlapped
               PROVE  /\ \A d \in Calls : ~Removing(d)'
                      /\ \E v \in Users : Active(v)'
    OBVIOUS
  <2>1. /\ \A d \in Calls : Removing(d) => d = c
        /\ \E v \in Users : v # call[c].u /\ Active(v)
    BY <1>1 DEF IInv, RemovalIsSafe
  <2> QED
    BY <1>2, <1>3, <2>1 DEF Active, u
<1>9. RemovalIsSafe' /\ SomebodyRemains'
  BY <1>8 DEF RemovalIsSafe, SomebodyRemains, CommitDeactivate
<1> QED
  BY <1>4, <1>6, <1>7, <1>9 DEF IInv

\* Counts and locks are no account's identity.
LEMMA RowCounted ==
  ASSUME TypeOK, NEW u \in Users, NEW attempts \in 0..MaxAttempts, NEW lock \in Null..MaxLockout,
         user' = [user EXCEPT ![u].failed_login_attempts = attempts, ![u].locked_until = lock]
  PROVE  /\ user' \in [Users -> UserRows]
         /\ \A v \in Users : /\ user'[v].deactivated_at = user[v].deactivated_at
                             /\ user'[v].email = user[v].email
<1> DEFINE row == [user[u] EXCEPT !.failed_login_attempts = attempts, !.locked_until = lock]
<1>1. user[u] \in UserRows
  BY DEF TypeOK
<1>2. row \in UserRows /\ row.deactivated_at = user[u].deactivated_at /\ row.email = user[u].email
  BY <1>1 DEF UserRows
<1>3. user' = [user EXCEPT ![u] = row]
  BY DEF TypeOK
<1> HIDE DEF row
<1> QED
  BY <1>2, <1>3 DEF TypeOK

LEMMA StepCommitLogin ==
  ASSUME AccountsAssumption, IInv, NEW c \in Calls, CommitFailure(c) \/ CommitLogin(c)
  PROVE  IInv'
<1> DEFINE u == call[c].u
<1>1. /\ TypeOK /\ u \in Users /\ call[c].attempts \in 0..MaxAttempts
      /\ MaxAttempts \in Nat /\ MaxLockout \in Nat
  BY CallFields DEF IInv, CommitFailure, CommitLogin, AccountsAssumption
<1>2. Ends(c) /\ UNCHANGED overlapped
  BY DEF CommitFailure, CommitLogin
<1>3. /\ user' \in [Users -> UserRows] /\ lastLock' \in [Users -> 0..MaxLockout]
      /\ \A v \in Users : /\ user'[v].deactivated_at = user[v].deactivated_at
                          /\ user'[v].email = user[v].email
  <2>1. CASE CommitFailure(c)
    <3> DEFINE attempts == call[c].attempts + 1
               lockout == LockoutSeconds(attempts)
    <3>1. attempts \in 0..MaxAttempts /\ attempts \in Nat
      BY <1>1, <2>1 DEF CommitFailure
    <3>2. lockout > 0 => lockout \in 0..MaxLockout
      BY <3>1, LongerLocks DEF AccountsAssumption
    <3> DEFINE lock == IF lockout > 0 THEN lockout ELSE user[u].locked_until
    <3>3. lock \in Null..MaxLockout
      BY <1>1, <3>2 DEF TypeOK, UserRows, Null
    <3>4. /\ user' = [user EXCEPT ![u].failed_login_attempts = attempts, ![u].locked_until = lock]
          /\ lastLock' = [lastLock EXCEPT ![u] = IF lockout > 0 THEN lockout ELSE @]
      BY <1>1, <2>1 DEF CommitFailure, TypeOK
    <3> HIDE DEF u, attempts, lockout, lock
    <3>5. lastLock' \in [Users -> 0..MaxLockout]
      BY <1>1, <3>2, <3>4 DEF TypeOK
    <3> QED
      BY <1>1, <3>1, <3>3, <3>4, <3>5, RowCounted
  <2>2. CASE CommitLogin(c)
    <3> DEFINE attempts == IF call[c].attempts > 0 THEN 0 ELSE user[u].failed_login_attempts
               lock == IF call[c].past THEN Null ELSE user[u].locked_until
    <3>1. /\ user' = [user EXCEPT ![u].failed_login_attempts = attempts, ![u].locked_until = lock]
          /\ lastLock' = [lastLock EXCEPT ![u] = 0]
      BY <1>1, <2>2 DEF CommitLogin, TypeOK
    <3>2. attempts \in 0..MaxAttempts /\ lock \in Null..MaxLockout
      BY <1>1 DEF TypeOK, UserRows, Null
    <3> HIDE DEF u, attempts, lock
    <3>3. lastLock' \in [Users -> 0..MaxLockout]
      BY <1>1, <3>1 DEF TypeOK
    <3> QED
      BY <1>1, <3>1, <3>2, <3>3, RowCounted
  <2> QED
    BY <2>1, <2>2
<1>4. TypeOK'
  BY <1>1, <1>2, <1>3 DEF TypeOK, Ends
<1>5. \A v \in Users : (Exists(v)' <=> Exists(v)) /\ (Active(v)' <=> Active(v))
  BY <1>3 DEF Exists, Active
<1>6. EmailIdentifies'
  BY <1>3, <1>5 DEF IInv, EmailIdentifies
<1> QED
  BY <1>2, <1>4, <1>5, <1>6, CommitStep

LEMMA StepClockTick == ASSUME AccountsAssumption, IInv, ClockTick PROVE IInv'
<1> DEFINE row(u) == [user[u] EXCEPT !.locked_until = IF @ > 0 THEN @ - 1 ELSE @]
<1>1. user' = [u \in Users |-> row(u)] /\ UNCHANGED <<call, lastLock, overlapped>>
  BY DEF ClockTick
<1>2. ASSUME NEW u \in Users
      PROVE  /\ row(u) \in UserRows
             /\ row(u).deactivated_at = user[u].deactivated_at /\ row(u).email = user[u].email
  <2>1. user[u] \in UserRows
    BY DEF IInv, TypeOK
  <2>2. (IF user[u].locked_until > 0 THEN user[u].locked_until - 1 ELSE user[u].locked_until)
          \in Null..MaxLockout
    BY <2>1 DEF UserRows, Null, AccountsAssumption
  <2> QED
    BY <2>1, <2>2 DEF UserRows
<1> HIDE DEF row
<1>3. \A u \in Users : /\ Exists(u)' <=> Exists(u)
                       /\ Active(u)' <=> Active(u)
                       /\ user'[u].email = user[u].email
  BY <1>1, <1>2 DEF Exists, Active
<1>4. TypeOK'
  BY <1>1, <1>2 DEF IInv, TypeOK
<1>5. EmailIdentifies' /\ SomebodyRemains'
  BY <1>1, <1>3 DEF IInv, EmailIdentifies, SomebodyRemains
<1>6. \A c \in Calls : Removing(c) => call[c].u \in Users
  BY CallFields DEF IInv, Removing
<1>7. TargetsExist' /\ RemovalIsSafe'
  <2>1. ASSUME NEW c \in Calls, Removing(c)
        PROVE  Exists(call[c].u)'
    BY <1>1, <1>3, <1>6, <2>1 DEF IInv, TargetsExist, Exists
  <2>2. RemovalIsSafe'
    BY <1>1, <1>3 DEF IInv, RemovalIsSafe, Removing
  <2> QED
    BY <1>1, <2>1, <2>2 DEF TargetsExist, Removing, Exists
<1> QED
  BY <1>4, <1>5, <1>7 DEF IInv

-----------------------------------------------------------------------------
(* The theorems *)

LEMMA Inductive == AccountsAssumption /\ IInv /\ [Next]_accountVars => IInv'
<1> SUFFICES ASSUME AccountsAssumption, IInv, [Next]_accountVars PROVE IInv'
  OBVIOUS
<1>1. ASSUME NEW c \in Calls, NEW u \in Users,
             \/ BeginDeactivate(c, u) \/ BeginLogin(c, u)
             \/ \E e \in Emails : BeginSetup(c, u, e) \/ BeginCreate(c, u, e) \/ BeginRename(c, u, e)
      PROVE  IInv'
  BY <1>1, StepBegin
<1>2. ASSUME NEW c \in Calls,
             \/ CommitAccount(c) \/ CommitRename(c) \/ CommitDeactivate(c)
             \/ CommitFailure(c) \/ CommitLogin(c)
      PROVE  IInv'
  BY <1>2, StepCommitAccount, StepCommitRename, StepCommitDeactivate, StepCommitLogin
<1>3. CASE ClockTick
  BY <1>3, StepClockTick
<1>4. CASE UNCHANGED accountVars
  BY <1>4 DEF accountVars, IInv, TypeOK, TargetsExist, Removing, Exists, Active, EmailIdentifies,
              RemovalIsSafe, SomebodyRemains
<1> QED
  BY <1>1, <1>2, <1>3, <1>4 DEF Next

LEMMA Invariant == ASSUME AccountsAssumption PROVE Spec => []IInv
<1>1. Init => IInv
  BY InitIInv
<1>2. IInv /\ [Next]_accountVars => IInv'
  BY Inductive
<1> QED
  BY <1>1, <1>2, PTL DEF Spec

\* EmailIdentifies: no two rows of user share an e-mail, removed accounts included, whatever
\* requests overlap (the UNIQUE constraint of user.email, checked by each commit).
THEOREM EmailsIdentify ==
  ASSUME AccountsAssumption
  PROVE  Spec => [](TypeOK /\ EmailIdentifies)
<1>1. IInv => TypeOK /\ EmailIdentifies
  BY DEF IInv
<1> QED
  BY <1>1, Invariant, PTL

\* AccountRemains: once there is an account some account is active, as long as no two removals
\* have overlapped (deactivate_user's "at least one local account must remain").
THEOREM AnAccountRemains ==
  ASSUME AccountsAssumption
  PROVE  Spec => []AccountRemains
<1>1. IInv => AccountRemains
  BY ActiveCounted DEF IInv, SomebodyRemains, AccountRemains
<1> QED
  BY <1>1, Invariant, PTL

-----------------------------------------------------------------------------
(* Locks *)

SignsIn(c, u) == call[c].op = "login" /\ call[c].u = u
Creates(c) == call[c].op \in {"setup", "create"}

\* Sign-ins that do not overlap know the row's count, and no lock is longer than the next one.
CountsAreCurrent == \A u \in Users \ overlapped : \A c \in Calls : SignsIn(c, u) =>
  /\ call[c].attempts = user[u].failed_login_attempts
  /\ \A d \in Calls : SignsIn(d, u) => d = c

LocksFollowCounts ==
  \A u \in Users \ overlapped : lastLock[u] <= LockoutSeconds(user[u].failed_login_attempts)

\* A row that is not stored yet is nobody's but the request's that creates it.
NewRowsAreNew ==
  /\ \A u \in Users : ~Exists(u) => lastLock[u] = 0
  /\ \A c \in Calls : call[c].op = "login" => Exists(call[c].u)
  /\ \A c \in Calls : Creates(c) =>
       /\ ~Exists(call[c].u)
       /\ \A d \in Calls : call[d] # Done /\ call[d].u = call[c].u => d = c

LockInv == IInv /\ CountsAreCurrent /\ LocksFollowCounts /\ NewRowsAreNew

LEMMA InitLockInv == ASSUME AccountsAssumption PROVE Init => LockInv
<1> SUFFICES ASSUME Init PROVE LockInv
  OBVIOUS
<1>1. IInv
  BY InitIInv
<1>2. \A u \in Users : user[u].failed_login_attempts \in Nat
  BY <1>1 DEF IInv, TypeOK, UserRows
<1>3. LocksFollowCounts
  BY <1>2, LongerLocks DEF LocksFollowCounts, Init, AccountsAssumption
<1> QED
  BY <1>1, <1>3 DEF LockInv, CountsAreCurrent, NewRowsAreNew, Init, Done, SignsIn, Creates

LEMMA BeginLock ==
  ASSUME LockInv, IInv', NEW c \in Calls, NEW write \in Writes, Begin(c, write),
         write.u \in Users,
         write.op = "login" => Active(write.u)
                               /\ write.attempts = user[write.u].failed_login_attempts,
         write.op \in {"rename", "deactivate"} => Active(write.u),
         write.op \in {"setup", "create"} => Unused(write.u)
  PROVE  LockInv'
<1>1. /\ \A d \in Calls : call'[d] = IF d = c THEN write ELSE call[d]
      /\ call[c] = Done /\ user' = user /\ lastLock' = lastLock
      /\ overlapped \subseteq overlapped'
  BY DEF Begin, LockInv, IInv, TypeOK
<1>2. CountsAreCurrent'
  <2> SUFFICES ASSUME NEW u \in Users \ overlapped', NEW d \in Calls, SignsIn(d, u)'
               PROVE  /\ call'[d].attempts = user'[u].failed_login_attempts
                      /\ \A e \in Calls : SignsIn(e, u)' => e = d
    BY DEF CountsAreCurrent
  <2>1. u \in Users \ overlapped /\ ~SignsIn(c, u)
    BY <1>1 DEF SignsIn, Done
  <2>2. CASE write.op = "login" /\ write.u = u
    <3>1. \A e \in Calls : ~SignsIn(e, u)
      BY <2>2 DEF Begin, UnderWay, SignsIn
    <3>2. d = c /\ \A e \in Calls : SignsIn(e, u)' => e = c
      BY <1>1, <3>1 DEF SignsIn
    <3> QED
      BY <1>1, <2>2, <3>2
  <2>3. CASE ~(write.op = "login" /\ write.u = u)
    <3>1. d # c /\ SignsIn(d, u) /\ \A e \in Calls : SignsIn(e, u)' => SignsIn(e, u)
      BY <1>1, <2>3 DEF SignsIn
    <3> QED
      BY <1>1, <2>1, <3>1 DEF LockInv, CountsAreCurrent
  <2> QED
    BY <2>2, <2>3
<1>3. LocksFollowCounts'
  BY <1>1 DEF LockInv, LocksFollowCounts, LockoutSeconds
<1>4. NewRowsAreNew'
  <2>1. \A u \in Users : Exists(u)' <=> Exists(u)
    BY <1>1 DEF Exists
  <2>2. \A u \in Users : ~Exists(u)' => lastLock'[u] = 0
    BY <1>1, <2>1 DEF LockInv, NewRowsAreNew
  <2>3. \A d \in Calls : call'[d].op = "login" => Exists(call[d].u)'
    BY <1>1 DEF LockInv, NewRowsAreNew, Exists, Active
  <2>4. ASSUME NEW d \in Calls, Creates(d)', NEW e \in Calls, call'[e] # Done,
               call'[e].u = call'[d].u
        PROVE  e = d
    <3>1. CASE d # c /\ e # c
      BY <1>1, <2>4, <3>1 DEF LockInv, NewRowsAreNew, Creates
    <3>2. CASE d = c /\ e # c
      BY <1>1, <2>4, <3>2 DEF Creates, Unused
    <3>3. CASE d # c /\ e = c
      <4>1. Creates(d) /\ call[d] # Done /\ call[d].u = write.u /\ ~Exists(write.u)
        BY <1>1, <2>4, <3>3 DEF LockInv, NewRowsAreNew, Creates, Done
      <4>2. write.op \in {"setup", "create"}
        BY <4>1 DEF Writes, Exists, Active
      <4> QED
        BY <4>1, <4>2 DEF Unused
    <3> QED
      BY <3>1, <3>2, <3>3
  <2>5. \A d \in Calls : Creates(d)' => ~Exists(call[d].u)'
    BY <1>1 DEF LockInv, NewRowsAreNew, Creates, Unused, Exists
  <2> QED
    BY <2>2, <2>3, <2>4, <2>5 DEF NewRowsAreNew
<1> QED
  BY <1>2, <1>3, <1>4 DEF LockInv

LEMMA StepBeginLock ==
  ASSUME LockInv, IInv', NEW c \in Calls, NEW u \in Users,
         \/ BeginDeactivate(c, u) \/ BeginLogin(c, u)
         \/ \E e \in Emails : BeginSetup(c, u, e) \/ BeginCreate(c, u, e) \/ BeginRename(c, u, e)
  PROVE  LockInv'
<1>1. CASE BeginDeactivate(c, u)
  <2> DEFINE write == [op |-> "deactivate", u |-> u]
  <2>1. /\ write \in Writes /\ write.op = "deactivate" /\ write.u = u
        /\ Begin(c, write) /\ Active(u)
    BY <1>1 DEF BeginDeactivate, Writes
  <2> HIDE DEF write
  <2> QED
    BY <2>1, BeginLock
<1>2. CASE BeginLogin(c, u)
  <2> DEFINE write == [op |-> "login", u |-> u, attempts |-> user[u].failed_login_attempts,
                       past |-> user[u].locked_until # Null]
  <2>1. user[u].failed_login_attempts \in 0..MaxAttempts
    BY DEF LockInv, IInv, TypeOK, UserRows
  <2>2. /\ write \in Writes /\ write.op = "login" /\ write.u = u
        /\ write.attempts = user[u].failed_login_attempts
        /\ Begin(c, write) /\ Active(u)
    BY <1>2, <2>1 DEF BeginLogin, Writes
  <2> HIDE DEF write
  <2> QED
    BY <2>2, BeginLock
<1>3. ASSUME NEW e \in Emails, BeginSetup(c, u, e) \/ BeginCreate(c, u, e)
      PROVE  LockInv'
  <2>1. PICK op \in {"setup", "create"} : Begin(c, [op |-> op, u |-> u, email |-> e])
    BY <1>3 DEF BeginSetup, BeginCreate
  <2> DEFINE write == [op |-> op, u |-> u, email |-> e]
  <2>2. /\ write \in Writes /\ write.op \in {"setup", "create"} /\ write.u = u
        /\ Begin(c, write) /\ Unused(u)
    BY <1>3, <2>1 DEF BeginSetup, BeginCreate, Writes
  <2> HIDE DEF write
  <2> QED
    BY <2>2, BeginLock
<1>4. ASSUME NEW e \in Emails, BeginRename(c, u, e)
      PROVE  LockInv'
  <2> DEFINE write == [op |-> "rename", u |-> u, email |-> e]
  <2>1. /\ write \in Writes /\ write.op = "rename" /\ write.u = u
        /\ Begin(c, write) /\ Active(u)
    BY <1>4 DEF BeginRename, Writes
  <2> HIDE DEF write
  <2> QED
    BY <2>1, BeginLock
<1> QED
  BY <1>1, <1>2, <1>3, <1>4

\* The end of a request, as the sign-ins that go on see it.
LEMMA EndLock ==
  ASSUME LockInv, IInv', NEW c \in Calls, Ends(c), UNCHANGED overlapped, call[c] # Done,
         NEW u, u = call[c].u,
         \A v \in Users : Exists(v)' <=> Exists(v) \/ (Creates(c) /\ v = u /\ Exists(v)'),
         \A v \in Users : v # u =>
           /\ user'[v].failed_login_attempts = user[v].failed_login_attempts
           /\ lastLock'[v] = lastLock[v],
         call[c].op # "login" /\ ~Creates(c) =>
           user'[u].failed_login_attempts = user[u].failed_login_attempts,
         ~Exists(u)' => lastLock'[u] = 0,
         u \notin overlapped => lastLock'[u] <= LockoutSeconds(user'[u].failed_login_attempts)
  PROVE  LockInv'
<1>1. /\ \A d \in Calls : call'[d] = IF d = c THEN Done ELSE call[d]
      /\ TypeOK /\ call[c].u \in Users
  BY CallFields DEF Ends, LockInv, IInv, TypeOK, Writes
<1>2. \A d \in Calls : call'[d] # Done => d # c /\ call'[d] = call[d] /\ call[d] # Done
  BY <1>1
<1>3. CountsAreCurrent'
  <2> SUFFICES ASSUME NEW v \in Users \ overlapped, NEW d \in Calls, SignsIn(d, v)'
               PROVE  /\ call'[d].attempts = user'[v].failed_login_attempts
                      /\ \A e \in Calls : SignsIn(e, v)' => e = d
    BY DEF CountsAreCurrent
  <2>1. \A e \in Calls : SignsIn(e, v)' => SignsIn(e, v) /\ call'[e] = call[e] /\ e # c
    BY <1>1, <1>2 DEF SignsIn, Done
  <2>2. /\ call[d].attempts = user[v].failed_login_attempts
        /\ \A e \in Calls : SignsIn(e, v) => e = d
    BY <2>1 DEF LockInv, CountsAreCurrent
  <2>3. user'[v].failed_login_attempts = user[v].failed_login_attempts
    <3>1. CASE v # u
      BY <3>1
    <3>2. CASE v = u
      <4>1. call[c].op # "login"
        BY <2>1, <2>2, <3>2 DEF SignsIn
      <4>2. ~Creates(c)
        BY <2>1, <3>2 DEF LockInv, NewRowsAreNew, SignsIn
      <4> QED
        BY <3>2, <4>1, <4>2
    <3> QED
      BY <3>1, <3>2
  <2> QED
    BY <2>1, <2>2, <2>3
<1>4. LocksFollowCounts'
  <2> SUFFICES ASSUME NEW v \in Users \ overlapped
               PROVE  lastLock'[v] <= LockoutSeconds(user'[v].failed_login_attempts)
    BY DEF LocksFollowCounts
  <2>1. CASE v = u
    BY <2>1
  <2>2. CASE v # u
    BY <2>2 DEF LockInv, LocksFollowCounts
  <2> QED
    BY <2>1, <2>2
<1>5. NewRowsAreNew'
  <2>1. \A v \in Users : ~Exists(v)' => lastLock'[v] = 0
    BY <1>1 DEF LockInv, NewRowsAreNew
  <2>2. \A d \in Calls : call'[d].op = "login" => Exists(call[d].u)' /\ call'[d] = call[d]
    BY <1>1, CallFields DEF LockInv, NewRowsAreNew, Done
  <2>3. ASSUME NEW d \in Calls, Creates(d)'
        PROVE  /\ ~Exists(call[d].u)' /\ call'[d] = call[d]
               /\ \A e \in Calls : call'[e] # Done /\ call'[e].u = call'[d].u => e = d
    <3>1. d # c /\ call'[d] = call[d] /\ Creates(d) /\ call[d].u \in Users
      BY <1>1, <2>3, CallFields DEF Creates, Done
    <3>2. /\ ~Exists(call[d].u)
          /\ \A e \in Calls : call[e] # Done /\ call[e].u = call[d].u => e = d
      BY <3>1 DEF LockInv, NewRowsAreNew
    <3>3. call[c].u # call[d].u
      BY <3>1, <3>2
    <3> QED
      BY <1>2, <3>1, <3>2, <3>3
  <2> QED
    BY <2>1, <2>2, <2>3 DEF NewRowsAreNew, Exists
<1> QED
  BY <1>3, <1>4, <1>5 DEF LockInv

LEMMA StepEndAccountLock ==
  ASSUME AccountsAssumption, LockInv, IInv', NEW c \in Calls,
         CommitAccount(c) \/ CommitRename(c) \/ CommitDeactivate(c)
  PROVE  LockInv'
<1> DEFINE u == call[c].u
<1>1. /\ TypeOK /\ u \in Users /\ call[c] # Done /\ call[c].op # "login"
      /\ Ends(c) /\ UNCHANGED <<lastLock, overlapped>>
      /\ lastLock \in [Users -> 0..MaxLockout]
  BY CallFields DEF LockInv, IInv, TypeOK, CommitAccount, CommitRename, CommitDeactivate, Done
<1>2. user[u].failed_login_attempts \in Nat /\ lastLock[u] \in 0..MaxLockout
  BY <1>1 DEF TypeOK, UserRows
<1>3. ~Exists(u) => lastLock[u] = 0
  BY <1>1 DEF LockInv, NewRowsAreNew
<1>4. u \notin overlapped => lastLock[u] <= LockoutSeconds(user[u].failed_login_attempts)
  BY <1>1 DEF LockInv, LocksFollowCounts
<1>5. Creates(c) => ~Exists(u)
  BY DEF LockInv, NewRowsAreNew
<1>6. CASE user' = user
  BY <1>1, <1>3, <1>4, <1>6, EndLock DEF Exists
<1>7. CASE CommitAccount(c) /\ user' # user
  <2> DEFINE e == call[c].email
  <2>1. /\ Creates(c) /\ user' = [user EXCEPT ![u] = NewUser(e)]
        /\ NewUser(e).failed_login_attempts = 0 /\ NewUser(e).deactivated_at = "null"
    BY <1>7 DEF CommitAccount, Creates, NewUser
  <2> HIDE DEF u, e
  <2>2. /\ user'[u].failed_login_attempts = 0 /\ user'[u].deactivated_at = "null"
        /\ \A v \in Users : v # u => user'[v] = user[v]
    BY <1>1, <2>1 DEF TypeOK
  <2>3. lastLock'[u] <= LockoutSeconds(user'[u].failed_login_attempts)
    BY <1>1, <1>3, <1>5, <2>1, <2>2, LongerLocks
  <2>4. \A v \in Users : Exists(v)' <=> Exists(v) \/ (Creates(c) /\ u = v /\ Exists(v)')
    BY <1>5, <2>1, <2>2 DEF Exists
  <2> QED
    BY <1>1, <2>1, <2>2, <2>3, <2>4, EndLock DEF u, Exists
<1>8. CASE (CommitRename(c) \/ CommitDeactivate(c)) /\ user' # user
  <2>1. \A v \in Users :
          /\ user'[v].failed_login_attempts = user[v].failed_login_attempts
          /\ Exists(v)' <=> Exists(v)
    <3>1. CASE CommitRename(c)
      <4>1. user' = [user EXCEPT ![u].email = call[c].email]
        BY <1>8, <3>1 DEF CommitRename
      <4> HIDE DEF u
      <4>2. /\ user'[u].failed_login_attempts = user[u].failed_login_attempts
            /\ user'[u].deactivated_at = user[u].deactivated_at
            /\ \A v \in Users : v # u => user'[v] = user[v]
        BY <1>1, <4>1 DEF TypeOK, UserRows
      <4> QED
        BY <4>2 DEF Exists
    <3>2. CASE CommitDeactivate(c)
      <4>1. user' = [user EXCEPT ![u].deactivated_at = "set"] /\ Exists(u)
        BY <3>2 DEF CommitDeactivate, LockInv, IInv, TargetsExist, Removing
      <4> HIDE DEF u
      <4>2. /\ user'[u].failed_login_attempts = user[u].failed_login_attempts
            /\ user'[u].deactivated_at = "set"
            /\ \A v \in Users : v # u => user'[v] = user[v]
        BY <1>1, <4>1 DEF TypeOK, UserRows
      <4> QED
        BY <4>1, <4>2 DEF Exists
    <3> QED
      BY <1>8, <3>1, <3>2
  <2> QED
    BY <1>1, <1>3, <1>4, <2>1, EndLock
<1> QED
  BY <1>1, <1>6, <1>7, <1>8

\* A sign-in that overlaps none changes the count by one, or clears it with the lock.
LEMMA SignInOutcome ==
  ASSUME AccountsAssumption, LockInv, NEW c \in Calls, CommitFailure(c) \/ CommitLogin(c),
         NEW u, u = call[c].u, u \notin overlapped
  PROVE  /\ lastLock'[u] \in {0} \cup lastLock[u]..MaxLockout
         /\ lastLock'[u] <= LockoutSeconds(user'[u].failed_login_attempts)
<1>1. /\ TypeOK /\ u \in Users /\ call[c].attempts \in 0..MaxAttempts
      /\ call[c].attempts = user[u].failed_login_attempts
      /\ lastLock[u] \in 0..MaxLockout /\ user[u] \in UserRows
  BY CallFields DEF LockInv, IInv, TypeOK, CommitFailure, CommitLogin, CountsAreCurrent, SignsIn
<1>2. lastLock[u] <= LockoutSeconds(call[c].attempts)
  BY <1>1 DEF LockInv, LocksFollowCounts
<1>3. CASE CommitFailure(c)
  <2> DEFINE attempts == call[c].attempts + 1
             lockout == LockoutSeconds(attempts)
             lock == IF lockout > 0 THEN lockout ELSE user[u].locked_until
  <2>1. /\ user' = [user EXCEPT ![u].failed_login_attempts = attempts, ![u].locked_until = lock]
        /\ lastLock' = [lastLock EXCEPT ![u] = IF lockout > 0 THEN lockout ELSE @]
    BY <1>1, <1>3 DEF CommitFailure, TypeOK
  <2>2. lockout \in 0..MaxLockout /\ LockoutSeconds(call[c].attempts) <= lockout
        /\ LockoutSeconds(call[c].attempts) \in 0..MaxLockout
    BY <1>1, LongerLocks DEF AccountsAssumption
  <2>3. lockout = LockoutSeconds(attempts)
    OBVIOUS
  <2> HIDE DEF attempts, lockout, lock
  <2>4. user'[u].failed_login_attempts = attempts
    BY <1>1, <2>1 DEF TypeOK, UserRows
  <2>5. lastLock'[u] = IF lockout > 0 THEN lockout ELSE lastLock[u]
    BY <1>1, <2>1 DEF TypeOK
  <2>6. lastLock'[u] <= LockoutSeconds(user'[u].failed_login_attempts)
    BY <1>1, <1>2, <2>2, <2>3, <2>4, <2>5
  <2>7. lastLock'[u] \in {0} \cup lastLock[u]..MaxLockout
    BY <1>1, <1>2, <2>2, <2>5 DEF AccountsAssumption
  <2> QED
    BY <2>6, <2>7
<1>4. CASE CommitLogin(c)
  <2> DEFINE attempts == IF call[c].attempts > 0 THEN 0 ELSE user[u].failed_login_attempts
             lock == IF call[c].past THEN Null ELSE user[u].locked_until
  <2>1. /\ user' = [user EXCEPT ![u].failed_login_attempts = attempts, ![u].locked_until = lock]
        /\ lastLock' = [lastLock EXCEPT ![u] = 0]
    BY <1>1, <1>4 DEF CommitLogin, TypeOK
  <2>2. attempts = 0
    BY <1>1
  <2> HIDE DEF attempts, lock
  <2>3. user'[u].failed_login_attempts = 0 /\ lastLock'[u] = 0
    BY <1>1, <2>1, <2>2 DEF TypeOK, UserRows
  <2> QED
    BY <2>3, LongerLocks
<1> QED
  BY <1>3, <1>4

LEMMA StepSignInLock ==
  ASSUME AccountsAssumption, LockInv, IInv', NEW c \in Calls, CommitFailure(c) \/ CommitLogin(c)
  PROVE  LockInv'
<1> DEFINE u == call[c].u
<1>1. /\ TypeOK /\ u \in Users /\ call[c] # Done /\ call[c].op = "login"
      /\ Ends(c) /\ UNCHANGED overlapped /\ Exists(u)
  BY CallFields DEF LockInv, IInv, CommitFailure, CommitLogin, Done, NewRowsAreNew
<1>2. u \notin overlapped => lastLock'[u] <= LockoutSeconds(user'[u].failed_login_attempts)
  BY SignInOutcome
<1>3. \E row : /\ user' = [user EXCEPT ![u] = row]
               /\ row.deactivated_at = user[u].deactivated_at
  <2> DEFINE Row(n, l) == [user[u] EXCEPT !.failed_login_attempts = n, !.locked_until = l]
  <2>1. \A n, l : Row(n, l).deactivated_at = user[u].deactivated_at
    BY <1>1 DEF TypeOK, UserRows
  <2>2. \E n, l : user' = [user EXCEPT ![u].failed_login_attempts = n, ![u].locked_until = l]
    BY DEF CommitFailure, CommitLogin
  <2> HIDE DEF u
  <2>3. \E n, l : user' = [user EXCEPT ![u] = Row(n, l)]
    BY <1>1, <2>2 DEF TypeOK
  <2> HIDE DEF Row
  <2> QED
    BY <2>1, <2>3
<1>4. \E lock : lastLock' = [lastLock EXCEPT ![u] = lock]
  BY DEF CommitFailure, CommitLogin
<1> HIDE DEF u
<1>5. /\ user'[u].deactivated_at = user[u].deactivated_at
      /\ \A v \in Users : v # u => user'[v] = user[v] /\ lastLock'[v] = lastLock[v]
  BY <1>1, <1>3, <1>4 DEF TypeOK
<1>6. (\A v \in Users : Exists(v)' <=> Exists(v)) /\ ~Creates(c)
  BY <1>1, <1>5 DEF Exists, Creates
<1> QED
  BY <1>1, <1>2, <1>5, <1>6, EndLock DEF u

LEMMA StepTickLock == ASSUME LockInv, IInv', ClockTick PROVE LockInv'
<1>1. /\ UNCHANGED <<call, lastLock, overlapped>>
      /\ \A u \in Users : user'[u] = [user[u] EXCEPT !.locked_until = IF @ > 0 THEN @ - 1 ELSE @]
  BY DEF ClockTick
<1>2. \A u \in Users : /\ user'[u].failed_login_attempts = user[u].failed_login_attempts
                       /\ user'[u].deactivated_at = user[u].deactivated_at
  BY <1>1 DEF LockInv, IInv, TypeOK, UserRows
<1>3. \A u \in Users : Exists(u)' <=> Exists(u)
  BY <1>2 DEF Exists
<1>4. CountsAreCurrent' /\ LocksFollowCounts'
  BY <1>1, <1>2 DEF LockInv, CountsAreCurrent, LocksFollowCounts, SignsIn
<1>5. \A c \in Calls : call[c].op = "login" \/ Creates(c) => call[c].u \in Users
  BY CallFields DEF LockInv, IInv, Creates
<1>6. NewRowsAreNew'
  BY <1>1, <1>3, <1>5 DEF LockInv, NewRowsAreNew, Creates, Exists
<1> QED
  BY <1>4, <1>6 DEF LockInv

LEMMA LockInductive == AccountsAssumption /\ LockInv /\ [Next]_accountVars => LockInv'
<1> SUFFICES ASSUME AccountsAssumption, LockInv, [Next]_accountVars PROVE LockInv'
  OBVIOUS
<1>1. IInv'
  BY Inductive DEF LockInv
<1>2. ASSUME NEW c \in Calls, NEW u \in Users,
             \/ BeginDeactivate(c, u) \/ BeginLogin(c, u)
             \/ \E e \in Emails : BeginSetup(c, u, e) \/ BeginCreate(c, u, e) \/ BeginRename(c, u, e)
      PROVE  LockInv'
  BY <1>1, <1>2, StepBeginLock
<1>3. ASSUME NEW c \in Calls,
             \/ CommitAccount(c) \/ CommitRename(c) \/ CommitDeactivate(c)
             \/ CommitFailure(c) \/ CommitLogin(c)
      PROVE  LockInv'
  BY <1>1, <1>3, StepEndAccountLock, StepSignInLock
<1>4. CASE ClockTick
  BY <1>1, <1>4, StepTickLock
<1>5. CASE UNCHANGED accountVars
  BY <1>1, <1>5 DEF accountVars, LockInv, CountsAreCurrent, LocksFollowCounts, NewRowsAreNew,
                    SignsIn, Creates, Exists
<1> QED
  BY <1>2, <1>3, <1>4, <1>5 DEF Next

LEMMA LockStep ==
  ASSUME AccountsAssumption, LockInv, [Next]_accountVars, NEW u \in Users \ overlapped
  PROVE  lastLock'[u] \in {0} \cup lastLock[u]..MaxLockout
<1>1. lastLock \in [Users -> 0..MaxLockout] /\ lastLock[u] \in {0} \cup lastLock[u]..MaxLockout
  BY DEF LockInv, IInv, TypeOK, AccountsAssumption
<1>2. CASE UNCHANGED lastLock
  BY <1>1, <1>2
<1>3. ASSUME NEW c \in Calls, CommitFailure(c) \/ CommitLogin(c)
      PROVE  lastLock'[u] \in {0} \cup lastLock[u]..MaxLockout
  <2>1. CASE u = call[c].u
    BY <1>3, <2>1, SignInOutcome
  <2>2. CASE u # call[c].u
    <3>1. lastLock'[u] = lastLock[u]
      BY <1>1, <1>3, <2>2 DEF CommitFailure, CommitLogin
    <3> QED
      BY <1>1, <3>1
  <2> QED
    BY <2>1, <2>2
<1>4. ASSUME NEW c \in Calls, NEW v \in Users,
             \/ BeginDeactivate(c, v) \/ BeginLogin(c, v)
             \/ \E e \in Emails : BeginSetup(c, v, e) \/ BeginCreate(c, v, e) \/ BeginRename(c, v, e)
      PROVE  UNCHANGED lastLock
  BY <1>4 DEF BeginSetup, BeginCreate, BeginRename, BeginDeactivate, BeginLogin, Begin
<1>5. ASSUME NEW c \in Calls, CommitAccount(c) \/ CommitRename(c) \/ CommitDeactivate(c)
      PROVE  UNCHANGED lastLock
  BY <1>5 DEF CommitAccount, CommitRename, CommitDeactivate
<1>6. ClockTick \/ UNCHANGED accountVars => UNCHANGED lastLock
  BY DEF ClockTick, accountVars
<1> QED
  BY <1>2, <1>3, <1>4, <1>5, <1>6 DEF Next

\* LockoutProgresses: no lock of an account is shorter than the one before it, until it signs in,
\* as long as no two sign-ins to it have overlapped (_lockout_seconds, login).
THEOREM LocksProgress ==
  ASSUME AccountsAssumption
  PROVE  Spec => LockoutProgresses
<1>1. Init => LockInv
  BY InitLockInv
<1>2. LockInv /\ [Next]_accountVars => LockInv'
  BY LockInductive
<1>3. LockInv /\ [Next]_accountVars =>
        [\A u \in Users \ overlapped : lastLock'[u] \in {0} \cup lastLock[u]..MaxLockout]_accountVars
  BY LockStep
<1> QED
  BY <1>1, <1>2, <1>3, PTL DEF Spec, LockoutProgresses
=============================================================================
