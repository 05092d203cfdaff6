-------------------------------- MODULE Accounts --------------------------------
(***************************************************************************)
(* One account: its password, its sessions and the requests that sign in,  *)
(* switch the workspace or change the password (backend/app: api/v1/auth.py*)
(* api/deps.py, core/security.py, services/access.py). A request reads the *)
(* row once and later writes the columns it changed; no read takes a lock. *)
(***************************************************************************)
EXTENDS Integers

CONSTANTS
  Devices,      \* where the account is used; each has one call in progress
  MaxAttempts,  \* login_max_attempts
  MaxPasswords, \* bound on the number of password changes
  ChangesOverlap \* two changes of the password may be in progress together

ASSUME AccountsAssumption ==
  /\ MaxAttempts \in Nat \ {0}
  /\ MaxPasswords \in Nat
  /\ ChangesOverlap \in BOOLEAN

VARIABLES
  user,      \* the row of users; a password is named by the order of the changes
  sessions,  \* tokens issued: their sv, and the password in force when they were
  call,      \* per device: no call, or its kind and the copy of the row it read
  failures   \* wrong passwords since the last good one

accountVars == <<user, sessions, call, failures>>

Passwords == 0 .. MaxPasswords
UserRows == [password : Passwords, session_version : Passwords, required : BOOLEAN,
             failed : 0 .. MaxAttempts, locked : BOOLEAN]
Sessions == [sv : Passwords, password : Passwords]
NoCall == [kind |-> "none"]
Calls == [kind : {"login", "switch", "change"}, copy : UserRows]

\* An account as an invitation, provisioning or bootstrap creates it.
AccountsInit ==
  /\ user = [password |-> 0, session_version |-> 0, required |-> TRUE, failed |-> 0,
             locked |-> FALSE]
  /\ sessions = {}
  /\ call = [d \in Devices |-> NoCall]
  /\ failures = 0

\* current_user: the version in the token is the one in the row.
Authenticates(token) == token.sv = user.session_version

Begin(d, kind) ==
  /\ call[d] = NoCall
  /\ call' = [call EXCEPT ![d] = [kind |-> kind, copy |-> user]]
  /\ UNCHANGED <<user, sessions, failures>>

\* authenticate with the password of the row it reads.
LoginReads(d) == ~user.locked /\ Begin(d, "login")

\* What is left of the object's changes when the call raises: get_session rolls back.
AfterRaise(row, object) == row

\* authenticate with a wrong password: the count goes up, and at the limit the account is
\* locked; then the error is raised.
WrongPassword ==
  LET count == user.failed + 1
      object == IF count >= MaxAttempts
                THEN [user EXCEPT !.locked = TRUE, !.failed = 0]
                ELSE [user EXCEPT !.failed = count]
  IN /\ ~user.locked
     /\ failures < MaxAttempts
     /\ user' = AfterRaise(user, object)
     /\ failures' = failures + 1
     /\ UNCHANGED <<sessions, call>>

\* change_password and switch_workspace, with a token that authenticates.
SwitchReads(d) == (\E token \in sessions : Authenticates(token)) /\ Begin(d, "switch")

ChangeReads(d) ==
  /\ \E token \in sessions : Authenticates(token)
  /\ ~ChangesOverlap => \A e \in Devices : call[e] = NoCall \/ call[e].kind # "change"
  /\ Begin(d, "change")

Issue(sv, password) == sessions' = sessions \cup {[sv |-> sv, password |-> password]}
Return(d) == call' = [call EXCEPT ![d] = NoCall]

\* The rest of authenticate and the commit of the route: only columns that change.
LoginCommits(d) ==
  LET copy == call[d].copy
  IN /\ call[d].kind = "login"
     /\ user' = [user EXCEPT !.failed = IF copy.failed # 0 THEN 0 ELSE @]
     /\ Issue(copy.session_version, copy.password)
     /\ failures' = 0
     /\ Return(d)

SwitchReturns(d) ==
  LET copy == call[d].copy
  IN /\ call[d].kind = "switch"
     /\ Issue(copy.session_version, copy.password)
     /\ Return(d)
     /\ UNCHANGED <<user, failures>>

\* A fault to detect: a change of the password leaves the version as it is.
NextVersionKept(copy) == copy.session_version

\* A fault to detect: the version is counted twice.
NextVersionTwice(copy) == copy.session_version + 2

NextVersion(copy) == copy.session_version + 1

\* The rest of change_password: the password it verified against was the copy's.
ChangeCommits(d, new) ==
  LET copy == call[d].copy
  IN /\ call[d].kind = "change"
     /\ new > user.password
     /\ user' = [user EXCEPT !.password = new, !.required = FALSE,
                             !.session_version = NextVersion(copy)]
     /\ Issue(NextVersion(copy), new)
     /\ Return(d)
     /\ UNCHANGED failures

\* Refused, failed or abandoned.
CallFails(d) ==
  /\ call[d] # NoCall
  /\ Return(d)
  /\ UNCHANGED <<user, sessions, failures>>

AccountsNext ==
  \/ \E d \in Devices :
       \/ LoginReads(d) \/ LoginCommits(d)
       \/ SwitchReads(d) \/ SwitchReturns(d)
       \/ ChangeReads(d)
       \/ \E new \in {user.password + 1} \cap Passwords : ChangeCommits(d, new)
       \/ CallFails(d)
  \/ WrongPassword

AccountsSpec == AccountsInit /\ [][AccountsNext]_accountVars

----------------------------------------------------------------------------
AccountsTypeOK ==
  /\ user \in UserRows
  /\ sessions \subseteq Sessions
  /\ call \in [Devices -> Calls \cup {NoCall}]
  /\ failures \in 0 .. MaxAttempts

\* A session that still authenticates was opened with the password now in force, however
\* logins, switches and failed calls overlap a change (change_password: "Every token
\* issued before now stops authenticating").
CurrentSessionsOnly ==
  \A token \in sessions : Authenticates(token) => token.password = user.password

\* What authenticate says: "Failed attempts are counted and the account locks temporarily".
LockedAfterFailures == failures >= MaxAttempts => user.locked
=============================================================================
