------------------------------ MODULE Accounts ------------------------------
(***************************************************************************)
(* Accounts, passwords and console sessions: app/api/auth.py,               *)
(* app/core/passwords.py, _principal_from_session of app/core/auth.py, the   *)
(* user handlers of app/api/admin.py, _bootstrap_admin of app/main.py and    *)
(* scripts/reset_password.py.  Hashing or checking a password leaves the     *)
(* event loop for a tenth of a second, so every handler reads its row, is    *)
(* away, and writes what it made of the row it read.  A session is a signed  *)
(* token that carries the account's epoch; there is no table of them.        *)
(***************************************************************************)
EXTENDS Integers, FiniteSets

CONSTANTS
    Names,          \* the external ids accounts may have
    Requests,       \* requests, starting workers and runs of the script, each used once
    Initial,        \* the tables of users to start from
    Engines,        \* the databases to start on: "postgresql", "sqlite"
    AdminName,      \* GW_ADMIN_USER
    NoPassword

VARIABLES
    engine,
    users,      \* name -> its row; only the names that have an account
    tokens,     \* the sessions that were signed: account, epoch, the password they stand on
    reqs,       \* request -> where it stands and the row it read
    printed,    \* <<account, password>> announced in the log of a starting worker
    changed,    \* accounts whose password was changed by their owner or by the script
    rewound,    \* an epoch was written over one that had moved since it was read
    raced,      \* a change of a role or status was judged on rows that have changed since
    unasked     \* accounts made without an administrator's say, by requests that never met

vars == <<engine, users, tokens, reqs, printed, changed, rewound, raced, unasked>>

\* A password is named after the request that chose it.
Passwords == Requests \cup {NoPassword, "initial"}
Row(role, status, pw, created) ==
    [role |-> role, status |-> status, pw |-> pw, epoch |-> 0, created |-> created]
Accounts == DOMAIN users
NewCreated == Cardinality(Accounts) + 1

Free == [op |-> "free", user |-> AdminName, row |-> Row("user", "active", NoPassword, 0),
         pw |-> NoPassword, change |-> <<>>, others |-> {}, alone |-> TRUE]

Open(r) == reqs[r].op \notin {"free", "done"}

\* Requests are alike: they are used in a fixed order.
Starts(r) == reqs[r] = Free /\ r = CHOOSE q \in Requests : reqs[q] = Free
Start(r, q) ==
    /\ Starts(r)
    /\ reqs' = [reqs EXCEPT ![r] = q]

Finish(r) == reqs' = [reqs EXCEPT ![r] = [Free EXCEPT !.op = "done"]]

With(n, row) == [m \in Accounts \cup {n} |-> IF m = n THEN row ELSE users[m]]

---------------------------------------------------------------------------
(* Who is there *)

ActiveAdmins == {n \in Accounts : users[n].role = "admin" /\ users[n].status = "active"}
AdminExists == \E n \in Accounts : users[n].role \in {"admin", "manager"}

\* _principal_from_session: the account is active and has the token's epoch.
Live(t) == /\ t.user \in Accounts
           /\ users[t.user].status = "active" /\ users[t.user].epoch = t.epoch

Signed(n, epoch, pw) == [user |-> n, epoch |-> epoch, pw |-> pw]

Init ==
    /\ engine \in Engines
    /\ users \in Initial
    /\ tokens = {Signed(n, 0, "initial") : n \in {m \in Accounts : users[m].pw # NoPassword}}
    /\ reqs = [r \in Requests |-> Free]
    /\ printed = {} /\ changed = {} /\ unasked = {}
    /\ rewound = FALSE /\ raced = FALSE

---------------------------------------------------------------------------
(* The lock of _leaves_no_active_admin: FOR UPDATE, on PostgreSQL only *)

Held(r) == IF engine = "postgresql" /\ reqs[r].op = "judged" THEN reqs[r].others ELSE {}
HeldByOthers(r) == UNION {Held(q) : q \in Requests \ {r}}

\* Two requests that each hold what the other one wants: one of them is aborted.
Deadlocked(r) ==
    \E q \in Requests \ {r} : reqs[r].user \in Held(q) /\ reqs[q].user \in Held(r)

Abort(r) ==
    /\ Open(r) /\ Deadlocked(r)
    /\ Finish(r)
    /\ UNCHANGED <<engine, users, tokens, printed, changed, rewound, raced, unasked>>

---------------------------------------------------------------------------
(* Making the first administrator *)

\* Another request that makes one is between its check and its commit.
Makers == {q \in Requests : reqs[q].op \in {"setup", "bootstrap"}}

\* setup: refused once an administrator or a manager exists.
Setup(r, n) ==
    /\ ~AdminExists
    /\ Starts(r)
    /\ reqs' = [q \in Requests |->
                  IF q = r THEN [Free EXCEPT !.op = "setup", !.user = n, !.pw = r,
                                             !.alone = (Makers = {})]
                  ELSE IF q \in Makers THEN [reqs[q] EXCEPT !.alone = FALSE] ELSE reqs[q]]
    /\ UNCHANGED <<engine, users, tokens, printed, changed, rewound, raced, unasked>>

\* external_id is unique: the loser's insert fails.
SetupCommit(r) ==
    LET q == reqs[r] IN
    /\ q.op = "setup"
    /\ Finish(r)
    /\ IF q.user \in Accounts THEN UNCHANGED <<users, tokens, unasked>>
       ELSE /\ users' = With(q.user, Row("admin", "active", q.pw, NewCreated))
            /\ tokens' = tokens \cup {Signed(q.user, 0, q.pw)}
            /\ unasked' = IF q.alone THEN unasked \cup {q.user} ELSE unasked
    /\ UNCHANGED <<engine, printed, changed, rewound, raced>>

Admins == {n \in Accounts : users[n].role = "admin"}
Oldest == CHOOSE n \in Admins : \A m \in Admins : users[n].created <= users[m].created

\* _bootstrap_admin, run by every worker that starts: nothing to do while one administrator
\* has a password; the oldest is given one if none has; an administrator is made if there
\* is none.
Bootstrap(r) ==
    /\ \A n \in Admins : users[n].pw = NoPassword
    /\ Starts(r)
    /\ reqs' = [q \in Requests |->
                  IF q = r THEN [Free EXCEPT !.op = IF Admins = {} THEN "bootstrap" ELSE "repair",
                                             !.user = IF Admins = {} THEN AdminName ELSE Oldest,
                                             !.pw = r, !.alone = (Makers = {})]
                  ELSE IF q \in Makers THEN [reqs[q] EXCEPT !.alone = FALSE] ELSE reqs[q]]
    /\ UNCHANGED <<engine, users, tokens, printed, changed, rewound, raced, unasked>>

BootstrapCommit(r) ==
    LET q == reqs[r] IN
    /\ q.op = "bootstrap"
    /\ Finish(r)
    /\ IF q.user \in Accounts THEN UNCHANGED <<users, printed, unasked>>
       ELSE /\ users' = With(q.user, Row("admin", "active", q.pw, NewCreated))
            /\ printed' = printed \cup {<<q.user, q.pw>>}
            /\ unasked' = IF q.alone THEN unasked \cup {q.user} ELSE unasked
    /\ UNCHANGED <<engine, tokens, changed, rewound, raced>>

\* UPDATE ... WHERE password_hash is empty; the password is printed only if a row was hit.
StillWithout(n) == users[n].pw = NoPassword

Repair(r) ==
    LET q == reqs[r] IN
    /\ q.op = "repair"
    /\ q.user \notin HeldByOthers(r)
    /\ Finish(r)
    /\ IF StillWithout(q.user)
       THEN /\ users' = [users EXCEPT ![q.user].pw = q.pw]
            /\ printed' = printed \cup {<<q.user, q.pw>>}
       ELSE UNCHANGED <<users, printed>>
    /\ UNCHANGED <<engine, tokens, changed, rewound, raced, unasked>>

---------------------------------------------------------------------------
(* Sessions *)

\* login: the row is read, the password is checked against it, the token carries its epoch.
Login(r, n, pw) ==
    /\ n \in Accounts
    /\ Start(r, [Free EXCEPT !.op = "login", !.user = n, !.row = users[n], !.pw = pw])
    /\ UNCHANGED <<engine, users, tokens, printed, changed, rewound, raced, unasked>>

LoginAnswer(r) ==
    LET q == reqs[r] IN
    /\ q.op = "login"
    /\ Finish(r)
    /\ tokens' = IF q.row.pw = q.pw /\ q.pw # NoPassword /\ q.row.status = "active"
                 THEN tokens \cup {Signed(q.user, q.row.epoch, q.pw)} ELSE tokens
    /\ UNCHANGED <<engine, users, printed, changed, rewound, raced, unasked>>

\* logout: only a session whose epoch is still the account's can end its sessions; the
\* account may be suspended.
Logout(r, t) ==
    /\ t.user \in Accounts /\ users[t.user].epoch = t.epoch
    /\ Start(r, [Free EXCEPT !.op = "logout", !.user = t.user, !.row = users[t.user]])
    /\ UNCHANGED <<engine, users, tokens, printed, changed, rewound, raced, unasked>>

\* A plausible bug: the sessions are left alone.
SameEpoch(q) == q.row.epoch

\* What a stale writer makes of the epoch: one more than the one it read.
NextEpoch(q) == q.row.epoch + 1
Stale(q) == users[q.user].epoch # q.row.epoch

LogoutCommit(r) ==
    LET q == reqs[r] IN
    /\ q.op = "logout"
    /\ q.user \notin HeldByOthers(r)
    /\ Finish(r)
    /\ users' = [users EXCEPT ![q.user].epoch = NextEpoch(q)]
    /\ rewound' = (rewound \/ Stale(q))
    /\ UNCHANGED <<engine, tokens, printed, changed, raced, unasked>>

\* change_password by a session that knows the current password, and reset_password.py.
ChangePassword(r, t) ==
    /\ Live(t)
    /\ users[t.user].pw = t.pw \/ users[t.user].pw = NoPassword
    /\ Start(r, [Free EXCEPT !.op = "password", !.user = t.user, !.row = users[t.user],
                             !.pw = r])
    /\ UNCHANGED <<engine, users, tokens, printed, changed, rewound, raced, unasked>>

ResetPassword(r, n) ==
    /\ n \in Accounts
    /\ Start(r, [Free EXCEPT !.op = "reset", !.user = n, !.row = users[n], !.pw = r])
    /\ UNCHANGED <<engine, users, tokens, printed, changed, rewound, raced, unasked>>

PasswordCommit(r) ==
    LET q == reqs[r] IN
    /\ q.op \in {"password", "reset"}
    /\ q.user \notin HeldByOthers(r)
    /\ Finish(r)
    /\ users' = [users EXCEPT ![q.user].pw = q.pw, ![q.user].epoch = NextEpoch(q)]
    /\ tokens' = IF q.op = "password" THEN tokens \cup {Signed(q.user, NextEpoch(q), q.pw)}
                 ELSE tokens
    /\ changed' = changed \cup {q.user}
    /\ rewound' = (rewound \/ Stale(q))
    /\ UNCHANGED <<engine, printed, raced, unasked>>

---------------------------------------------------------------------------
(* update_user, by an administrator *)

UpdateUser(r, t, n, change) ==
    /\ Live(t) /\ users[t.user].role = "admin"
    /\ n \in Accounts
    /\ Start(r, [Free EXCEPT !.op = "update", !.user = n, !.row = users[n], !.change = change])
    /\ UNCHANGED <<engine, users, tokens, printed, changed, rewound, raced, unasked>>

\* The row as it will be, and whether an active administrator goes.
Field(q) == q.change[1]
Changed(q) == [q.row EXCEPT ![Field(q)] = q.change[2]]
GivesUp(q) ==
    /\ q.row.role = "admin" /\ q.row.status = "active"
    /\ ~(Changed(q).role = "admin" /\ Changed(q).status = "active")

\* A plausible bug: administrators who are suspended count as well.
OthersByRole(n) == Admins \ {n}

\* The administrators who would remain.
Others(n) == ActiveAdmins \ {n}

\* _leaves_no_active_admin: the other active administrators are counted, and locked on
\* PostgreSQL, which waits for whoever holds one of them.
Judge(r) ==
    LET q == reqs[r]
        others == Others(q.user)
    IN
    /\ q.op = "update"
    /\ IF ~GivesUp(q) THEN reqs' = [reqs EXCEPT ![r].op = "judged"]
       ELSE /\ others \cap HeldByOthers(r) = {}
            /\ IF others = {} THEN Finish(r)
               ELSE reqs' = [reqs EXCEPT ![r].op = "judged", ![r].others = others]
    /\ UNCHANGED <<engine, users, tokens, printed, changed, rewound, raced, unasked>>

\* Only a column that differs from the row that was read is written.
UpdateCommit(r) ==
    LET q == reqs[r] IN
    /\ q.op = "judged"
    /\ q.user \notin HeldByOthers(r)
    /\ Finish(r)
    /\ users' = IF q.row[Field(q)] = q.change[2] THEN users
                ELSE [users EXCEPT ![q.user][Field(q)] = q.change[2]]
    /\ raced' = (raced \/ users[q.user].role # q.row.role \/ users[q.user].status # q.row.status
                       \/ (engine = "sqlite" /\ q.others # {} /\ ActiveAdmins \ {q.user} # q.others))
    /\ UNCHANGED <<engine, tokens, printed, changed, rewound, unasked>>

Changes == {<<"role", "manager">>, <<"role", "admin">>,
            <<"status", "suspended">>, <<"status", "active">>}

Next ==
    \E r \in Requests :
        \/ \E n \in Names : Setup(r, n) \/ ResetPassword(r, n)
        \/ \E n \in Names, pw \in Passwords : Login(r, n, pw)
        \/ \E t \in tokens : Logout(r, t) \/ ChangePassword(r, t)
        \/ \E t \in tokens, n \in Names, change \in Changes : UpdateUser(r, t, n, change)
        \/ Bootstrap(r) \/ SetupCommit(r) \/ BootstrapCommit(r) \/ Repair(r)
        \/ LoginAnswer(r) \/ LogoutCommit(r) \/ PasswordCommit(r)
        \/ Judge(r) \/ UpdateCommit(r) \/ Abort(r)

Spec == Init /\ [][Next]_vars

---------------------------------------------------------------------------
TypeOK ==
    /\ Accounts \subseteq Names
    /\ \A n \in Accounts : /\ users[n].role \in {"admin", "manager", "user"}
                           /\ users[n].status \in {"active", "suspended"}
                           /\ users[n].pw \in Passwords
                           /\ users[n].epoch \in 0..Cardinality(Requests)
    /\ \A t \in tokens : t.user \in Accounts /\ t.pw \in Passwords \ {NoPassword}
    /\ \A r \in Requests : reqs[r].user \in Names /\ reqs[r].pw \in Passwords

\* Someone can still administer: PostgreSQL's row locks keep two administrators from
\* putting each other out; what was judged on rows that have changed since is excepted.
AnAdministratorRemains ==
    (ActiveAdmins = {} /\ Admins # {}) => raced

\* Every password printed in a log opens the account it was printed for, however many
\* workers started at once, until its owner or the script changes it.
PrintedPasswordWorks ==
    \A p \in printed : p[1] \in Accounts /\ (users[p[1]].pw = p[2] \/ p[1] \in changed)

\* A session that works stands on the password its account has now, and no other: changing
\* a password signs out every session opened with the one before.
SessionsKnowThePassword ==
    \A t \in tokens : Live(t) => users[t.user].pw = t.pw

\* The same, unless an epoch was written over one that had moved.
UnlessRewound == SessionsKnowThePassword \/ rewound

\* Without an administrator's say there is one account at most, unless setups or starting
\* workers met.  Administrators who put each other out have a starting worker make another.
OneUnasked == Cardinality(unasked) <= 1 \/ raced

\* Somebody can get in and administer, and nobody got in unasked: an administrator remains,
\* the printed password opens its account, and one account at most was made without asking.
AdministrationLasts == TypeOK /\ AnAdministratorRemains /\ PrintedPasswordWorks /\ OneUnasked

=============================================================================
