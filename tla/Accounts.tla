--------------------------------- MODULE Accounts ---------------------------------
(*
Accounts (api/auth, deps.py, api/user/settings.py, services/user_admin.py and the user
forms of api/admin/routes.py) and the requests for quota that administrators review.

A session is a signed token with the name and the session_version of an account; nothing
of it is stored, so it ends only by its date or when the account's version moves on. Every
web request first authenticates, then works in a transaction of its own: where it locks
the row its decision and its write are one step, where it does not they are two.

The name of a deleted account may be taken again: the new account is another row, with
another id and the first version again. Tokens carry no id, only the name and the version;
requests under way refer to accounts by id.
*)
EXTENDS Integers, FiniteSets

CONSTANTS Users, Founder,   \* the bootstrap administrator
          Reqs,        \* web requests that may be under way at once
          Asks,        \* ids of quota requests
          MaxLives,      \* bound: accounts a name has in turn
          MaxPasswords,  \* bound: passwords an account has in turn
          MaxPending,  \* pending requests of a user, 3
          MaxForms     \* bound: forms sent

ASSUME AccountsAssumption ==
  /\ Founder \in Users /\ IsFiniteSet(Users) /\ IsFiniteSet(Reqs) /\ IsFiniteSet(Asks)
  /\ MaxLives \in Nat \ {0} /\ MaxPasswords \in Nat \ {0} /\ MaxPending \in Nat \ {0} /\ MaxForms \in Nat

VARIABLES user,      \* user[u]: the account of name u, with the number of its latest password;
                     \* its life, how many accounts the name has had, stands for the id
          sessions,  \* tokens that have not expired: name and version, and what nobody
                     \* stores, the account and the password they were issued for
          req,       \* req[r]: what request r has read
          ask,       \* ask[q]: a QuotaRequest
          granted,   \* granted[u]: units granted to the account by approvals
          forms

vars == <<user, sessions, req, ask, granted, forms>>

Roles == {"user", "sub_admin", "admin"}
Gone(life) == [status |-> "none", life |-> life]
NoAsk == [status |-> "none"]
Idle == [pc |-> "idle"]

Accounts == {u \in Users : user[u].status # "none"}
NewUser(role, life) ==
  [status |-> "active", role |-> role, version |-> 0, password |-> 1, life |-> life]
Id(u) == [user |-> u, life |-> user[u].life]
There(id) == id.user \in Accounts /\ user[id.user].life = id.life
ActiveAdmins == {u \in Accounts : user[u].role = "admin" /\ user[u].status = "active"}
AsksOf(u) == {q \in Asks : ask[q] # NoAsk /\ ask[q].user = u}
PendingOf(u) == {q \in AsksOf(u) : ask[q].status = "pending"}

--------------------------------------------------------------------------------
\* Sessions. user_for_token with session_version_matches

Valid(s) ==
  /\ s.user \in Accounts
  /\ user[s.user].status = "active"
  /\ s.version = user[s.user].version

\* Accounts that make a request now, and those of them an endpoint is open to.
Authenticated == {u \in Accounts : \E s \in sessions : s.user = u /\ Valid(s)}
SignedIn(roles) == {u \in Authenticated : user[u].role \in roles}

Sends(r) == req[r] = Idle /\ forms < MaxForms /\ forms' = forms + 1
Ends(r) == req' = [req EXCEPT ![r] = Idle]

\* create_user_with_wallet refuses the names of present accounts only, and so does the
\* bootstrap: an account and its wallet for a name that has none.
Creates(u, role) ==
  /\ u \notin Accounts /\ user[u].life < MaxLives
  /\ user' = [user EXCEPT ![u] = NewUser(role, user[u].life + 1)]
  /\ granted' = [granted EXCEPT ![u] = 0]

\* ensure_bootstrap_admin, when a web process starts; the others go on.
BootstrapAdmin ==
  /\ Creates(Founder, "admin")
  /\ UNCHANGED <<sessions, req, ask, forms>>

\* A login holds the account from reading the password to issuing the token.
UserLocked(u) == \E r \in Reqs : req[r].pc = "login" /\ req[r].id.user = u
Login(pc, u, life, version, p) ==
  [pc |-> pc, id |-> [user |-> u, life |-> life], version |-> version, password |-> p]

LoginReads(r, u, p) ==
  /\ Sends(r) /\ ~UserLocked(u)
  /\ u \in Accounts /\ user[u].password = p /\ user[u].status = "active"
  /\ req' = [req EXCEPT ![r] = Login("login", u, user[u].life, user[u].version, p)]
  /\ UNCHANGED <<user, sessions, ask, granted>>

Token(r) == [user |-> req[r].id.user, version |-> req[r].version,
             life |-> req[r].id.life, password |-> req[r].password]

\* The commit and the answer: the token itself, or a cookie that holds it.
LoginIssues(r) ==
  /\ req[r].pc \in {"login", "registered"}
  /\ sessions' = sessions \cup {Token(r)}
  /\ Ends(r)
  /\ UNCHANGED <<user, ask, granted, forms>>

SessionExpires(s) ==
  /\ s \in sessions
  /\ sessions' = sessions \ {s}
  /\ UNCHANGED <<user, req, ask, granted, forms>>

\* register_form: the account is committed before its token is made, and nothing is locked.
Register(r, u) ==
  /\ Sends(r) /\ Creates(u, "user")
  /\ req' = [req EXCEPT ![r] = Login("registered", u, user[u].life + 1, 0, 1)]
  /\ UNCHANGED <<sessions, ask>>

\* change_password: the version that authenticated must still be the account's.
ChangeAuthenticates(r, u) ==
  /\ Sends(r) /\ u \in SignedIn({"user"})
  /\ req' = [req EXCEPT ![r] = [pc |-> "change", id |-> Id(u), version |-> user[u].version]]
  /\ UNCHANGED <<user, sessions, ask, granted>>

\* Mutation of NewPassword: the old tokens stay good.
SameVersion(row) == [row EXCEPT !.password = @ + 1]
NewPassword(row) == [row EXCEPT !.password = @ + 1, !.version = @ + 1]

MayChange(r) ==
  LET row == user[req[r].id.user]
  IN There(req[r].id) /\ row.status = "active" /\ row.role = "user" /\ row.version = req[r].version

ChangeCommits(r) ==
  LET u == req[r].id.user
  IN /\ req[r].pc = "change" /\ ~UserLocked(u)
     /\ Ends(r)
     /\ IF MayChange(r) /\ user[u].password < MaxPasswords
        THEN user' = [user EXCEPT ![u] = NewPassword(@)] ELSE UNCHANGED user
     /\ UNCHANGED <<sessions, ask, granted, forms>>

--------------------------------------------------------------------------------
\* Forms of administrators on accounts. They read the account without a lock.

AdminReads(r, f) ==
  /\ Sends(r) /\ f.by.user \in SignedIn({"admin"})
  /\ req' = [req EXCEPT ![r] = f]
  /\ UNCHANGED <<user, sessions, ask, granted>>

CreateUser(r, a, u, role) ==
  /\ Sends(r) /\ a \in SignedIn({"admin"}) /\ Creates(u, role)
  /\ UNCHANGED <<sessions, req, ask>>

ToggleReads(r, a, u) ==
  /\ u \in Accounts
  /\ AdminReads(r, [pc |-> "toggle", id |-> Id(u), by |-> Id(a),
                    status |-> IF user[u].status = "active" THEN "disabled" ELSE "active"])

\* Not the own account, nor the last administrator's.
MayLose(a, u) == a # u /\ (user[u].role = "admin" => Cardinality(ActiveAdmins) > 1)

RoleReads(r, a, u, role) ==
  /\ u \in Accounts /\ (role # "admin" => MayLose(a, u))
  /\ AdminReads(r, [pc |-> "role", id |-> Id(u), by |-> Id(a), role |-> role])

DeleteReads(r, a, u) ==
  /\ u \in Accounts /\ MayLose(a, u)
  /\ AdminReads(r, [pc |-> "delete", id |-> Id(u), by |-> Id(a)])

ResetReads(r, a, u) ==
  /\ u \in Accounts
  /\ AdminReads(r, [pc |-> "reset", id |-> Id(u), by |-> Id(a)])

\* Mutation of AskLocked: the reviewer reads the request without a lock.
AskNeverLocked(q) == FALSE
\* A review holds the request from reading its status to its commit.
AskLocked(q) == \E r \in Reqs : req[r].pc = "review" /\ req[r].ask = q

\* The write. It fails if the account is gone, or the administrator, to whom the entry of
\* the audit log refers.
AdminWrites(r) ==
  LET u == req[r].id.user
      row == user[u]
  IN /\ req[r].pc \in {"toggle", "role", "delete", "reset"} /\ ~UserLocked(u)
     /\ req[r].pc = "delete" => \A q \in AsksOf(u) : ~AskLocked(q)
     /\ Ends(r)
     /\ IF There(req[r].id) /\ There(req[r].by)
        THEN /\ \/ req[r].pc = "toggle" /\ user' = [user EXCEPT ![u].status = req[r].status]
                \/ req[r].pc = "role" /\ user' = [user EXCEPT ![u].role = req[r].role]
                \/ req[r].pc = "delete" /\ user' = [user EXCEPT ![u] = Gone(row.life)]
                \/ req[r].pc = "reset" /\ row.password < MaxPasswords
                   /\ user' = [user EXCEPT ![u] = NewPassword(row)]
             /\ ask' = IF req[r].pc = "delete" THEN [q \in Asks |-> IF q \in AsksOf(u) THEN NoAsk ELSE ask[q]] ELSE ask
        ELSE UNCHANGED <<user, ask>>
     /\ UNCHANGED <<sessions, granted, forms>>

--------------------------------------------------------------------------------
\* Requests for quota. Creation counts first and inserts later.

AskCounts(r, u) ==
  /\ Sends(r) /\ u \in SignedIn(Roles) /\ Cardinality(PendingOf(u)) < MaxPending
  /\ req' = [req EXCEPT ![r] = [pc |-> "ask", id |-> Id(u)]]
  /\ UNCHANGED <<user, sessions, ask, granted>>

AskInserts(r, q) ==
  LET u == req[r].id.user
  IN /\ req[r].pc = "ask" /\ ask[q] = NoAsk
     /\ Ends(r)
     /\ ask' = IF There(req[r].id) THEN [ask EXCEPT ![q] = [status |-> "pending", user |-> u]] ELSE ask
     /\ UNCHANGED <<user, sessions, granted, forms>>

ReviewReads(r, a, q, verdict) ==
  /\ Sends(r) /\ a \in SignedIn({"admin", "sub_admin"})
  /\ ask[q].status = "pending" /\ ~AskLocked(q)
  /\ req' = [req EXCEPT ![r] = [pc |-> "review", id |-> Id(ask[q].user), ask |-> q, verdict |-> verdict, by |-> Id(a)]]
  /\ UNCHANGED <<user, sessions, ask, granted>>

ReviewCommits(r) ==
  LET q == req[r].ask
      u == req[r].id.user
  IN /\ req[r].pc = "review"
     /\ Ends(r)
     /\ IF ask[q] = NoAsk \/ ~There(req[r].by) THEN UNCHANGED <<ask, granted>>
        ELSE /\ ask' = [ask EXCEPT ![q].status = req[r].verdict]
             /\ granted' = [granted EXCEPT ![u] = IF req[r].verdict = "approved" THEN @ + 1 ELSE @]
     /\ UNCHANGED <<user, sessions, forms>>

--------------------------------------------------------------------------------
Init ==
  /\ user = [u \in Users |-> IF u = Founder THEN NewUser("admin", 1) ELSE Gone(0)]
  /\ sessions = {} /\ req = [r \in Reqs |-> Idle] /\ ask = [q \in Asks |-> NoAsk]
  /\ granted = [u \in Users |-> 0] /\ forms = 0

OwnNext(r) ==
  \/ \E u \in Users : \/ Register(r, u) \/ ChangeAuthenticates(r, u) \/ AskCounts(r, u)
                      \/ \E p \in 1..MaxPasswords : LoginReads(r, u, p)
  \/ LoginIssues(r) \/ ChangeCommits(r) \/ \E q \in Asks : AskInserts(r, q)

AdminNext(r) ==
  \/ \E a, u \in Users : \/ ToggleReads(r, a, u) \/ DeleteReads(r, a, u) \/ ResetReads(r, a, u)
                         \/ \E role \in Roles : CreateUser(r, a, u, role) \/ RoleReads(r, a, u, role)
  \/ \E a \in Users, q \in Asks, v \in {"approved", "rejected"} : ReviewReads(r, a, q, v)
  \/ AdminWrites(r) \/ ReviewCommits(r)

Next ==
  \/ \E r \in Reqs : OwnNext(r) \/ AdminNext(r)
  \/ BootstrapAdmin
  \/ \E s \in sessions : SessionExpires(s)

Spec == Init /\ [][Next]_vars

--------------------------------------------------------------------------------
\* Whoever has a session of an account that it accepts has given its present password: a
\* change or a reset ends every session of the account, also those whose login or
\* registration is under way in another request. Sessions of an earlier account of the name
\* are another matter: nothing in a token tells them apart (README).
SessionsKnowPassword ==
  \A s \in sessions :
    Valid(s) /\ s.life = user[s.user].life => s.password = user[s.user].password

\* Two reviewers of a request: it is decided once, and granted once if it is approved.
ReviewedOnce ==
  /\ \A u \in Accounts : granted[u] = Cardinality({q \in AsksOf(u) : ask[q].status = "approved"})
  /\ \A r \in Reqs : req[r].pc = "review" /\ ask[req[r].ask] # NoAsk => ask[req[r].ask].status = "pending"
================================================================================
