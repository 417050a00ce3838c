----------------------------- MODULE AccountsProofs -----------------------------
(*
Sessions and passwords of Accounts, and the reviews of quota requests, for any number of
accounts, of accounts a name has in turn, requests under way, passwords and forms.
*)
EXTENDS Accounts, FiniteSetTheorems, TLAPS

Row == [status : {"active", "disabled"}, role : Roles, version : Nat, password : Nat, life : Nat]
GoneRow == [status : {"none"}, life : Nat]
AccountId == [user : Users, life : Nat]
Ask == [status : {"pending", "approved", "rejected"}, user : Users]
Request ==
  {Idle} \cup [pc : {"login", "registered"}, id : AccountId, version : Nat, password : Nat]
         \cup [pc : {"change"}, id : AccountId, version : Nat]
         \cup [pc : {"toggle"}, id : AccountId, status : {"active", "disabled"}, by : AccountId]
         \cup [pc : {"role"}, id : AccountId, role : Roles, by : AccountId]
         \cup [pc : {"delete", "reset"}, id : AccountId, by : AccountId]
         \cup [pc : {"ask"}, id : AccountId]
         \cup [pc : {"review"}, id : AccountId, ask : Asks, verdict : {"approved", "rejected"},
               by : AccountId]
Tokens == [user : Users, version : Nat, life : Nat, password : Nat]

AccountTypes ==
  /\ user \in [Users -> GoneRow \cup Row]
  /\ sessions \subseteq Tokens
  /\ req \in [Reqs -> Request]
  /\ ask \in [Asks -> {NoAsk} \cup Ask]
  /\ granted \in [Users -> Nat]

\* A token, issued or about to be, is of no later account than the present one, and if of
\* the present one, of its present version only with its present password, and never of a
\* later version.
Fits(t) ==
  /\ t.life <= user[t.user].life
  /\ t.user \in Accounts /\ t.life = user[t.user].life =>
       /\ t.version <= user[t.user].version
       /\ t.version = user[t.user].version => t.password = user[t.user].password

TokenOf(x) == [user |-> x.id.user, version |-> x.version, life |-> x.id.life, password |-> x.password]
Opening(x) == x.pc \in {"login", "registered"}

TokensFit ==
  /\ \A s \in sessions : Fits(s)
  /\ \A r \in Reqs : Opening(req[r]) => Fits(TokenOf(req[r]))

LEMMA RowTypes ==
  /\ \A row \in GoneRow : row.status = "none" /\ row.life \in Nat
  /\ \A n \in Nat : Gone(n) \in GoneRow /\ Gone(n).life = n
  /\ \A role \in Roles, n \in Nat :
       /\ NewUser(role, n) \in Row /\ NewUser(role, n).version = 0
       /\ NewUser(role, n).password = 1 /\ NewUser(role, n).life = n
  /\ \A row \in Row : /\ NewPassword(row) \in Row
                      /\ NewPassword(row).version > row.version
                      /\ NewPassword(row).life = row.life
                      /\ row.version \in Nat /\ row.life \in Nat /\ row.status # "none"
                      /\ \A s \in {"active", "disabled"} :
                           /\ [row EXCEPT !.status = s] \in Row
                           /\ [row EXCEPT !.status = s].version = row.version
                           /\ [row EXCEPT !.status = s].password = row.password
                           /\ [row EXCEPT !.status = s].life = row.life
                      /\ \A role \in Roles :
                           /\ [row EXCEPT !.role = role] \in Row
                           /\ [row EXCEPT !.role = role].version = row.version
                           /\ [row EXCEPT !.role = role].password = row.password
                           /\ [row EXCEPT !.role = role].life = row.life
  <1>1. \A n \in Nat : Gone(n) \in GoneRow /\ Gone(n).life = n
    BY DEF Gone, GoneRow
  <1>2. \A role \in Roles, n \in Nat :
          /\ NewUser(role, n) \in Row /\ NewUser(role, n).version = 0
          /\ NewUser(role, n).password = 1 /\ NewUser(role, n).life = n
    BY DEF NewUser, Row
  <1>3. ASSUME NEW row \in Row
        PROVE  /\ NewPassword(row) \in Row
               /\ NewPassword(row).version > row.version
               /\ NewPassword(row).life = row.life
               /\ row.version \in Nat /\ row.life \in Nat /\ row.status # "none"
    <2>1. row.version \in Nat /\ row.password \in Nat /\ row.life \in Nat /\ row.status # "none"
      BY DEF Row
    <2>2. row.version + 1 \in Nat /\ row.password + 1 \in Nat
      BY <2>1
    <2>3. \A m, n \in Nat : /\ [row EXCEPT !.password = m, !.version = n] \in Row
                            /\ [row EXCEPT !.password = m, !.version = n].version = n
                            /\ [row EXCEPT !.password = m, !.version = n].life = row.life
      BY DEF Row
    <2>4. row.version + 1 > row.version
      BY <2>1
    <2>5. /\ NewPassword(row) \in Row /\ NewPassword(row).version = row.version + 1
          /\ NewPassword(row).life = row.life
      BY <2>2, <2>3 DEF NewPassword
    <2> QED BY <2>1, <2>4, <2>5
  <1>4. ASSUME NEW row \in Row, NEW s \in {"active", "disabled"}
        PROVE  /\ [row EXCEPT !.status = s] \in Row
               /\ [row EXCEPT !.status = s].version = row.version
               /\ [row EXCEPT !.status = s].password = row.password
               /\ [row EXCEPT !.status = s].life = row.life
    BY DEF Row
  <1>5. ASSUME NEW row \in Row, NEW role \in Roles
        PROVE  /\ [row EXCEPT !.role = role] \in Row
               /\ [row EXCEPT !.role = role].version = row.version
               /\ [row EXCEPT !.role = role].password = row.password
               /\ [row EXCEPT !.role = role].life = row.life
    BY DEF Row
  <1>6. \A row \in GoneRow : row.status = "none" /\ row.life \in Nat
    BY DEF GoneRow
  <1> QED BY <1>1, <1>2, <1>3, <1>4, <1>5, <1>6

\* Present accounts have a Row, the others none.
LEMMA Present ==
  ASSUME AccountTypes
  PROVE  /\ \A u \in Users : u \in Accounts => user[u] \in Row
         /\ \A u \in Users : u \notin Accounts => user[u] \in GoneRow
         /\ \A u \in Users : user[u].life \in Nat
         /\ \A u \in Users : u \in Accounts => user[u].version \in Nat
         /\ Accounts \subseteq Users
  BY RowTypes DEF AccountTypes, Accounts

\* How an account may change: one appears, another life; it goes; or its version moves on
\* with its password.
Evolves(u) ==
  \/ user'[u] = user[u]
  \/ user[u] \in GoneRow /\ user'[u] \in Row /\ user'[u].life = user[u].life + 1
  \/ user[u] \in Row /\ user'[u] = Gone(user[u].life)
  \/ /\ user[u] \in Row /\ user'[u] \in Row /\ user'[u].life = user[u].life
     /\ \/ user'[u].version = user[u].version /\ user'[u].password = user[u].password
        \/ user'[u].version > user[u].version

\* What is granted to an account stays as long as the account, and begins at nothing.
Keeps(u) ==
  /\ u \in Accounts => u \in Accounts' /\ granted'[u] = granted[u]
  /\ u \notin Accounts => u \notin Accounts' \/ granted'[u] = 0

LEMMA FitsKept ==
  ASSUME AccountTypes, AccountTypes', NEW t, t.user \in Users, t.version \in Nat, t.life \in Nat,
         Fits(t), Evolves(t.user)
  PROVE  /\ t.life <= user'[t.user].life
         /\ t.user \in Accounts' /\ t.life = user'[t.user].life =>
              /\ t.version <= user'[t.user].version
              /\ t.version = user'[t.user].version => t.password = user'[t.user].password
  <1> DEFINE u == t.user
  <1>0. /\ user[u].life \in Nat /\ t.life <= user[u].life
        /\ u \in Accounts' => user'[u].status # "none"
    BY Present DEF Fits, Accounts
  <1>1. CASE user'[u] = user[u]
    BY <1>1 DEF Fits, Accounts
  <1>2. CASE user[u] \in GoneRow /\ user'[u] \in Row /\ user'[u].life = user[u].life + 1
    BY <1>0, <1>2
  <1>3. CASE user[u] \in Row /\ user'[u] = Gone(user[u].life)
    <2>1. user'[u].life = user[u].life /\ user'[u].status = "none"
      BY <1>0, <1>3 DEF Gone
    <2> QED BY <1>0, <2>1
  <1>4. CASE /\ user[u] \in Row /\ user'[u] \in Row /\ user'[u].life = user[u].life
             /\ \/ user'[u].version = user[u].version /\ user'[u].password = user[u].password
                \/ user'[u].version > user[u].version
    <2>1. u \in Accounts /\ user[u].version \in Nat /\ user'[u].version \in Nat
      BY <1>4, RowTypes DEF Accounts
    <2> QED BY <1>0, <1>4, <2>1 DEF Fits
  <1> QED BY <1>1, <1>2, <1>3, <1>4 DEF Evolves

LEMMA AccountInit == Init => AccountTypes /\ TokensFit
  <1> SUFFICES ASSUME Init PROVE AccountTypes /\ TokensFit OBVIOUS
  <1>1. user \in [Users -> GoneRow \cup Row]
    <2>1. "admin" \in Roles /\ NewUser("admin", 1) \in Row /\ Gone(0) \in GoneRow
      BY RowTypes DEF Roles
    <2> HIDE DEF NewUser, Gone
    <2> QED BY <2>1 DEF Init
  <1>2. \A r \in Reqs : req[r] = Idle
    BY DEF Init
  <1>3. AccountTypes
    BY <1>1 DEF Init, AccountTypes, Request
  <1> QED BY <1>2, <1>3 DEF Init, TokensFit, Idle, Opening

\* Forms and requests that only read, and those that touch no account.
LEMMA RequestTypes ==
  /\ Idle \in Request
  /\ \A u \in Users, n \in Nat, v, p \in Nat, pc \in {"login", "registered"} :
       Login(pc, u, n, v, p) \in Request
  /\ \A id \in AccountId :
       /\ \A v \in Nat : [pc |-> "change", id |-> id, version |-> v] \in Request
       /\ [pc |-> "ask", id |-> id] \in Request
       /\ \A by \in AccountId :
            /\ \A s \in {"active", "disabled"} :
                 [pc |-> "toggle", id |-> id, by |-> by, status |-> s] \in Request
            /\ \A role \in Roles : [pc |-> "role", id |-> id, by |-> by, role |-> role] \in Request
            /\ [pc |-> "delete", id |-> id, by |-> by] \in Request
            /\ [pc |-> "reset", id |-> id, by |-> by] \in Request
            /\ \A q \in Asks, v \in {"approved", "rejected"} :
                 [pc |-> "review", id |-> id, ask |-> q, verdict |-> v, by |-> by] \in Request
  <1>1. Idle \in Request
    BY DEF Request
  <1>2. ASSUME NEW id \in AccountId
        PROVE  /\ \A v \in Nat : [pc |-> "change", id |-> id, version |-> v] \in Request
               /\ [pc |-> "ask", id |-> id] \in Request
               /\ \A v, p \in Nat, pc \in {"login", "registered"} :
                    [pc |-> pc, id |-> id, version |-> v, password |-> p] \in Request
    BY DEF Request
  <1>3. ASSUME NEW id \in AccountId, NEW by \in AccountId
        PROVE  /\ \A s \in {"active", "disabled"} :
                    [pc |-> "toggle", id |-> id, by |-> by, status |-> s] \in Request
               /\ \A role \in Roles : [pc |-> "role", id |-> id, by |-> by, role |-> role] \in Request
               /\ [pc |-> "delete", id |-> id, by |-> by] \in Request
               /\ [pc |-> "reset", id |-> id, by |-> by] \in Request
    BY DEF Request
  <1>4. ASSUME NEW id \in AccountId, NEW by \in AccountId, NEW q \in Asks,
               NEW v \in {"approved", "rejected"}
        PROVE  [pc |-> "review", id |-> id, ask |-> q, verdict |-> v, by |-> by] \in Request
    BY DEF Request
  <1>5. ASSUME NEW u \in Users, NEW n \in Nat, NEW v \in Nat, NEW p \in Nat,
               NEW pc \in {"login", "registered"}
        PROVE  Login(pc, u, n, v, p) \in Request
    <2>1. [user |-> u, life |-> n] \in AccountId
      BY DEF AccountId
    <2> QED BY <1>2, <2>1 DEF Login
  <1> QED BY <1>1, <1>2, <1>3, <1>4, <1>5

LEMMA RequestFields ==
  ASSUME NEW t \in Request
  PROVE  /\ t.pc # "idle" => t.id \in AccountId /\ t.id.user \in Users /\ t.id.life \in Nat
         /\ Opening(t) => /\ t.version \in Nat /\ t.password \in Nat
                          /\ TokenOf(t) \in Tokens
                          /\ TokenOf(t).user \in Users /\ TokenOf(t).version \in Nat
                          /\ TokenOf(t).life \in Nat
         /\ t.pc = "toggle" => t.status \in {"active", "disabled"}
         /\ t.pc = "role" => t.role \in Roles
         /\ t.pc = "review" => t.ask \in Asks /\ t.verdict \in {"approved", "rejected"}
  <1>1. /\ t.pc # "idle" => t.id \in AccountId
        /\ Opening(t) => t.version \in Nat /\ t.password \in Nat
        /\ t.pc = "toggle" => t.status \in {"active", "disabled"}
        /\ t.pc = "role" => t.role \in Roles
        /\ t.pc = "review" => t.ask \in Asks /\ t.verdict \in {"approved", "rejected"}
    BY DEF Request, Idle, Opening
  <1>2. t.pc # "idle" => t.id.user \in Users /\ t.id.life \in Nat
    BY <1>1 DEF AccountId
  <1>3. Opening(t) => t.pc # "idle"
    BY DEF Opening
  <1> QED BY <1>1, <1>2, <1>3 DEF TokenOf, Tokens

\* A request that reads: it takes a record, and if that opens a session, one that fits.
LEMMA Reading ==
  ASSUME AccountTypes, TokensFit, NEW r \in Reqs, NEW t \in Request,
         req' = [req EXCEPT ![r] = t], UNCHANGED <<user, sessions, ask, granted>>,
         Opening(t) => Fits(TokenOf(t))
  PROVE  /\ AccountTypes' /\ TokensFit'
         /\ \A u \in Users : Evolves(u) /\ Keeps(u)
  <1>1. AccountTypes'
    BY DEF AccountTypes
  <1>2. \A x : Fits(x) => Fits(x)'
    BY DEF Fits, Accounts
  <1>3. ASSUME NEW i \in Reqs, Opening(req'[i]) PROVE Fits(TokenOf(req[i]))'
    <2>1. CASE i = r
      <3>1. req'[i] = t
        BY <2>1 DEF AccountTypes
      <3>2. Fits(TokenOf(t))
        BY <1>3, <3>1
      <3> QED BY <3>1, <3>2 DEF Fits, Accounts, TokenOf
    <2>2. CASE i # r
      <3>1. req'[i] = req[i]
        BY <2>2 DEF AccountTypes
      <3>2. Fits(TokenOf(req[i]))
        BY <1>3, <3>1 DEF TokensFit
      <3> QED BY <3>1, <3>2 DEF Fits, Accounts, TokenOf
    <2> QED BY <2>1, <2>2
  <1>4. \A i \in Reqs : Opening(req[i])' => Fits(TokenOf(req[i]))'
    BY <1>3 DEF Opening
  <1>5. \A u \in Users : Evolves(u) /\ Keeps(u)
    BY DEF Evolves, Keeps, Accounts
  <1> QED BY <1>1, <1>2, <1>4, <1>5 DEF TokensFit

\* A request that writes an account.
LEMMA Writing ==
  ASSUME AccountTypes, TokensFit, NEW r \in Reqs, NEW t \in Request,
         req' = [req EXCEPT ![r] = t], UNCHANGED sessions,
         user' \in [Users -> GoneRow \cup Row], \A u \in Users : Evolves(u),
         ask' \in [Asks -> {NoAsk} \cup Ask], granted' \in [Users -> Nat],
         Opening(t) => Fits(TokenOf(t))'
  PROVE  AccountTypes' /\ TokensFit'
  <1>1. AccountTypes'
    BY DEF AccountTypes
  <1>2. ASSUME NEW x, x.user \in Users, x.version \in Nat, x.life \in Nat, Fits(x) PROVE
               /\ x.life <= user'[x.user].life
               /\ x.user \in Accounts' /\ x.life = user'[x.user].life =>
                    /\ x.version <= user'[x.user].version
                    /\ x.version = user'[x.user].version => x.password = user'[x.user].password
    BY <1>1, <1>2, FitsKept
  <1>3. ASSUME NEW s \in sessions PROVE Fits(s)'
    <2>1. s.user \in Users /\ s.version \in Nat /\ s.life \in Nat /\ Fits(s)
      BY <1>3 DEF AccountTypes, TokensFit, Tokens
    <2> QED BY <1>2, <2>1 DEF Fits
  <1>4. ASSUME NEW i \in Reqs, Opening(req'[i]) PROVE Fits(TokenOf(req[i]))'
    <2>1. CASE i = r
      <3>1. req'[i] = t
        BY <2>1 DEF AccountTypes
      <3> QED BY <1>4, <3>1 DEF Fits, Accounts, TokenOf
    <2>2. CASE i # r
      <3>1. req'[i] = req[i] /\ req[i] \in Request
        BY <2>2 DEF AccountTypes
      <3> DEFINE x == TokenOf(req[i])
      <3>2. Fits(x) /\ x.user \in Users /\ x.version \in Nat /\ x.life \in Nat
        BY <1>4, <3>1, RequestFields DEF TokensFit
      <3>3. TokenOf(req[i])' = x
        BY <3>1 DEF TokenOf
      <3> HIDE DEF x
      <3> QED BY <1>2, <3>2, <3>3 DEF Fits
    <2> QED BY <2>1, <2>2
  <1>5. \A i \in Reqs : Opening(req[i])' => Fits(TokenOf(req[i]))'
    BY <1>4 DEF Opening
  <1> QED BY <1>1, <1>3, <1>5 DEF TokensFit

\* A new account: its name had none, and no token is of its life yet.
LEMMA CreatesStep ==
  ASSUME AccountTypes, NEW u \in Users, NEW role \in Roles, Creates(u, role)
  PROVE  /\ user' \in [Users -> GoneRow \cup Row] /\ granted' \in [Users -> Nat]
         /\ \A v \in Users : Evolves(v) /\ Keeps(v)
         /\ user[u].life \in Nat
         /\ user'[u] = NewUser(role, user[u].life + 1)
  <1>1. /\ u \notin Accounts /\ user[u] \in GoneRow /\ user[u].life \in Nat
        /\ user' = [user EXCEPT ![u] = NewUser(role, user[u].life + 1)]
        /\ granted' = [granted EXCEPT ![u] = 0]
    BY Present DEF Creates
  <1>2. user[u].life + 1 \in Nat
    BY <1>1
  <1>3. /\ NewUser(role, user[u].life + 1) \in Row
        /\ NewUser(role, user[u].life + 1).life = user[u].life + 1
    BY <1>2, RowTypes
  <1>4. user'[u] = NewUser(role, user[u].life + 1) /\ \A v \in Users \ {u} : user'[v] = user[v]
    BY <1>1 DEF AccountTypes
  <1>5. user' \in [Users -> GoneRow \cup Row]
    BY <1>1, <1>3 DEF AccountTypes
  <1>6. \A v \in Users : Evolves(v)
    BY <1>1, <1>3, <1>4 DEF Evolves
  <1>7. granted' \in [Users -> Nat] /\ granted'[u] = 0 /\ \A v \in Users \ {u} : granted'[v] = granted[v]
    BY <1>1 DEF AccountTypes
  <1>8. \A v \in Users : Keeps(v)
    BY <1>1, <1>4, <1>7 DEF Keeps, Accounts
  <1> QED BY <1>1, <1>4, <1>5, <1>6, <1>7, <1>8

LEMMA LoginStep ==
  ASSUME AccountTypes, TokensFit, NEW r \in Reqs, LoginIssues(r)
  PROVE  /\ AccountTypes' /\ TokensFit'
         /\ \A u \in Users : Evolves(u) /\ Keeps(u)
  <1>1. /\ req[r] \in Request /\ Opening(req[r]) /\ Fits(TokenOf(req[r]))
        /\ UNCHANGED <<user, ask, granted>> /\ req' = [req EXCEPT ![r] = Idle]
        /\ sessions' = sessions \cup {TokenOf(req[r])}
    BY DEF AccountTypes, TokensFit, LoginIssues, Ends, Opening, Token, TokenOf
  <1>2. TokenOf(req[r]) \in Tokens
    BY <1>1, RequestFields
  <1>3. AccountTypes'
    BY <1>1, <1>2, RequestTypes DEF AccountTypes
  <1>4. ASSUME NEW s \in sessions' PROVE Fits(s)'
    <2>1. Fits(s)
      BY <1>1, <1>4 DEF TokensFit
    <2> QED BY <1>1, <2>1 DEF Fits, Accounts
  <1>5. ASSUME NEW i \in Reqs, Opening(req'[i]) PROVE Fits(TokenOf(req[i]))'
    <2>1. req'[i] = req[i]
      BY <1>1, <1>5 DEF AccountTypes, Idle, Opening
    <2>2. Fits(TokenOf(req[i]))
      BY <1>5, <2>1 DEF TokensFit
    <2> QED BY <1>1, <2>1, <2>2 DEF Fits, Accounts, TokenOf
  <1>6. \A i \in Reqs : Opening(req[i])' => Fits(TokenOf(req[i]))'
    BY <1>5 DEF Opening
  <1>7. \A u \in Users : Evolves(u) /\ Keeps(u)
    BY <1>1 DEF Evolves, Keeps, Accounts
  <1> QED BY <1>3, <1>4, <1>6, <1>7 DEF TokensFit

LEMMA ExpiryStep ==
  ASSUME AccountTypes, TokensFit, NEW s, SessionExpires(s)
  PROVE  AccountTypes' /\ TokensFit'
  <1>1. AccountTypes'
    BY DEF AccountTypes, SessionExpires
  <1>2. ASSUME NEW t, Fits(t) PROVE Fits(t)'
    BY <1>2 DEF Fits, Accounts, SessionExpires
  <1>3. \A t \in sessions' : Fits(t)'
    BY <1>2 DEF SessionExpires, TokensFit
  <1>4. ASSUME NEW i \in Reqs, Opening(req'[i]) PROVE Fits(TokenOf(req[i]))'
    <2>1. req' = req /\ user' = user
      BY DEF SessionExpires
    <2>2. Fits(TokenOf(req[i]))
      BY <1>4, <2>1 DEF TokensFit
    <2> QED BY <2>1, <2>2 DEF Fits, Accounts, TokenOf
  <1>5. \A i \in Reqs : Opening(req[i])' => Fits(TokenOf(req[i]))'
    BY <1>4 DEF Opening
  <1> QED BY <1>1, <1>3, <1>5 DEF TokensFit

LEMMA BootstrapStep ==
  ASSUME AccountTypes, TokensFit, BootstrapAdmin
  PROVE  /\ AccountTypes' /\ TokensFit'
         /\ \A u \in Users : Evolves(u) /\ Keeps(u)
  <1>1. Founder \in Users /\ "admin" \in Roles /\ Creates(Founder, "admin")
        /\ UNCHANGED <<sessions, req, ask>>
    BY AccountsAssumption DEF BootstrapAdmin, Roles
  <1>2. /\ user' \in [Users -> GoneRow \cup Row] /\ granted' \in [Users -> Nat]
        /\ \A u \in Users : Evolves(u) /\ Keeps(u)
    BY <1>1, CreatesStep
  <1>3. AccountTypes'
    BY <1>1, <1>2 DEF AccountTypes
  <1>4. ASSUME NEW x \in Tokens, Fits(x) PROVE
               /\ x.life <= user'[x.user].life
               /\ x.user \in Accounts' /\ x.life = user'[x.user].life =>
                    /\ x.version <= user'[x.user].version
                    /\ x.version = user'[x.user].version => x.password = user'[x.user].password
    <2>1. x.user \in Users /\ x.version \in Nat /\ x.life \in Nat /\ Evolves(x.user)
      BY <1>2 DEF Tokens
    <2> QED BY <1>3, <1>4, <2>1, FitsKept
  <1>5. \A s \in sessions' : Fits(s)'
    BY <1>1, <1>4 DEF AccountTypes, TokensFit, Fits
  <1>6. ASSUME NEW i \in Reqs, Opening(req[i])' PROVE Fits(TokenOf(req[i]))'
    <2>1. req' = req /\ req[i] \in Request /\ Opening(req[i])
      BY <1>1, <1>6 DEF AccountTypes, Opening
    <2> DEFINE x == TokenOf(req[i])
    <2>2. x \in Tokens /\ Fits(x)
      BY <2>1, RequestFields DEF TokensFit
    <2>3. TokenOf(req[i])' = x
      BY <2>1 DEF TokenOf
    <2> HIDE DEF x
    <2> QED BY <1>4, <2>2, <2>3 DEF Fits
  <1> QED BY <1>2, <1>3, <1>5, <1>6 DEF TokensFit

\* The account a request refers to, while it is there, and the id it is given.
LEMMA Ids ==
  ASSUME AccountTypes
  PROVE  /\ \A u \in Users : Id(u) \in AccountId
         /\ \A id \in AccountId : There(id) => id.user \in Accounts /\ user[id.user] \in Row
         /\ \A roles : SignedIn(roles) \subseteq Accounts
  BY Present DEF Id, AccountId, There, SignedIn, Authenticated

LEMMA OwnStep ==
  ASSUME AccountTypes, TokensFit, NEW r \in Reqs, OwnNext(r)
  PROVE  /\ AccountTypes' /\ TokensFit'
         /\ \A u \in Users : Evolves(u) /\ Keeps(u)
  <1> DEFINE Goal == /\ AccountTypes' /\ TokensFit'
                     /\ \A u \in Users : Evolves(u) /\ Keeps(u)
  <1>0. \A u \in Users : u \in Accounts => user[u] \in Row /\ user[u].version \in Nat
    BY Present
  <1>1. ASSUME NEW u \in Users, Register(r, u) PROVE Goal
    <2>0. user[u].life \in Nat
      BY Present
    <2>1. PICK n \in Nat : n = user[u].life + 1
      BY <2>0
    <2> DEFINE t == Login("registered", u, n, 0, 1)
    <2>2. /\ req' = [req EXCEPT ![r] = t] /\ UNCHANGED <<sessions, ask>>
          /\ Creates(u, "user") /\ "user" \in Roles
      BY <1>1, <2>1 DEF Register, Roles
    <2>3. /\ user' \in [Users -> GoneRow \cup Row] /\ granted' \in [Users -> Nat]
          /\ \A v \in Users : Evolves(v) /\ Keeps(v)
          /\ user'[u] = NewUser("user", n)
      BY <2>1, <2>2, CreatesStep
    <2>4. /\ NewUser("user", n).version = 0 /\ NewUser("user", n).password = 1
          /\ NewUser("user", n).life = n
      BY <2>2, RowTypes
    <2>5. t \in Request
      BY RequestTypes
    <2>6. /\ TokenOf(t).user = u /\ TokenOf(t).version = 0 /\ TokenOf(t).life = n
          /\ TokenOf(t).password = 1
      BY DEF TokenOf, Login
    <2>7. Fits(TokenOf(t))'
      BY <2>3, <2>4, <2>6 DEF Fits
    <2>8. ask' \in [Asks -> {NoAsk} \cup Ask]
      BY <2>2 DEF AccountTypes
    <2> HIDE DEF t
    <2>9. AccountTypes' /\ TokensFit'
      BY <2>2, <2>3, <2>5, <2>7, <2>8, Writing
    <2> QED BY <2>3, <2>9
  <1>2. ASSUME NEW u \in Users, NEW p \in 1..MaxPasswords, LoginReads(r, u, p) PROVE Goal
    <2> DEFINE t == Login("login", u, user[u].life, user[u].version, p)
    <2>1. /\ req' = [req EXCEPT ![r] = t] /\ u \in Accounts /\ user[u].password = p
          /\ UNCHANGED <<user, sessions, ask, granted>>
      BY <1>2 DEF LoginReads
    <2>2. user[u].life \in Nat /\ user[u].version \in Nat
      BY <2>1, Present
    <2>3. t \in Request
      <3>1. p \in Nat
        BY AccountsAssumption
      <3> QED BY <2>2, <3>1, RequestTypes
    <2>4. Fits(TokenOf(t))
      BY <2>1, <2>2 DEF Fits, TokenOf, Login
    <2> HIDE DEF t
    <2> QED BY <2>1, <2>3, <2>4, Reading
  <1>3. ASSUME NEW u \in Users, ChangeAuthenticates(r, u) \/ AskCounts(r, u) PROVE Goal
    <2>1. u \in Accounts /\ UNCHANGED <<user, sessions, ask, granted>>
      BY <1>3, Ids DEF ChangeAuthenticates, AskCounts
    <2>2. user[u].version \in Nat /\ Id(u) \in AccountId
      BY <2>1, Ids, Present
    <2>3. \E t \in Request : t.pc \in {"change", "ask"} /\ req' = [req EXCEPT ![r] = t]
      <3>1. CASE ChangeAuthenticates(r, u)
        <4>1. [pc |-> "change", id |-> Id(u), version |-> user[u].version] \in Request
          BY <2>2, RequestTypes
        <4> QED BY <3>1, <4>1 DEF ChangeAuthenticates
      <3>2. CASE AskCounts(r, u)
        <4>1. [pc |-> "ask", id |-> Id(u)] \in Request
          BY <2>2, RequestTypes
        <4> QED BY <3>2, <4>1 DEF AskCounts
      <3> QED BY <1>3, <3>1, <3>2
    <2>4. PICK t \in Request : t.pc \in {"change", "ask"} /\ req' = [req EXCEPT ![r] = t]
      BY <2>3
    <2>5. ~Opening(t)
      BY <2>4 DEF Opening
    <2> QED BY <2>1, <2>4, <2>5, Reading
  <1>4. CASE LoginIssues(r)
    BY <1>4, LoginStep
  <1>5. CASE ChangeCommits(r)
    <2> DEFINE u == req[r].id.user
    <2>1. /\ req' = [req EXCEPT ![r] = Idle] /\ UNCHANGED <<sessions, ask, granted>>
          /\ req[r].id \in AccountId /\ u \in Users
      <3>1. req[r] \in Request /\ req[r].pc = "change"
        BY <1>5 DEF ChangeCommits, AccountTypes
      <3> QED BY <1>5, <3>1, RequestFields DEF ChangeCommits, Ends
    <2>2. \/ UNCHANGED user
          \/ There(req[r].id) /\ user' = [user EXCEPT ![u] = NewPassword(@)]
      BY <1>5 DEF ChangeCommits, MayChange
    <2>3. /\ user' \in [Users -> GoneRow \cup Row]
          /\ \A v \in Users : Evolves(v) /\ Keeps(v)
      <3>1. CASE UNCHANGED user
        BY <2>1, <3>1 DEF AccountTypes, Evolves, Keeps, Accounts
      <3>2. CASE There(req[r].id) /\ user' = [user EXCEPT ![u] = NewPassword(@)]
        <4>1. user[u] \in Row /\ u \in Accounts
          BY <2>1, <3>2, Ids
        <4>2. /\ NewPassword(user[u]) \in Row /\ NewPassword(user[u]).life = user[u].life
              /\ NewPassword(user[u]).version > user[u].version
              /\ NewPassword(user[u]).status # "none"
          BY <4>1, RowTypes
        <4> HIDE DEF u, NewPassword
        <4>3. user'[u] = NewPassword(user[u]) /\ \A v \in Users \ {u} : user'[v] = user[v]
          BY <2>1, <3>2 DEF AccountTypes
        <4>4. user' \in [Users -> GoneRow \cup Row]
          BY <3>2, <4>2 DEF AccountTypes
        <4>5. \A v \in Users : Evolves(v)
          BY <4>1, <4>2, <4>3 DEF Evolves
        <4>6. \A v \in Users : Keeps(v)
          BY <2>1, <4>1, <4>2, <4>3 DEF Keeps, Accounts
        <4> QED BY <4>4, <4>5, <4>6
      <3> QED BY <2>2, <3>1, <3>2
    <2>4. Idle \in Request /\ ~Opening(Idle)
      BY RequestTypes DEF Idle, Opening
    <2>5. ask' \in [Asks -> {NoAsk} \cup Ask] /\ granted' \in [Users -> Nat]
      BY <2>1 DEF AccountTypes
    <2>6. AccountTypes' /\ TokensFit'
      BY <2>1, <2>3, <2>4, <2>5, Writing
    <2> QED BY <2>3, <2>6
  <1>6. ASSUME NEW q \in Asks, AskInserts(r, q) PROVE Goal
    <2>1. /\ req' = [req EXCEPT ![r] = Idle] /\ UNCHANGED <<user, sessions, granted>>
          /\ req[r].id.user \in Users
      <3>1. req[r] \in Request /\ req[r].pc = "ask"
        BY <1>6 DEF AskInserts, AccountTypes
      <3> QED BY <1>6, <3>1, RequestFields DEF AskInserts, Ends
    <2>2. ask' \in [Asks -> {NoAsk} \cup Ask]
      BY <1>6, <2>1 DEF AskInserts, AccountTypes, Ask
    <2>3. Idle \in Request /\ ~Opening(Idle)
      BY RequestTypes DEF Idle, Opening
    <2>4. /\ user' \in [Users -> GoneRow \cup Row] /\ granted' \in [Users -> Nat]
          /\ \A v \in Users : Evolves(v) /\ Keeps(v)
      BY <2>1 DEF AccountTypes, Evolves, Keeps, Accounts
    <2>5. AccountTypes' /\ TokensFit'
      BY <2>1, <2>2, <2>3, <2>4, Writing
    <2> QED BY <2>4, <2>5
  <1> QED BY <1>1, <1>2, <1>3, <1>4, <1>5, <1>6 DEF OwnNext

LEMMA AdminStep ==
  ASSUME AccountTypes, TokensFit, NEW r \in Reqs, AdminNext(r)
  PROVE  /\ AccountTypes' /\ TokensFit'
         /\ \A u \in Users : Evolves(u)
         /\ ~AdminWrites(r) /\ ~ReviewCommits(r) => \A u \in Users : Keeps(u)
  <1> DEFINE Goal == /\ AccountTypes' /\ TokensFit'
                     /\ \A u \in Users : Evolves(u)
                     /\ ~AdminWrites(r) /\ ~ReviewCommits(r) => \A u \in Users : Keeps(u)
  <1>1. ASSUME NEW a \in Users, NEW u \in Users,
               \/ ToggleReads(r, a, u) \/ DeleteReads(r, a, u) \/ ResetReads(r, a, u)
               \/ \E role \in Roles : RoleReads(r, a, u, role)
        PROVE  Goal
    <2>1. Id(u) \in AccountId /\ Id(a) \in AccountId
      BY Ids
    <2>2. /\ UNCHANGED <<user, sessions, ask, granted>>
          /\ \E t \in Request : ~Opening(t) /\ req' = [req EXCEPT ![r] = t]
      BY <1>1, <2>1, RequestTypes
         DEF ToggleReads, DeleteReads, ResetReads, RoleReads, AdminReads, Opening
    <2> QED BY <2>2, Reading
  <1>2. ASSUME NEW a \in Users, NEW u \in Users, NEW role \in Roles, CreateUser(r, a, u, role)
        PROVE  Goal
    <2>1. Creates(u, role) /\ UNCHANGED <<sessions, req, ask>> /\ req[r] = Idle
      BY <1>2 DEF CreateUser, Sends
    <2>2. /\ user' \in [Users -> GoneRow \cup Row] /\ granted' \in [Users -> Nat]
          /\ \A v \in Users : Evolves(v) /\ Keeps(v)
      BY <2>1, CreatesStep
    <2>3. req' = [req EXCEPT ![r] = Idle] /\ Idle \in Request /\ ~Opening(Idle)
      BY <2>1, RequestTypes DEF AccountTypes, Idle, Opening
    <2>4. ask' \in [Asks -> {NoAsk} \cup Ask]
      BY <2>1 DEF AccountTypes
    <2>5. AccountTypes' /\ TokensFit'
      BY <2>1, <2>2, <2>3, <2>4, Writing
    <2> QED BY <2>2, <2>5
  <1>3. ASSUME NEW a \in Users, NEW q \in Asks, NEW v \in {"approved", "rejected"},
               ReviewReads(r, a, q, v)
        PROVE  Goal
    <2>1. ask[q] \in Ask /\ ask[q].user \in Users
      BY <1>3 DEF ReviewReads, AccountTypes, NoAsk, Ask
    <2>2. Id(ask[q].user) \in AccountId /\ Id(a) \in AccountId
      BY <2>1, Ids
    <2>3. /\ UNCHANGED <<user, sessions, ask, granted>>
          /\ \E t \in Request : ~Opening(t) /\ req' = [req EXCEPT ![r] = t]
      BY <1>3, <2>2, RequestTypes DEF ReviewReads, Opening
    <2> QED BY <2>3, Reading
  <1>4. CASE AdminWrites(r)
    <2> DEFINE u == req[r].id.user
    <2>1. /\ req[r] \in Request /\ req[r].pc \in {"toggle", "role", "delete", "reset"}
          /\ req[r].id \in AccountId /\ u \in Users
      <3>1. req[r] \in Request /\ req[r].pc \in {"toggle", "role", "delete", "reset"}
        BY <1>4 DEF AdminWrites, AccountTypes
      <3> QED BY <3>1, RequestFields
    <2>2. req' = [req EXCEPT ![r] = Idle] /\ UNCHANGED <<sessions, granted>>
      BY <1>4 DEF AdminWrites, Ends
    <2>3. \/ UNCHANGED user
          \/ /\ user[u] \in Row
             /\ \/ req[r].pc = "toggle" /\ user' = [user EXCEPT ![u].status = req[r].status]
                \/ req[r].pc = "role" /\ user' = [user EXCEPT ![u].role = req[r].role]
                \/ user' = [user EXCEPT ![u] = Gone(user[u].life)]
                \/ user' = [user EXCEPT ![u] = NewPassword(user[u])]
      <3>1. There(req[r].id) => user[u] \in Row
        BY <2>1, Ids
      <3> QED BY <1>4, <3>1 DEF AdminWrites
    <2>4. ask' \in [Asks -> {NoAsk} \cup Ask]
      BY <1>4 DEF AdminWrites, AccountTypes
    <2>5. user' \in [Users -> GoneRow \cup Row] /\ \A v \in Users : Evolves(v)
      <3>1. CASE UNCHANGED user
        BY <3>1 DEF AccountTypes, Evolves
      <3>2. ASSUME NEW row \in Row, user[u] \in Row, user' = [user EXCEPT ![u] = row],
                   row.life = user[u].life,
                   \/ row.version = user[u].version /\ row.password = user[u].password
                   \/ row.version > user[u].version
            PROVE  user' \in [Users -> GoneRow \cup Row] /\ \A v \in Users : Evolves(v)
        <4> HIDE DEF u
        <4> QED BY <2>1, <3>2 DEF AccountTypes, Evolves
      <3>3. CASE user[u] \in Row /\ req[r].pc = "toggle" /\ user' = [user EXCEPT ![u].status = req[r].status]
        <4>1. req[r].status \in {"active", "disabled"}
          BY <2>1, <3>3, RequestFields
        <4> DEFINE row == [user[u] EXCEPT !.status = req[r].status]
        <4>2. /\ row \in Row /\ row.version = user[u].version /\ row.password = user[u].password
              /\ row.life = user[u].life
          BY <3>3, <4>1, RowTypes
        <4>3. user' = [user EXCEPT ![u] = row]
          BY <3>3
        <4> HIDE DEF row
        <4> QED BY <3>2, <3>3, <4>2, <4>3
      <3>4. CASE user[u] \in Row /\ req[r].pc = "role" /\ user' = [user EXCEPT ![u].role = req[r].role]
        <4>1. req[r].role \in Roles
          BY <2>1, <3>4, RequestFields
        <4> DEFINE row == [user[u] EXCEPT !.role = req[r].role]
        <4>2. /\ row \in Row /\ row.version = user[u].version /\ row.password = user[u].password
              /\ row.life = user[u].life
          BY <3>4, <4>1, RowTypes
        <4>3. user' = [user EXCEPT ![u] = row]
          BY <3>4
        <4> HIDE DEF row
        <4> QED BY <3>2, <3>4, <4>2, <4>3
      <3>5. CASE user[u] \in Row /\ user' = [user EXCEPT ![u] = Gone(user[u].life)]
        <4>1. Gone(user[u].life) \in GoneRow
          BY <3>5, RowTypes
        <4> HIDE DEF u
        <4> QED BY <2>1, <3>5, <4>1 DEF AccountTypes, Evolves
      <3>6. CASE user[u] \in Row /\ user' = [user EXCEPT ![u] = NewPassword(user[u])]
        <4>1. /\ NewPassword(user[u]) \in Row /\ NewPassword(user[u]).version > user[u].version
              /\ NewPassword(user[u]).life = user[u].life
          BY <3>6, RowTypes
        <4> HIDE DEF NewPassword
        <4> QED BY <3>2, <3>6, <4>1
      <3> QED BY <2>3, <3>1, <3>3, <3>4, <3>5, <3>6
    <2>6. Idle \in Request /\ ~Opening(Idle) /\ granted' \in [Users -> Nat]
      BY <2>2, RequestTypes DEF Idle, Opening, AccountTypes
    <2>7. AccountTypes' /\ TokensFit'
      BY <2>2, <2>4, <2>5, <2>6, Writing
    <2> QED BY <1>4, <2>5, <2>7
  <1>5. CASE ReviewCommits(r)
    <2>1. /\ req[r] \in Request /\ req[r].id.user \in Users /\ req[r].ask \in Asks
          /\ req[r].verdict \in {"approved", "rejected"}
      <3>1. req[r] \in Request /\ req[r].pc = "review"
        BY <1>5 DEF ReviewCommits, AccountTypes
      <3> QED BY <3>1, RequestFields
    <2>2. req' = [req EXCEPT ![r] = Idle] /\ UNCHANGED <<user, sessions>>
      BY <1>5 DEF ReviewCommits, Ends
    <2>3. ask' \in [Asks -> {NoAsk} \cup Ask]
      BY <1>5, <2>1 DEF ReviewCommits, AccountTypes, Ask
    <2>4. granted' \in [Users -> Nat]
      BY <1>5, <2>1 DEF ReviewCommits, AccountTypes
    <2>5. Idle \in Request /\ ~Opening(Idle)
      BY RequestTypes DEF Idle, Opening
    <2>6. user' \in [Users -> GoneRow \cup Row] /\ \A v \in Users : Evolves(v)
      BY <2>2 DEF AccountTypes, Evolves
    <2>7. AccountTypes' /\ TokensFit'
      BY <2>2, <2>3, <2>4, <2>5, <2>6, Writing
    <2> QED BY <1>5, <2>6, <2>7
  <1> QED BY <1>1, <1>2, <1>3, <1>4, <1>5 DEF AdminNext

LEMMA AccountStep == AccountTypes /\ TokensFit /\ [Next]_vars => AccountTypes' /\ TokensFit'
  <1> SUFFICES ASSUME AccountTypes, TokensFit, [Next]_vars PROVE AccountTypes' /\ TokensFit'
    OBVIOUS
  <1>1. CASE UNCHANGED vars
    BY <1>1 DEF vars, AccountTypes, TokensFit, Fits, Accounts, Opening, TokenOf
  <1> QED BY <1>1, OwnStep, AdminStep, BootstrapStep, ExpiryStep DEF Next

\* A session that its own account accepts was opened with the account's present password:
\* every change and every reset ends all others (session_version_matches, deps.py), for any
\* number of logins, registrations, changes and forms under way at once, also where names
\* of deleted accounts are taken again and requests for the earlier account are under way.
THEOREM SessionsEnd == Spec => []SessionsKnowPassword
  <1>1. AccountTypes /\ TokensFit => SessionsKnowPassword
    BY DEF TokensFit, Fits, SessionsKnowPassword, Valid
  <1> QED BY <1>1, AccountInit, AccountStep, PTL DEF Spec

--------------------------------------------------------------------------------
\* Reviews.

Approved(u) == {q \in AsksOf(u) : ask[q].status = "approved"}
Reviewing(r) == req[r].pc = "review"

\* Each review has its request for itself and finds it pending to the end, and grants
\* follow approvals.
ReviewInv ==
  /\ \A r \in Reqs : Reviewing(r) => ask[req[r].ask] = [status |-> "pending", user |-> req[r].id.user]
  /\ \A r, i \in Reqs : Reviewing(r) /\ Reviewing(i) /\ req[r].ask = req[i].ask => r = i
  /\ \A u \in Accounts : granted[u] = Cardinality(Approved(u))
  /\ \A u \in Users : u \notin Accounts => AsksOf(u) = {}

LEMMA ReviewInit == Init => ReviewInv
  <1> SUFFICES ASSUME Init PROVE ReviewInv OBVIOUS
  <1>1. \A u : AsksOf(u) = {} /\ Approved(u) = {}
    BY DEF Init, AsksOf, Approved
  <1>2. \A r \in Reqs : ~Reviewing(r)
    BY DEF Init, Reviewing, Idle
  <1>3. \A u : Cardinality(Approved(u)) = 0
    BY <1>1, FS_EmptySet
  <1>4. \A u \in Users : granted[u] = 0
    BY DEF Init
  <1> QED BY <1>1, <1>2, <1>3, <1>4 DEF ReviewInv, Accounts

\* Steps that leave quota requests alone and start no review.
LEMMA ReviewsSame ==
  ASSUME AccountTypes, ReviewInv, UNCHANGED ask, \A u \in Users : Keeps(u),
         \A r \in Reqs : req'[r].pc = "review" => req'[r] = req[r]
  PROVE  ReviewInv'
  <1>1. \A u : AsksOf(u)' = AsksOf(u) /\ Approved(u)' = Approved(u)
    BY DEF AsksOf, Approved
  <1>2. ASSUME NEW u \in Users, u \in Accounts' PROVE granted'[u] = Cardinality(Approved(u)')
    <2>1. CASE u \in Accounts
      BY <1>1, <2>1 DEF Keeps, ReviewInv
    <2>2. CASE u \notin Accounts
      <3>1. Approved(u)' = {} /\ granted'[u] = 0
        BY <1>1, <1>2, <2>2 DEF Keeps, ReviewInv, Approved
      <3> QED BY <3>1, FS_EmptySet
    <2> QED BY <2>1, <2>2
  <1>3. \A u \in Users : u \notin Accounts' => AsksOf(u)' = {}
    BY <1>1 DEF Keeps, ReviewInv
  <1>4. \A r \in Reqs : Reviewing(r)' => Reviewing(r) /\ req'[r] = req[r]
    BY DEF Reviewing
  <1>5. \A u \in Accounts' : u \in Users
    BY DEF Accounts
  <1> QED BY <1>2, <1>3, <1>4, <1>5 DEF ReviewInv, Reviewing

LEMMA ReviewStarts ==
  ASSUME AccountTypes, ReviewInv, NEW r \in Reqs, NEW a \in Users, NEW q \in Asks,
         NEW v \in {"approved", "rejected"}, ReviewReads(r, a, q, v)
  PROVE  ReviewInv'
  <1>1. /\ UNCHANGED <<user, ask, granted>> /\ ask[q].status = "pending" /\ ask[q] \in Ask
        /\ \A i \in Reqs : Reviewing(i) => req[i].ask # q
    BY DEF ReviewReads, AccountTypes, NoAsk, AskLocked, Reviewing
  <1>2. ask[q] = [status |-> "pending", user |-> ask[q].user]
    BY <1>1 DEF Ask
  <1>3. /\ req'[r].pc = "review" /\ req'[r].ask = q /\ req'[r].id.user = ask[q].user
        /\ \A i \in Reqs \ {r} : req'[i] = req[i]
    BY DEF ReviewReads, AccountTypes, Id
  <1>4. \A u : AsksOf(u)' = AsksOf(u) /\ Approved(u)' = Approved(u)
    BY <1>1 DEF AsksOf, Approved
  <1>5. Accounts' = Accounts
    BY <1>1 DEF Accounts
  <1>6. \A i \in Reqs : Reviewing(i)' =>
          ask'[req'[i].ask] = [status |-> "pending", user |-> req'[i].id.user]
    BY <1>1, <1>2, <1>3 DEF ReviewInv, Reviewing
  <1>7. \A i, k \in Reqs : Reviewing(i)' /\ Reviewing(k)' /\ req'[i].ask = req'[k].ask => i = k
    BY <1>1, <1>3 DEF ReviewInv, Reviewing
  <1> QED BY <1>1, <1>4, <1>5, <1>6, <1>7 DEF ReviewInv

LEMMA AskStep ==
  ASSUME AccountTypes, ReviewInv, NEW r \in Reqs, NEW q \in Asks, AskInserts(r, q)
  PROVE  ReviewInv'
  <1>1. /\ UNCHANGED <<user, granted>> /\ ask[q] = NoAsk /\ req' = [req EXCEPT ![r] = Idle]
        /\ req[r].id.user \in Users
    BY RequestFields DEF AskInserts, AccountTypes, Ends
  <1>2. \A i \in Reqs : Reviewing(i)' => Reviewing(i) /\ req'[i] = req[i]
    BY <1>1 DEF Reviewing, AccountTypes, Idle
  <1>3. \A i \in Reqs : Reviewing(i) => req[i].ask # q
    <2> SUFFICES ASSUME NEW i \in Reqs, Reviewing(i), req[i].ask = q PROVE FALSE
      OBVIOUS
    <2>1. ask[q] = [status |-> "pending", user |-> req[i].id.user]
      BY DEF ReviewInv
    <2>2. ask[q].status = "pending"
      BY <2>1
    <2> QED BY <1>1, <2>2 DEF NoAsk
  <1>4. /\ \A p \in Asks \ {q} : ask'[p] = ask[p]
        /\ ask'[q] = NoAsk \/ ask'[q].status = "pending"
        /\ ask'[q] # NoAsk => req[r].id.user \in Accounts /\ ask'[q].user = req[r].id.user
    BY <1>1 DEF AskInserts, AccountTypes, There
  <1>5. \A u : Approved(u)' = Approved(u)
    BY <1>1, <1>4 DEF Approved, AsksOf, NoAsk
  <1>6. \A u \in Users : u \notin Accounts => AsksOf(u)' = {}
    <2>1. \A u \in Users : u \notin Accounts => AsksOf(u)' \subseteq AsksOf(u)
      BY <1>4 DEF AsksOf, Accounts
    <2> QED BY <2>1 DEF ReviewInv
  <1>7. Accounts' = Accounts
    BY <1>1 DEF Accounts
  <1>8. \A i \in Reqs : Reviewing(i) => req[i].ask \in Asks
    BY RequestFields DEF Reviewing, AccountTypes
  <1>9. \A i \in Reqs : Reviewing(i)' =>
          ask'[req'[i].ask] = [status |-> "pending", user |-> req'[i].id.user]
    BY <1>2, <1>3, <1>4, <1>8 DEF ReviewInv
  <1>10. \A i, k \in Reqs : Reviewing(i)' /\ Reviewing(k)' /\ req'[i].ask = req'[k].ask => i = k
    BY <1>2 DEF ReviewInv
  <1> QED BY <1>1, <1>5, <1>6, <1>7, <1>9, <1>10 DEF ReviewInv

LEMMA DecisionStep ==
  ASSUME AccountTypes, ReviewInv, NEW r \in Reqs, ReviewCommits(r)
  PROVE  ReviewInv'
  <1> DEFINE q == req[r].ask
             w == req[r].id.user
  <1>1. /\ q \in Asks /\ w \in Users /\ req[r].verdict \in {"approved", "rejected"}
        /\ ask[q] = [status |-> "pending", user |-> w] /\ ask[q] # NoAsk
        /\ \A i \in Reqs \ {r} : Reviewing(i) => req[i].ask # q
    BY RequestFields DEF ReviewCommits, AccountTypes, ReviewInv, Reviewing, NoAsk
  <1>2. req' = [req EXCEPT ![r] = Idle] /\ UNCHANGED user
    BY DEF ReviewCommits, Ends
  <1>3. \A i \in Reqs : Reviewing(i)' => i # r /\ Reviewing(i) /\ req'[i] = req[i]
    BY <1>2 DEF Reviewing, AccountTypes, Idle
  <1>4. CASE UNCHANGED <<ask, granted>>
    <2>1. \A i \in Reqs : req'[i].pc = "review" => req'[i] = req[i]
      BY <1>3 DEF Reviewing
    <2>2. \A u \in Users : Keeps(u)
      BY <1>2, <1>4 DEF Keeps, Accounts
    <2> QED BY <1>4, <2>1, <2>2, ReviewsSame
  <1>5. CASE /\ ask' = [ask EXCEPT ![q].status = req[r].verdict]
             /\ granted' = [granted EXCEPT ![w] = IF req[r].verdict = "approved" THEN @ + 1 ELSE @]
    <2>1. /\ \A p \in Asks \ {q} : ask'[p] = ask[p]
          /\ ask'[q].status = req[r].verdict /\ ask'[q].user = w /\ ask'[q] # NoAsk
      <3>1. ask'[q] = [ask[q] EXCEPT !.status = req[r].verdict]
        BY <1>1, <1>5 DEF AccountTypes
      <3>2. [ask[q] EXCEPT !.status = req[r].verdict] = [status |-> req[r].verdict, user |-> w]
        BY <1>1
      <3>3. [status |-> req[r].verdict, user |-> w] # NoAsk
        BY DEF NoAsk
      <3> QED BY <1>1, <1>5, <3>1, <3>2, <3>3 DEF AccountTypes
    <2>2. \A u : AsksOf(u)' = AsksOf(u)
      BY <1>1, <2>1 DEF AsksOf
    <2>3. /\ q \notin Approved(w)
          /\ \A u : Approved(u)' = IF u = w /\ req[r].verdict = "approved"
                                   THEN Approved(u) \cup {q} ELSE Approved(u)
      BY <1>1, <2>1, <2>2 DEF Approved, AsksOf
    <2>4. \A u : IsFiniteSet(Approved(u)) /\ Cardinality(Approved(u)) \in Nat
      <3>1. \A u : Approved(u) \subseteq Asks
        BY DEF Approved, AsksOf
      <3> QED BY <3>1, AccountsAssumption, FS_Subset, FS_CardinalityType
    <2>5. Cardinality(Approved(w) \cup {q}) = Cardinality(Approved(w)) + 1
      BY <2>3, <2>4, FS_AddElement
    <2>6. Accounts' = Accounts /\ Accounts \subseteq Users
      BY <1>2 DEF Accounts
    <2>7. \A u \in Users : granted'[u] = IF u = w /\ req[r].verdict = "approved"
                                         THEN granted[u] + 1 ELSE granted[u]
      BY <1>5 DEF AccountTypes
    <2>8. \A u \in Accounts' : granted'[u] = Cardinality(Approved(u)')
      <3> SUFFICES ASSUME NEW u \in Accounts PROVE granted'[u] = Cardinality(Approved(u)')
        BY <2>6
      <3>1. granted[u] = Cardinality(Approved(u))
        BY DEF ReviewInv
      <3>2. CASE u = w /\ req[r].verdict = "approved"
        BY <2>3, <2>5, <2>6, <2>7, <3>1, <3>2
      <3>3. CASE ~(u = w /\ req[r].verdict = "approved")
        BY <2>3, <2>6, <2>7, <3>1, <3>3
      <3> QED BY <3>2, <3>3
    <2>9. \A u \in Users : u \notin Accounts' => AsksOf(u)' = {}
      BY <2>2, <2>6 DEF ReviewInv
    <2>10. \A i \in Reqs : Reviewing(i) => req[i].ask \in Asks
      BY RequestFields DEF Reviewing, AccountTypes
    <2>11. \A i \in Reqs : Reviewing(i)' =>
             ask'[req'[i].ask] = [status |-> "pending", user |-> req'[i].id.user]
      BY <1>1, <1>3, <2>1, <2>10 DEF ReviewInv
    <2>12. \A i, k \in Reqs : Reviewing(i)' /\ Reviewing(k)' /\ req'[i].ask = req'[k].ask => i = k
      BY <1>3 DEF ReviewInv
    <2> QED BY <2>8, <2>9, <2>11, <2>12 DEF ReviewInv
  <1> QED BY <1>4, <1>5 DEF ReviewCommits

\* The deletion of an account takes its requests with it, none of them under review.
LEMMA DeletionStep ==
  ASSUME AccountTypes, ReviewInv, NEW r \in Reqs, AdminWrites(r), \A u \in Users : Evolves(u)
  PROVE  ReviewInv'
  <1> DEFINE w == req[r].id.user
  <1>1. /\ req' = [req EXCEPT ![r] = Idle] /\ UNCHANGED granted /\ w \in Users
        /\ req[r].pc # "review"
    <2>1. req[r] \in Request /\ req[r].pc \in {"toggle", "role", "delete", "reset"}
      BY DEF AdminWrites, AccountTypes
    <2> QED BY <2>1, RequestFields DEF AdminWrites, Ends
  <1>2. \A i \in Reqs : Reviewing(i)' => Reviewing(i) /\ req'[i] = req[i]
    BY <1>1 DEF Reviewing, AccountTypes, Idle
  <1>3. \A i \in Reqs : req'[i].pc = "review" => req'[i] = req[i]
    BY <1>2 DEF Reviewing
  <1>4. CASE /\ req[r].pc = "delete" /\ w \in Accounts
             /\ user' = [user EXCEPT ![w] = Gone(user[w].life)]
             /\ ask' = [q \in Asks |-> IF q \in AsksOf(w) THEN NoAsk ELSE ask[q]]
    <2>1. \A q \in AsksOf(w), i \in Reqs : Reviewing(i) => req[i].ask # q
      BY <1>4 DEF AdminWrites, AskLocked, Reviewing
    <2>2. user'[w].status = "none" /\ \A u \in Users \ {w} : user'[u] = user[u]
      <3>1. user'[w] = Gone(user[w].life) /\ \A u \in Users \ {w} : user'[u] = user[u]
        BY <1>1, <1>4 DEF AccountTypes
      <3> QED BY <3>1 DEF Gone
    <2>3. \A i \in Reqs : Reviewing(i) => req[i].ask \in Asks
      BY RequestFields DEF Reviewing, AccountTypes
    <2>4. \A i \in Reqs : Reviewing(i) => ask'[req[i].ask] = ask[req[i].ask]
      BY <1>4, <2>1, <2>3
    <2>5. \A u \in Users \ {w} : AsksOf(u)' = AsksOf(u) /\ Approved(u)' = Approved(u)
      BY <1>4 DEF AsksOf, Approved, NoAsk
    <2>6. \A u \in Users : u = w => AsksOf(u)' = {}
      BY <1>4 DEF AsksOf, NoAsk
    <2>7. Accounts' = Accounts \ {w} /\ Accounts \subseteq Users
      BY <1>1, <2>2 DEF Accounts
    <2>8. \A u \in Accounts' : granted'[u] = Cardinality(Approved(u)')
      BY <1>1, <2>5, <2>7 DEF ReviewInv
    <2>9. \A u \in Users : u \notin Accounts' => AsksOf(u)' = {}
      BY <2>5, <2>6, <2>7 DEF ReviewInv
    <2>10. \A i \in Reqs : Reviewing(i)' =>
             ask'[req'[i].ask] = [status |-> "pending", user |-> req'[i].id.user]
      BY <1>2, <2>4 DEF ReviewInv
    <2>11. \A i, k \in Reqs : Reviewing(i)' /\ Reviewing(k)' /\ req'[i].ask = req'[k].ask => i = k
      BY <1>2 DEF ReviewInv
    <2> QED BY <2>8, <2>9, <2>10, <2>11 DEF ReviewInv
  <1>5. ASSUME UNCHANGED ask, \A u \in Users : user'[u].status = "none" <=> user[u].status = "none"
        PROVE  ReviewInv'
    <2>1. \A u \in Users : Keeps(u)
      BY <1>1, <1>5 DEF Keeps, Accounts
    <2> QED BY <1>3, <1>5, <2>1, ReviewsSame
  <1>6. CASE UNCHANGED <<user, ask>>
    BY <1>5, <1>6
  <1>7. CASE /\ UNCHANGED ask /\ w \in Accounts
             /\ \/ user' = [user EXCEPT ![w].status = req[r].status] /\ req[r].pc = "toggle"
                \/ user' = [user EXCEPT ![w].role = req[r].role] /\ req[r].pc = "role"
                \/ user' = [user EXCEPT ![w] = NewPassword(user[w])]
    <2>1. user[w] \in Row /\ user[w].status # "none"
      BY <1>1, <1>7, Present, RowTypes
    <2>2. req[r].pc = "toggle" => req[r].status \in {"active", "disabled"}
      BY RequestFields DEF AccountTypes
    <2>3. user'[w].status # "none" /\ \A u \in Users \ {w} : user'[u] = user[u]
      <3>1. CASE user' = [user EXCEPT ![w].status = req[r].status] /\ req[r].pc = "toggle"
        BY <1>1, <2>1, <2>2, <3>1 DEF AccountTypes, Row
      <3>2. CASE user' = [user EXCEPT ![w].role = req[r].role] /\ req[r].pc = "role"
        BY <1>1, <2>1, <3>2 DEF AccountTypes, Row
      <3>3. CASE user' = [user EXCEPT ![w] = NewPassword(user[w])]
        BY <1>1, <2>1, <3>3 DEF AccountTypes, Row, NewPassword
      <3> QED BY <1>7, <3>1, <3>2, <3>3
    <2> QED BY <1>5, <1>7, <2>1, <2>3
  <1>8. \/ UNCHANGED <<user, ask>>
        \/ /\ UNCHANGED ask /\ w \in Accounts
           /\ \/ user' = [user EXCEPT ![w].status = req[r].status] /\ req[r].pc = "toggle"
              \/ user' = [user EXCEPT ![w].role = req[r].role] /\ req[r].pc = "role"
              \/ user' = [user EXCEPT ![w] = NewPassword(user[w])]
        \/ /\ req[r].pc = "delete" /\ w \in Accounts
           /\ user' = [user EXCEPT ![w] = Gone(user[w].life)]
           /\ ask' = [q \in Asks |-> IF q \in AsksOf(w) THEN NoAsk ELSE ask[q]]
    BY DEF AdminWrites, There
  <1> QED BY <1>4, <1>6, <1>7, <1>8

LEMMA ReviewStep ==
  AccountTypes /\ TokensFit /\ ReviewInv /\ [Next]_vars => ReviewInv'
  <1> SUFFICES ASSUME AccountTypes, TokensFit, ReviewInv, [Next]_vars PROVE ReviewInv'
    OBVIOUS
  <1>1. ASSUME NEW r \in Reqs, OwnNext(r) PROVE ReviewInv'
    <2>1. CASE \E q \in Asks : AskInserts(r, q)
      BY <2>1, AskStep
    <2>2. CASE ~\E q \in Asks : AskInserts(r, q)
      <3>1. \A i \in Reqs : req'[i].pc = "review" => req'[i] = req[i]
        BY <1>1, <2>2 DEF OwnNext, Register, LoginReads, ChangeAuthenticates, AskCounts,
                          LoginIssues, ChangeCommits, Ends, Idle, AccountTypes, Login
      <3>2. UNCHANGED ask
        BY <1>1, <2>2 DEF OwnNext, Register, LoginReads, ChangeAuthenticates, AskCounts,
                          LoginIssues, ChangeCommits
      <3>3. \A u \in Users : Keeps(u)
        BY <1>1, OwnStep
      <3> QED BY <3>1, <3>2, <3>3, ReviewsSame
    <2> QED BY <2>1, <2>2
  <1>2. ASSUME NEW r \in Reqs, AdminNext(r) PROVE ReviewInv'
    <2>1. /\ \A u \in Users : Evolves(u)
          /\ ~AdminWrites(r) /\ ~ReviewCommits(r) => \A u \in Users : Keeps(u)
      BY <1>2, AdminStep
    <2>2. CASE \/ ReviewCommits(r) \/ AdminWrites(r)
               \/ \E a \in Users, q \in Asks, v \in {"approved", "rejected"} : ReviewReads(r, a, q, v)
      BY <2>1, <2>2, DecisionStep, DeletionStep, ReviewStarts
    <2>3. ASSUME NEW a \in Users, NEW u \in Users, ~AdminWrites(r), ~ReviewCommits(r),
                 \/ ToggleReads(r, a, u) \/ DeleteReads(r, a, u) \/ ResetReads(r, a, u)
                 \/ \E role \in Roles : CreateUser(r, a, u, role) \/ RoleReads(r, a, u, role)
          PROVE  ReviewInv'
      <3>1. \A i \in Reqs : req'[i].pc = "review" => req'[i] = req[i]
        BY <2>3 DEF ToggleReads, DeleteReads, ResetReads, CreateUser, RoleReads, AdminReads,
                    AccountTypes
      <3>2. UNCHANGED ask
        BY <2>3 DEF ToggleReads, DeleteReads, ResetReads, CreateUser, RoleReads, AdminReads
      <3> QED BY <2>1, <2>3, <3>1, <3>2, ReviewsSame
    <2> QED BY <1>2, <2>2, <2>3 DEF AdminNext
  <1>3. CASE BootstrapAdmin
    <2>1. \A u \in Users : Keeps(u)
      BY <1>3, BootstrapStep
    <2> QED BY <1>3, <2>1, ReviewsSame DEF BootstrapAdmin
  <1>4. ASSUME NEW s, SessionExpires(s) PROVE ReviewInv'
    BY <1>4, ReviewsSame DEF SessionExpires, Keeps, Accounts
  <1>5. CASE UNCHANGED vars
    BY <1>5, ReviewsSame DEF vars, Keeps, Accounts
  <1> QED BY <1>1, <1>2, <1>3, <1>4, <1>5 DEF Next

\* A request for quota is decided once and granted once, however many reviewers open it and
\* whatever accounts are deleted meanwhile (review_quota_request locks the request).
THEOREM DecidedOnce == Spec => []ReviewedOnce
  <1>1. ReviewInv => ReviewedOnce
    <2> SUFFICES ASSUME ReviewInv PROVE ReviewedOnce OBVIOUS
    <2>1. \A u \in Accounts : granted[u] = Cardinality({q \in AsksOf(u) : ask[q].status = "approved"})
      <3>1. \A u \in Accounts : granted[u] = Cardinality(Approved(u))
        BY Zenon DEF ReviewInv
      <3> QED BY <3>1, Zenon DEF Approved
    <2>2. ASSUME NEW r \in Reqs, req[r].pc = "review" PROVE ask[req[r].ask].status = "pending"
      <3>1. ask[req[r].ask] = [status |-> "pending", user |-> req[r].id.user]
        BY <2>2 DEF ReviewInv, Reviewing
      <3> QED BY <3>1
    <2> QED BY <2>1, <2>2, Zenon DEF ReviewedOnce
  <1> QED BY <1>1, AccountInit, AccountStep, ReviewInit, ReviewStep, PTL DEF Spec
================================================================================
