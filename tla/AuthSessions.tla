---------------------------- MODULE AuthSessions ----------------------------
(***************************************************************************)
(* Accounts and sessions (server/auth_db.py, server/auth_router.py).       *)
(*                                                                         *)
(* Each request is handled on a thread of its own and is several           *)
(* statements; only rotate_refresh_token is one transaction.  A refresh    *)
(* token's id is also the session id (sid) of the access tokens minted     *)
(* with it, and the key of the two in-memory tables: View Mode and sudo    *)
(* elevation.  A browser holds the cookie; its tabs share it and may send  *)
(* it at the same time; an answer may get lost.                            *)
(***************************************************************************)
EXTENDS Naturals, FiniteSets, FiniteSetsExt

CONSTANTS
    Users, Browsers, Handlers,
    InitialRoles,            \* the accounts after the first-boot setup
    MaxTokens, MaxRequests   \* bounds of the environment

Roles == {"operator", "admin", "root_admin"}   \* login roles, "none": no account

ASSUME AuthAssumption ==
    /\ InitialRoles \subseteq [Users -> Roles \cup {"none"}]
    /\ \A r \in InitialRoles : \E u \in Users : r[u] = "root_admin"
    /\ MaxTokens \in Nat

VARIABLES
    role,     \* app_users: role[user]
    born,     \* the order in which the rows were created
    token,    \* refresh_tokens: [user, state, family]; family: the login it stems from
    cookie,   \* cookie[browser]: the refresh token it would send
    sid,      \* sid[browser]: the session id in the access token it holds
    view,     \* _VIEW_MODE_SESSIONS: sid -> the real and the chosen role
    elevated, \* _ELEVATION_SESSIONS
    req,      \* req[handler]: the request being handled
    burned,   \* the logins whose sessions were all revoked at once
    issued, requests \* bounds

vars == <<role, born, token, cookie, sid, view, elevated, req, burned, issued, requests>>

Tokens == 1 .. MaxTokens
Unissued == [user |-> "none", state |-> "unissued", family |-> 0]
NoView == [real |-> "none", as |-> "none"]
Done == [op |-> "none", pc |-> "idle", browser |-> "none", user |-> "none",
         to |-> "none", old |-> 0, new |-> 0]

Init ==
    /\ role \in InitialRoles
    /\ born \in {f \in [Users -> 1 .. Cardinality(Users)] :
                    \A u, v \in Users : f[u] = f[v] => u = v}
    /\ token = [t \in Tokens |-> Unissued]
    /\ cookie = [b \in Browsers |-> 0] /\ sid = [b \in Browsers |-> 0]
    /\ view = [t \in Tokens |-> NoView] /\ elevated = {}
    /\ req = [h \in Handlers |-> Done]
    /\ burned = {} /\ issued = 0 /\ requests = 0

accounts == <<role, born>>
tables == <<view, elevated>>
client == <<cookie, sid>>

-----------------------------------------------------------------------------
(* Requests in progress                                                    *)

Accept(h, r) ==
    /\ req[h].pc = "idle" /\ requests < MaxRequests
    /\ requests' = requests + 1
    /\ req' = [req EXCEPT ![h] = r]
    /\ UNCHANGED <<accounts, token, client, tables, burned, issued>>

At(h, pc) == req[h].pc = pc
Goto(h, pc) == req' = [req EXCEPT ![h].pc = pc]
End(h) == req' = [req EXCEPT ![h] = Done]

(* The user an access token was minted for, and the role it acts with:     *)
(* the live one, or the one chosen in View Mode while that entry was made  *)
(* under the live role.                                                    *)
Caller(b) == token[sid[b]].user
EffectiveRole(b) == IF view[sid[b]].real = role[Caller(b)] THEN view[sid[b]].as
                    ELSE role[Caller(b)]
SignedIn(b) == sid[b] # 0 /\ role[Caller(b)] # "none"
Sudo(b) == SignedIn(b) /\ EffectiveRole(b) = "root_admin" /\ sid[b] \in elevated

Roots == {u \in Users : role[u] = "root_admin"}
(* get_root_admin: the root whose row was created first.                   *)
Primary(u) == u \in Roots /\ \A v \in Roots : born[u] <= born[v]

(* can_modify_user, for a root_admin caller.                               *)
CanModify(caller, target) ==
    role[target] # "root_admin" \/ caller = target \/ Primary(caller)

-----------------------------------------------------------------------------
(* Login and logout                                                        *)

(* The password was verified; the refresh row is inserted a step later.    *)
Login(h, b, u) ==
    /\ role[u] # "none"
    /\ Accept(h, [Done EXCEPT !.op = "login", !.pc = "issue", !.browser = b, !.user = u])

(* create_refresh_token                                                    *)
Insert(t, u, f) == /\ issued < MaxTokens /\ issued' = t
                   /\ token' = [token EXCEPT ![t] = [user |-> u, state |-> "live", family |-> f]]

Issue(h) ==
    LET t == issued + 1  b == req[h].browser IN
    /\ At(h, "issue")
    /\ Insert(t, req[h].user, t)
    /\ cookie' = [cookie EXCEPT ![b] = t] /\ sid' = [sid EXCEPT ![b] = t]
    /\ End(h)
    /\ UNCHANGED <<accounts, tables, burned, requests>>

(* Mutant: the row is read before the transaction, and a revocation       *)
(* in between is not seen.                                                 *)
RevokedExceptInFlight(S) ==
    [t \in Tokens |->
        IF /\ t \in S /\ token[t].state = "live"
           /\ \A h \in Handlers : At(h, "rotate") => req[h].old # t
        THEN [token[t] EXCEPT !.state = "revoked"] ELSE token[t]]

Revoked(S) == [t \in Tokens |-> IF t \in S /\ token[t].state = "live"
                                THEN [token[t] EXCEPT !.state = "revoked"] ELSE token[t]]
Of(u) == {t \in Tokens : token[t].state # "unissued" /\ token[t].user = u}
Families(u) == {token[t].family : t \in Of(u)}

(* View Mode and the refresh row go; the elevation stays.                  *)
Logout(h, b) ==
    /\ cookie[b] # 0 /\ req[h].pc = "idle" /\ requests < MaxRequests
    /\ requests' = requests + 1
    /\ token' = Revoked({cookie[b]})
    /\ view' = [view EXCEPT ![cookie[b]] = NoView]
    /\ cookie' = [cookie EXCEPT ![b] = 0] /\ sid' = [sid EXCEPT ![b] = 0]
    /\ UNCHANGED <<accounts, elevated, req, burned, issued>>

-----------------------------------------------------------------------------
(* /refresh                                                                *)

Refresh(h, b) ==
    /\ cookie[b] # 0
    /\ Accept(h, [Done EXCEPT !.op = "refresh", !.pc = "rotate", !.browser = b,
                              !.old = cookie[b]])

(* Mutant: a token that was already rotated is rotated again.               *)
RotateAgain(h) ==
    LET old == req[h].old  new == issued + 1 IN
    /\ At(h, "rotate")
    /\ IF token[old].state \in {"live", "rotated"} /\ issued < MaxTokens
       THEN /\ issued' = new
            /\ token' = [token EXCEPT ![old].state = "rotated",
                                      ![new] = [token[old] EXCEPT !.state = "live"]]
            /\ req' = [req EXCEPT ![h].pc = "account", ![h].new = new,
                                  ![h].user = token[old].user]
       ELSE Goto(h, "refuse") /\ UNCHANGED <<token, issued>>
    /\ UNCHANGED <<accounts, client, tables, burned, requests>>

(* rotate_refresh_token, one transaction: a token already rotated burns    *)
(* every session of its user, a dead one is refused, a live one is         *)
(* consumed and replaced.                                                  *)
Rotate(h) ==
    LET old == req[h].old  u == token[old].user  new == issued + 1 IN
    /\ At(h, "rotate")
    /\ \/ /\ token[old].state = "rotated"
          /\ token' = Revoked(Of(u)) /\ burned' = burned \cup Families(u)
          /\ Goto(h, "refuse") /\ UNCHANGED issued
       \/ /\ token[old].state \in {"revoked", "gone"}
          /\ Goto(h, "refuse") /\ UNCHANGED <<token, burned, issued>>
       \/ /\ token[old].state = "live" /\ issued < MaxTokens
          /\ issued' = new
          /\ token' = [token EXCEPT ![old].state = "rotated",
                                    ![new] = [token[old] EXCEPT !.state = "live"]]
          /\ req' = [req EXCEPT ![h].pc = "account", ![h].new = new, ![h].user = u]
          /\ UNCHANGED burned
    /\ UNCHANGED <<accounts, client, tables, requests>>

(* 401: the view-mode entry and the browser's cookie are cleared.          *)
Refuse(h) ==
    LET r == req[h] IN
    /\ At(h, "refuse")
    /\ view' = [view EXCEPT ![r.old] = NoView]
    /\ cookie' = [cookie EXCEPT ![r.browser] = 0]
    /\ End(h)
    /\ UNCHANGED <<accounts, token, sid, elevated, burned, issued, requests>>

(* The account is gone: the replacement is revoked too.                    *)
CheckAccount(h) ==
    /\ At(h, "account")
    /\ IF role[req[h].user] = "none"
       THEN token' = Revoked({req[h].new}) /\ Goto(h, "refuse")
       ELSE Goto(h, "migrate") /\ UNCHANGED token
    /\ UNCHANGED <<accounts, client, tables, burned, issued, requests>>

(* _view_mode_migrate: the entry moves to the new sid.                     *)
Migrate(h) ==
    LET r == req[h] IN
    /\ At(h, "migrate")
    /\ view' = IF view[r.old] = NoView THEN view
               ELSE [view EXCEPT ![r.old] = NoView, ![r.new] = view[r.old]]
    /\ Goto(h, "answer")
    /\ UNCHANGED <<accounts, token, client, elevated, burned, issued, requests>>

Answer(h) ==
    LET r == req[h] IN
    /\ At(h, "answer")
    /\ cookie' = [cookie EXCEPT ![r.browser] = r.new]
    /\ sid' = [sid EXCEPT ![r.browser] = r.new]
    /\ End(h)
    /\ UNCHANGED <<accounts, token, tables, burned, issued, requests>>

(* The answer never arrives: the browser keeps what it has.                *)
AnswerLost(h) ==
    /\ At(h, "answer") /\ requests < MaxRequests
    /\ requests' = requests + 1 /\ End(h)
    /\ UNCHANGED <<accounts, token, client, tables, burned, issued>>

-----------------------------------------------------------------------------
(* Elevation and View Mode                                                 *)

Elevate(h, b) ==
    /\ SignedIn(b) /\ EffectiveRole(b) = "root_admin"
    /\ Accept(h, [Done EXCEPT !.op = "elevate", !.pc = "stamp", !.browser = b, !.old = sid[b]])

(* bcrypt has verified the password in the meantime.                       *)
ElevationStamp(h) ==
    /\ At(h, "stamp")
    /\ elevated' = elevated \cup {req[h].old}
    /\ End(h)
    /\ UNCHANGED <<accounts, token, client, view, burned, issued, requests>>

(* The time to live has passed, or the user drops it.                      *)
ElevationEnds(s) ==
    /\ s \in elevated
    /\ elevated' = elevated \ {s}
    /\ UNCHANGED <<accounts, token, client, view, req, burned, issued, requests>>

EnterViewMode(h, b) ==
    /\ SignedIn(b) /\ role[Caller(b)] # "operator"
    /\ Accept(h, [Done EXCEPT !.op = "view", !.pc = "view", !.browser = b, !.old = sid[b],
                              !.to = role[Caller(b)]])

(* A change of View Mode ends the elevation of the session.                *)
ViewModeSet(h) ==
    LET r == req[h] IN
    /\ At(h, "view")
    /\ elevated' = elevated \ {r.old}
    /\ view' = [view EXCEPT ![r.old] = [real |-> r.to, as |-> "operator"]]
    /\ End(h)
    /\ UNCHANGED <<accounts, token, client, burned, issued, requests>>

ExitViewMode(b) ==
    /\ SignedIn(b) /\ view[sid[b]] # NoView
    /\ view' = [view EXCEPT ![sid[b]] = NoView]
    /\ UNCHANGED <<accounts, token, client, elevated, req, burned, issued, requests>>

-----------------------------------------------------------------------------
(* Changes of accounts, by an elevated root_admin                          *)

(* The dependencies and the checks of each route, on the row as it is now. *)
Manage(h, b, u, op, to, pc) ==
    /\ Sudo(b)
    /\ Accept(h, [Done EXCEPT !.op = op, !.pc = pc, !.browser = b, !.user = u, !.to = to])

GrantRoot(h, b, u) ==
    role[u] \notin {"none", "root_admin"} /\ Manage(h, b, u, "role", "root_admin", "count")
RevokeRoot(h, b, u) ==
    /\ role[u] = "root_admin" /\ (SignedIn(b) => CanModify(Caller(b), u))
    /\ Manage(h, b, u, "role", "admin", "count")
UpdateUser(h, b, u) ==
    role[u] \notin {"none", "root_admin"} /\ Manage(h, b, u, "role", "operator", "count")
DeleteUser(h, b, u) ==
    role[u] \notin {"none", "root_admin"} /\ Manage(h, b, u, "delete", "none", "count")
ResetPassword(h, b, u) ==
    /\ role[u] # "none" /\ (SignedIn(b) => CanModify(Caller(b), u))
    /\ Manage(h, b, u, "reset", "none", "revoke")
CreateUser(h, b, u) ==
    role[u] = "none" /\ Manage(h, b, u, "create", "operator", "write")

(* /users/me/password                                                      *)
ChangeOwnPassword(h, b) ==
    /\ SignedIn(b)
    /\ Accept(h, [Done EXCEPT !.op = "reset", !.pc = "revoke", !.browser = b,
                              !.user = Caller(b)])

(* update_role, delete_user: the row and the number of roots are read ...  *)
CountRoots(h) ==
    LET r == req[h] IN
    /\ At(h, "count")
    /\ IF role[r.user] = "none"
          \/ (role[r.user] = "root_admin" /\ r.to # "root_admin" /\ Cardinality(Roots) <= 1)
       THEN End(h) ELSE Goto(h, "write")
    /\ UNCHANGED <<accounts, token, client, tables, burned, issued, requests>>

(* ... and the row is written, in a statement of its own.                  *)
WriteAccount(h) ==
    LET r == req[h] IN
    /\ At(h, "write")
    /\ IF (role[r.user] = "none") = (r.op = "create")
       THEN /\ role' = [role EXCEPT ![r.user] = r.to]
            /\ born' = IF r.op = "create"
                       THEN [born EXCEPT ![r.user] = Max({born[u] : u \in Users}) + 1]
                       ELSE born
            /\ IF r.op = "delete" THEN Goto(h, "revoke") ELSE End(h)
       ELSE End(h) /\ UNCHANGED accounts
    /\ UNCHANGED <<token, client, tables, burned, issued, requests>>

(* revoke_all_for_user                                                     *)
RevokeAll(h) ==
    LET u == req[h].user IN
    /\ At(h, "revoke")
    /\ token' = Revoked(Of(u)) /\ burned' = burned \cup Families(u)
    /\ End(h)
    /\ UNCHANGED <<accounts, client, tables, issued, requests>>

-----------------------------------------------------------------------------
(* A token passes its expiry; cleanup_expired_tokens deletes its row.      *)
Expire(t) ==
    /\ token[t].state \in {"live", "rotated", "revoked"}
    /\ token' = [token EXCEPT ![t].state = IF @ = "live" THEN "revoked" ELSE "gone"]
    /\ UNCHANGED <<accounts, client, tables, req, burned, issued, requests>>

(* The process restarts: requests end where they are, both tables are      *)
(* empty.                                                                  *)
Restart ==
    /\ requests < MaxRequests /\ requests' = requests + 1
    /\ req' = [h \in Handlers |-> Done]
    /\ view' = [t \in Tokens |-> NoView] /\ elevated' = {}
    /\ UNCHANGED <<accounts, token, client, burned, issued>>

Handle(h) ==
    \/ Issue(h) \/ Rotate(h) \/ Refuse(h) \/ CheckAccount(h) \/ Migrate(h)
    \/ Answer(h) \/ AnswerLost(h) \/ ElevationStamp(h) \/ ViewModeSet(h)
    \/ CountRoots(h) \/ WriteAccount(h) \/ RevokeAll(h)

Next ==
    \/ \E h \in Handlers :
          \/ Handle(h)
          \/ \E b \in Browsers :
                \/ Logout(h, b) \/ Refresh(h, b) \/ Elevate(h, b) \/ EnterViewMode(h, b)
                \/ ChangeOwnPassword(h, b)
                \/ \E u \in Users :
                      \/ Login(h, b, u) \/ GrantRoot(h, b, u) \/ RevokeRoot(h, b, u)
                      \/ UpdateUser(h, b, u) \/ DeleteUser(h, b, u) \/ CreateUser(h, b, u)
                      \/ ResetPassword(h, b, u)
    \/ \E b \in Browsers : ExitViewMode(b)
    \/ \E t \in Tokens : ElevationEnds(t) \/ Expire(t)
    \/ Restart

Spec == Init /\ [][Next]_vars

-----------------------------------------------------------------------------
(* Properties                                                              *)

(* A login has at most one refresh token that works, however many tabs     *)
(* refresh with the same cookie at once and whatever answers get lost      *)
(* (rotate_refresh_token).                                                 *)
OneLivePerLogin ==
    \A s, t \in Tokens :
        (token[s].state = "live" /\ token[t].state = "live"
         /\ token[s].family = token[t].family) => s = t

(* A revocation of all the sessions of a user is final: no token of a      *)
(* login it covered ever works again, not even one that a refresh was      *)
(* about to issue (revoke_all_for_user, rotate_refresh_token).             *)
RevocationIsFinal ==
    \A t \in Tokens : token[t].state = "live" => token[t].family \notin burned

=============================================================================
