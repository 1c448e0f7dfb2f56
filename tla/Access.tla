------------------------------- MODULE Access -------------------------------
(***************************************************************************)
(* Who may do what: users, their permissions and their API keys, which the *)
(* script create_api_key grants, operators withdraw in the database, and   *)
(* every request of the API reads in three or four statements before its   *)
(* handler does anything.                                                  *)
(*                                                                         *)
(* One action is the code between two awaits.  A script runs in one        *)
(* transaction and makes one key, so keys are named after their scripts.   *)
(* Emails and names, which scripts also write, decide nothing.             *)
(***************************************************************************)
EXTENDS Naturals

CONSTANTS
    Script,         \* runs of create_api_key, and the keys they make
    User, Namespace,
    Grants,         \* what scripts may be asked to grant
    Req, Asks,      \* requests, and what they may ask for
    DevUser,        \* LOCAL_DEV_USER_ID
    NoKey, NoUser, None

PermissionOrder == [read |-> 1, write |-> 2, admin |-> 3]
Permission == DOMAIN PermissionOrder

Grant == [user : User, ns : Namespace, permission : Permission, super : BOOLEAN]

\* A request presents a key, or none, and needs a permission in a namespace, the
\* superuser flag, or nothing beyond an identity.
Request == [key : Script \cup {NoKey}, ns : Namespace,
            needs : Permission \cup {"superuser", "identity"}]

ASSUME GrantsAssumption == Grants \subseteq Grant
ASSUME AsksAssumption == Asks \subseteq Request
ASSUME DevAssumption == DevUser \in User
ASSUME KindAssumption == Script \cap User = {}
ASSUME NoneAssumption ==
    /\ NoKey \notin Script
    /\ NoUser \notin [active : BOOLEAN, super : BOOLEAN]
    /\ None \notin Permission

VARIABLES
    localDev,       \* ENVIRONMENT is local and ALLOW_LOCAL_DEV_AUTH set
    \* --- PostgreSQL
    users, access,
    keys,           \* committed keys
    revoked,        \* those with a revoked_at
    used,           \* those with a last_used_at
    \* --- scripts
    grant, spc,
    seenUser, seenAccess,
    holds,          \* scripts with an uncommitted write of their user's row
    \* --- requests
    ask, rpc,
    super,          \* CurrentUser.is_superuser
    \* --- history
    since,          \* keys that were there when a script began
    withdrawn,      \* keys revoked and users deactivated by operators
    before          \* what was withdrawn when a request arrived

database == <<users, access, keys, revoked, used>>
scripts == <<grant, spc, seenUser, seenAccess, holds, since>>
requests == <<ask, rpc, super, before>>
vars == <<localDev, database, scripts, requests, withdrawn>>

UserRow == [active : BOOLEAN, super : BOOLEAN]
Key == User \X Namespace

TypeOK ==
    /\ localDev \in BOOLEAN
    /\ users \in [User -> UserRow \cup {NoUser}]
    /\ access \in [Key -> Permission \cup {None}]
    /\ keys \subseteq Script /\ revoked \subseteq keys /\ used \subseteq keys
    /\ grant \in [Script -> Grants]
    /\ spc \in [Script -> {"start", "write_user", "read_access", "commit", "done", "failed"}]
    /\ seenUser \in [Script -> UserRow \cup {NoUser}]
    /\ seenAccess \in [Script -> Permission \cup {None}]
    /\ holds \subseteq Script
    /\ ask \in [Req -> Asks]
    /\ rpc \in [Req -> {"away", "find_key", "find_user", "touch_key", "authorize",
                        "served", "refused", "failed"}]
    /\ super \in [Req -> BOOLEAN]
    /\ since \in [Script -> SUBSET Script]
    /\ withdrawn \subseteq Script \cup User
    /\ before \in [Req -> SUBSET (Script \cup User)]

Init ==
    /\ localDev \in BOOLEAN
    /\ users = [u \in User |-> NoUser]
    /\ access = [k \in Key |-> None]
    /\ keys = {} /\ revoked = {} /\ used = {}
    /\ grant \in [Script -> Grants]
    /\ spc = [s \in Script |-> "start"]
    /\ seenUser = [s \in Script |-> NoUser]
    /\ seenAccess = [s \in Script |-> None]
    /\ holds = {}
    /\ ask \in [Req -> Asks]
    /\ rpc = [q \in Req |-> "away"]
    /\ super = [q \in Req |-> FALSE]
    /\ since = [s \in Script |-> {}]
    /\ withdrawn = {}
    /\ before = [q \in Req |-> {}]

-----------------------------------------------------------------------------
\* create_api_key._create.

Goto(s, label) == spc' = [spc EXCEPT ![s] = label]

KeyOf(s) == <<grant[s].user, grant[s].ns>>

\* session.get(UserORM, user_id).
ReadUser(s) ==
    /\ spc[s] = "start"
    /\ seenUser' = [seenUser EXCEPT ![s] = users[grant[s].user]]
    /\ since' = [since EXCEPT ![s] = keys]
    /\ Goto(s, "write_user")
    /\ UNCHANGED <<localDev, database, grant, seenAccess, holds, requests, withdrawn>>

\* Must the script write the user's row?  SQLAlchemy sends no UPDATE for a flag that
\* keeps the value it was read with.
Writes(s) == seenUser[s] \notin [active : BOOLEAN, super : {grant[s].super}]

UserLocked(s) == \E t \in holds \ {s} : grant[t].user = grant[s].user

\* The SELECT that follows flushes the INSERT or UPDATE first, which waits for the
\* transaction that holds the row.
WriteUser(s) ==
    /\ spc[s] = "write_user"
    /\ \/ ~Writes(s) /\ UNCHANGED holds
       \/ /\ Writes(s) /\ ~UserLocked(s)
          /\ seenUser[s] = NoUser => users[grant[s].user] = NoUser
          /\ holds' = holds \cup {s}
    /\ Goto(s, "read_access")
    /\ UNCHANGED <<localDev, database, grant, seenUser, seenAccess, since, requests,
                   withdrawn>>

\* SELECT of the permission in the namespace.
ReadAccess(s) ==
    /\ spc[s] = "read_access"
    /\ seenAccess' = [seenAccess EXCEPT ![s] = access[KeyOf(s)]]
    /\ Goto(s, "commit")
    /\ UNCHANGED <<localDev, database, grant, seenUser, holds, since, requests, withdrawn>>

\* The permission after the commit: no UPDATE for one that was read as it should be.
\* Mutant: a row that is there is left as it is.
KeptPermission(s) ==
    IF seenAccess[s] = None THEN grant[s].permission ELSE access[KeyOf(s)]
NewPermission(s) ==
    IF seenAccess[s] # grant[s].permission THEN grant[s].permission ELSE access[KeyOf(s)]

NewUser(s) ==
    LET u == users[grant[s].user] IN
    CASE seenUser[s] = NoUser -> [active |-> TRUE, super |-> grant[s].super]
      [] seenUser[s] # NoUser /\ Writes(s) -> [u EXCEPT !.super = grant[s].super]
      [] OTHER -> u

\* The flush of the permission and the key, and the COMMIT; then the key is shown.
Commit(s) ==
    /\ spc[s] = "commit"
    /\ seenAccess[s] = None => access[KeyOf(s)] = None
    /\ users' = [users EXCEPT ![grant[s].user] = NewUser(s)]
    /\ access' = [access EXCEPT ![KeyOf(s)] = NewPermission(s)]
    /\ keys' = keys \cup {s}
    /\ holds' = holds \ {s}
    /\ Goto(s, "done")
    /\ UNCHANGED <<localDev, revoked, used, grant, seenUser, seenAccess, since, requests,
                   withdrawn>>

\* A unique key another script has inserted meanwhile, or the end of the process.
FailScript(s) ==
    /\ spc[s] \in {"write_user", "read_access", "commit"}
    /\ holds' = holds \ {s}
    /\ Goto(s, "failed")
    /\ UNCHANGED <<localDev, database, grant, seenUser, seenAccess, since, requests,
                   withdrawn>>

ScriptStep(s) ==
    ReadUser(s) \/ WriteUser(s) \/ ReadAccess(s) \/ Commit(s) \/ FailScript(s)

-----------------------------------------------------------------------------
\* A request: get_current_user, then the check of its handler.

Owner(q) == grant[ask[q].key].user

Answer(q, label) ==
    /\ rpc' = [rpc EXCEPT ![q] = label]
    /\ UNCHANGED <<localDev, users, access, keys, revoked, scripts, ask, withdrawn>>

Arrive(q) ==
    /\ rpc[q] = "away"
    /\ before' = [before EXCEPT ![q] = withdrawn]
    /\ Answer(q, "find_key")
    /\ UNCHANGED <<used, super>>

\* Without a header, local development gets a superuser and the rest a 401.
Anonymous(q) ==
    /\ rpc[q] = "find_key" /\ ask[q].key = NoKey
    /\ super' = [super EXCEPT ![q] = localDev]
    /\ Answer(q, IF localDev THEN "authorize" ELSE "refused")
    /\ UNCHANGED <<used, before>>

\* SELECT of the key by its hash.
\* Mutant: revoked keys are found too.
Finds(k) == k \in keys
Valid(k) == k \in keys \ revoked
FindKey(q) ==
    /\ rpc[q] = "find_key" /\ ask[q].key # NoKey
    /\ Answer(q, IF Valid(ask[q].key) THEN "find_user" ELSE "refused")
    /\ UNCHANGED <<used, super, before>>

FindUser(q) ==
    /\ rpc[q] = "find_user"
    /\ Answer(q, IF users[Owner(q)].active THEN "touch_key" ELSE "refused")
    /\ super' = [super EXCEPT ![q] = users[Owner(q)].super]
    /\ UNCHANGED <<used, before>>

\* UPDATE of last_used_at alone, and a COMMIT: other columns keep what they have.
\* Mutant: the whole row is written as it was read.
TouchRow(q) ==
    /\ rpc[q] = "touch_key"
    /\ used' = used \cup {ask[q].key}
    /\ revoked' = revoked \ {ask[q].key}
    /\ rpc' = [rpc EXCEPT ![q] = "authorize"]
    /\ UNCHANGED <<localDev, users, access, keys, scripts, ask, super, before, withdrawn>>
TouchKey(q) ==
    /\ rpc[q] = "touch_key"
    /\ used' = used \cup {ask[q].key}
    /\ Answer(q, "authorize")
    /\ UNCHANGED <<super, before>>

\* NamespaceAuthz.check_access: the permission that is there now.
Suffices(permission, needed) ==
    permission # None /\ PermissionOrder[permission] >= PermissionOrder[needed]

IsDev(q) == localDev /\ (ask[q].key = NoKey \/ Owner(q) = DevUser)

Permitted(q) ==
    CASE ask[q].needs = "identity"  -> TRUE
      [] ask[q].needs = "superuser" -> super[q]
      [] OTHER -> IsDev(q) \/ Suffices(access[<<Owner(q), ask[q].ns>>], ask[q].needs)

Authorize(q) ==
    /\ rpc[q] = "authorize"
    /\ Answer(q, IF Permitted(q) THEN "served" ELSE "refused")
    /\ UNCHANGED <<used, super, before>>

\* An exception at any await; a COMMIT that went through stays.
FailRequest(q) ==
    /\ rpc[q] \in {"find_key", "find_user", "touch_key", "authorize"}
    /\ Answer(q, "failed")
    /\ UNCHANGED <<used, super, before>>

RequestStep(q) ==
    \/ Arrive(q) \/ Anonymous(q) \/ FindKey(q) \/ FindUser(q) \/ TouchKey(q)
    \/ Authorize(q) \/ FailRequest(q)

-----------------------------------------------------------------------------
\* Operators withdraw a key or a user with a statement of their own.

Revoke(k) ==
    /\ k \in keys \ revoked
    /\ revoked' = revoked \cup {k}
    /\ withdrawn' = withdrawn \cup {k}
    /\ UNCHANGED <<localDev, users, access, keys, used, scripts, requests>>

Deactivate(u) ==
    /\ users[u] # NoUser /\ users[u].active
    /\ ~\E s \in holds : grant[s].user = u
    /\ users' = [users EXCEPT ![u].active = FALSE]
    /\ withdrawn' = withdrawn \cup {u}
    /\ UNCHANGED <<localDev, access, keys, revoked, used, scripts, requests>>

Quiet ==
    /\ \A s \in Script : spc[s] \in {"done", "failed"}
    /\ \A q \in Req : rpc[q] \in {"served", "refused", "failed"}
    /\ UNCHANGED vars

Next ==
    \/ \E s \in Script : ScriptStep(s)
    \/ \E q \in Req : RequestStep(q)
    \/ \E k \in Script : Revoke(k)
    \/ \E u \in User : Deactivate(u)
    \/ Quiet

Spec == Init /\ [][Next]_vars

-----------------------------------------------------------------------------
\* Properties.

\* A request is served only with a key that was not revoked, of a user who was not
\* deactivated, when it arrived, and with rights a committed script has granted to
\* that user, although nothing holds what it has read until it is served.
\* Local development is exempt.
ServedRightly ==
    \A q \in Req : rpc[q] = "served" /\ ~IsDev(q) =>
        /\ ask[q].key \in keys
        /\ {ask[q].key, Owner(q)} \cap before[q] = {}
        /\ ask[q].needs = "superuser"
           => \E s \in keys : grant[s].user = Owner(q) /\ grant[s].super
        /\ ask[q].needs \in Permission
           => \E s \in keys : /\ KeyOf(s) = <<Owner(q), ask[q].ns>>
                              /\ Suffices(grant[s].permission, ask[q].needs)

\* What an operator has withdrawn stays withdrawn, though requests and scripts
\* write to rows they have read before.
WithdrawalsLast ==
    /\ withdrawn \cap Script \subseteq revoked
    /\ \A u \in withdrawn \cap User : users[u] # NoUser /\ ~users[u].active

\* Scripts upsert from what they have read.  Still, what is in force once a script
\* is done was granted by itself or by a script that had not committed when it
\* began: no script's grant is lost to an older one, and a key never lacks its
\* user or its permission.
GrantsCurrent ==
    \A s \in keys :
        LET Newer == keys \ since[s] IN
        /\ users[grant[s].user] # NoUser
        /\ \E t \in Newer : /\ grant[t].user = grant[s].user
                            /\ grant[t].super = users[grant[s].user].super
        /\ \E t \in Newer : KeyOf(t) = KeyOf(s) /\ grant[t].permission = access[KeyOf(s)]

=============================================================================
