---------------------------- MODULE AccessProofs ----------------------------
(***************************************************************************)
(* Theorems about Access, for any number of scripts, users and requests.   *)
(***************************************************************************)
EXTENDS Access, TLAPS

-----------------------------------------------------------------------------
\* Types.

LEMMA GrantFields ==
    ASSUME TypeOK, NEW s \in Script
    PROVE  /\ grant[s].user \in User /\ grant[s].ns \in Namespace
           /\ grant[s].permission \in Permission /\ grant[s].super \in BOOLEAN
           /\ KeyOf(s) \in Key
BY GrantsAssumption DEF TypeOK, Grant, KeyOf, Key

LEMMA AskFields ==
    ASSUME TypeOK, NEW q \in Req
    PROVE  /\ ask[q].key \in Script \cup {NoKey} /\ ask[q].ns \in Namespace
           /\ ask[q].needs \in Permission \cup {"superuser", "identity"}
           /\ ask[q].key # NoKey => Owner(q) \in User
BY AsksAssumption, GrantFields DEF TypeOK, Request, Owner

\* A user once created stays, so what a script has read and the key a request has
\* found have one; a row is written by one script at a time.
Created ==
    /\ \A s \in Script :
        /\ seenUser[s] # NoUser => users[grant[s].user] # NoUser
        /\ spc[s] \in {"read_access", "commit"} /\ seenUser[s] = NoUser => s \in holds
        /\ s \in keys => users[grant[s].user] # NoUser
        /\ s \in holds => spc[s] \in {"read_access", "commit"}
        /\ s \in holds /\ seenUser[s] = NoUser => users[grant[s].user] = NoUser
    /\ \A s, t \in holds : grant[s].user = grant[t].user => s = t
    /\ \A q \in Req :
        rpc[q] \in {"find_user", "touch_key"} => ask[q].key \in keys

LEMMA NewUserRow ==
    ASSUME TypeOK, Created, NEW s \in Script
    PROVE  /\ NewUser(s) \in UserRow
           /\ Writes(s) => NewUser(s).super = grant[s].super
           /\ ~Writes(s) => NewUser(s) = users[grant[s].user]
           /\ users[grant[s].user] # NoUser /\ seenUser[s] # NoUser
              => NewUser(s).active = users[grant[s].user].active
<1> DEFINE u == users[grant[s].user]
<1>1. /\ grant[s].super \in BOOLEAN /\ u \in UserRow \cup {NoUser}
      /\ seenUser[s] \in UserRow \cup {NoUser}
  BY GrantFields DEF TypeOK
<1>2. CASE seenUser[s] = NoUser
  <2>1. Writes(s)
    <3>1. [active : BOOLEAN, super : {grant[s].super}] \subseteq UserRow
      BY <1>1 DEF UserRow
    <3> QED BY <1>2, <3>1, NoneAssumption DEF Writes, UserRow
  <2>2. NewUser(s) = [active |-> TRUE, super |-> grant[s].super]
    BY <1>2 DEF NewUser
  <2> QED BY <1>1, <1>2, <2>1, <2>2 DEF UserRow
<1>3. CASE seenUser[s] # NoUser
  <2>1. u \in UserRow
    BY <1>1, <1>3 DEF Created
  <2>2. CASE Writes(s)
    <3>1. NewUser(s) = [u EXCEPT !.super = grant[s].super]
      BY <1>3, <2>2 DEF NewUser
    <3> QED BY <1>1, <2>1, <2>2, <3>1 DEF UserRow
  <2>3. CASE ~Writes(s)
    <3>1. NewUser(s) = u
      BY <1>3, <2>3 DEF NewUser
    <3> QED BY <2>1, <2>3, <3>1
  <2> QED BY <2>2, <2>3
<1> QED BY <1>2, <1>3

Types == TypeOK /\ Created

LEMMA InitTypes == Init => Types
BY NoneAssumption
DEF Init, Types, TypeOK, Created, UserRow, Key, Permission, PermissionOrder

LEMMA ScriptTypes ==
    ASSUME Types, NEW s \in Script, ScriptStep(s)
    PROVE  Types'
<1> USE GrantFields, NoneAssumption
    DEF Types, TypeOK, Created, Goto, database, scripts, requests
<1>1. CASE ReadUser(s)
  BY <1>1 DEF ReadUser
<1>2. CASE WriteUser(s)
  <2>1. seenUser[s] = NoUser => Writes(s)
    <3>1. [active : BOOLEAN, super : {grant[s].super}] \subseteq UserRow
      BY DEF UserRow
    <3> QED BY <3>1 DEF Writes, UserRow
  <2>2. /\ spc' = [spc EXCEPT ![s] = "read_access"] /\ spc[s] = "write_user"
        /\ UNCHANGED <<localDev, database, grant, seenUser, seenAccess, since, requests,
                       withdrawn>>
    BY <1>2 DEF WriteUser
  <2>3. CASE holds' = holds /\ ~Writes(s)
    BY <2>1, <2>2, <2>3
  <2>4. CASE /\ holds' = holds \cup {s} /\ ~UserLocked(s)
             /\ seenUser[s] = NoUser => users[grant[s].user] = NoUser
    <3>1. \A t \in holds : grant[t].user = grant[s].user => t = s
      BY <2>4 DEF UserLocked
    <3> QED BY <2>2, <2>4, <3>1
  <2> QED BY <1>2, <2>3, <2>4 DEF WriteUser
<1>3. CASE ReadAccess(s)
  BY <1>3 DEF ReadAccess
<1>4. CASE Commit(s)
  <2>1. NewUser(s) \in UserRow /\ NewUser(s) # NoUser
    BY NewUserRow DEF UserRow
  <2>2. NewPermission(s) \in Permission \cup {None}
    BY DEF NewPermission
  <2> QED BY <1>4, <2>1, <2>2 DEF Commit
<1>5. CASE FailScript(s)
  BY <1>5 DEF FailScript
<1> QED BY <1>1, <1>2, <1>3, <1>4, <1>5 DEF ScriptStep

LEMMA RequestTypes ==
    ASSUME Types, NEW q \in Req, RequestStep(q)
    PROVE  Types'
<1> USE NoneAssumption, AskFields
    DEF Types, TypeOK, Created, Answer, database, scripts, requests
<1>1. CASE Arrive(q)
  BY <1>1 DEF Arrive
<1>2. CASE Anonymous(q)
  BY <1>2 DEF Anonymous
<1>3. CASE FindKey(q)
  BY <1>3 DEF FindKey, Valid
<1>4. CASE FindUser(q)
  <2>1. users[Owner(q)] \in UserRow
    BY <1>4 DEF FindUser, Owner
  <2>2. users[Owner(q)].super \in BOOLEAN
    BY <2>1 DEF UserRow
  <2> QED BY <1>4, <2>2 DEF FindUser
<1>5. CASE TouchKey(q)
  BY <1>5 DEF TouchKey
<1>6. CASE Authorize(q)
  BY <1>6 DEF Authorize
<1>7. CASE FailRequest(q)
  BY <1>7 DEF FailRequest
<1> QED BY <1>1, <1>2, <1>3, <1>4, <1>5, <1>6, <1>7 DEF RequestStep

LEMMA OperatorTypes ==
    ASSUME Types, \/ \E k \in Script : Revoke(k)
                  \/ \E u \in User : Deactivate(u)
                  \/ Quiet \/ UNCHANGED vars
    PROVE  Types'
<1> USE DEF Types, TypeOK, Created, database, scripts, requests
<1>1. ASSUME NEW k \in Script, Revoke(k) PROVE Types'
  BY <1>1 DEF Revoke
<1>2. ASSUME NEW u \in User, Deactivate(u) PROVE Types'
  <2>1. [users[u] EXCEPT !.active = FALSE] \in UserRow
    <3>1. users[u] \in UserRow
      BY <1>2 DEF Deactivate
    <3> QED BY <3>1 DEF UserRow
  <2>2. users[u] # NoUser /\ [users[u] EXCEPT !.active = FALSE] # NoUser
    BY <1>2, <2>1, NoneAssumption DEF Deactivate, UserRow
  <2>3. users' = [users EXCEPT ![u] = [users[u] EXCEPT !.active = FALSE]]
    BY <1>2 DEF Deactivate
  <2>4. /\ users' \in [User -> UserRow \cup {NoUser}]
        /\ \A v \in User : users'[v] = NoUser <=> users[v] = NoUser
    BY <2>1, <2>2, <2>3
  <2>5. /\ withdrawn' \subseteq Script \cup User
        /\ UNCHANGED <<localDev, access, keys, revoked, used, grant, spc, seenUser,
                       seenAccess, holds, since, ask, rpc, super, before>>
    BY <1>2 DEF Deactivate
  <2> QED BY <2>4, <2>5, GrantFields
<1>3. CASE Quiet \/ UNCHANGED vars
  BY <1>3 DEF Quiet, vars
<1> QED BY <1>1, <1>2, <1>3

LEMMA StepTypes == Types /\ [Next]_vars => Types'
BY ScriptTypes, RequestTypes, OperatorTypes DEF Next

\* TypeOK in every reachable state.
THEOREM TypeCorrect == Spec => []TypeOK
<1>1. Types => TypeOK
  BY DEF Types
<1> QED BY InitTypes, StepTypes, <1>1, PTL DEF Spec

-----------------------------------------------------------------------------
\* Grants.

\* What is in force was granted by a script younger than the look of s.
NewSuper(s) ==
    \E t \in keys \ since[s] : /\ grant[t].user = grant[s].user
                              /\ grant[t].super = users[grant[s].user].super
NewGrant(s) ==
    \E t \in keys \ since[s] : KeyOf(t) = KeyOf(s) /\ grant[t].permission = access[KeyOf(s)]

\* What a script has read is in force until a younger script changes it.
Granted(s) ==
    /\ since[s] \subseteq keys
    /\ s \in keys => spc[s] = "done"
    /\ spc[s] \in {"write_user", "read_access", "commit"} /\ seenUser[s] # NoUser
       => users[grant[s].user].super = seenUser[s].super \/ NewSuper(s)
    /\ spc[s] = "commit" => access[KeyOf(s)] = seenAccess[s] \/ NewGrant(s)
    /\ s \in keys => NewSuper(s) /\ NewGrant(s)

Granting == \A s \in Script : Granted(s)

LEMMA CommitGranting ==
    ASSUME Types, Granting, NEW t \in Script, Commit(t)
    PROVE  Granting'
<1> USE GrantFields DEF Types
<1>1. /\ spc[t] = "commit" /\ t \notin keys
      /\ keys' = keys \cup {t} /\ spc' = [spc EXCEPT ![t] = "done"]
      /\ UNCHANGED <<grant, seenUser, seenAccess, since>>
      /\ users' = [users EXCEPT ![grant[t].user] = NewUser(t)]
      /\ access' = [access EXCEPT ![KeyOf(t)] = NewPermission(t)]
  BY DEF Commit, Granting, Granted, Goto
<1>2. \A s \in Script : t \notin since[s] /\ KeyOf(s)' = KeyOf(s)
  BY <1>1 DEF Granting, Granted, KeyOf
<1>3. \A u \in User : \/ users'[u] = users[u]
                      \/ u = grant[t].user /\ users'[u].super = grant[t].super
  BY <1>1, NewUserRow DEF TypeOK
<1>4. \A k \in Key : \/ access'[k] = access[k]
                     \/ k = KeyOf(t) /\ access'[k] = grant[t].permission
  BY <1>1 DEF TypeOK, NewPermission
<1>5. \A s \in Script : NewSuper(s) => NewSuper(s)'
  BY <1>1, <1>2, <1>3 DEF NewSuper, TypeOK
<1>6. \A s \in Script : NewGrant(s) => NewGrant(s)'
  BY <1>1, <1>2, <1>4 DEF NewGrant, TypeOK
<1>7. \E s \in Script : s = t /\ NewSuper(s)' /\ NewGrant(s)'
  <2>1. \/ users'[grant[t].user].super = grant[t].super
        \/ users'[grant[t].user] = users[grant[t].user] /\ NewSuper(t)
    <3>1. CASE Writes(t)
      BY <1>1, <3>1, NewUserRow DEF TypeOK
    <3>2. CASE ~Writes(t)
      <4>1. users'[grant[t].user] = users[grant[t].user]
        BY <1>1, <3>2, NewUserRow DEF TypeOK
      <4>2. seenUser[t] # NoUser /\ seenUser[t].super = grant[t].super
        <5>1. [active : BOOLEAN, super : {grant[t].super}] \subseteq UserRow
          BY DEF UserRow
        <5> QED BY <3>2, <5>1, NoneAssumption DEF Writes, UserRow
      <4> QED BY <1>1, <4>1, <4>2 DEF Granting, Granted
    <3> QED BY <3>1, <3>2
  <2>2. \/ access'[KeyOf(t)] = grant[t].permission
        \/ access'[KeyOf(t)] = access[KeyOf(t)] /\ NewGrant(t)
    BY <1>1 DEF Granting, Granted, NewPermission, TypeOK
  <2>3. NewSuper(t) => \E s \in Script : s = t /\ NewSuper(s)'
    BY <1>5
  <2>4. NewGrant(t) => \E s \in Script : s = t /\ NewGrant(s)'
    BY <1>6
  <2>5. users'[grant[t].user].super = grant[t].super
        => \E s \in Script : s = t /\ NewSuper(s)'
    BY <1>1, <1>2 DEF NewSuper
  <2>6. access'[KeyOf(t)] = grant[t].permission => \E s \in Script : s = t /\ NewGrant(s)'
    BY <1>1, <1>2 DEF NewGrant
  <2> QED BY <2>1, <2>2, <2>3, <2>4, <2>5, <2>6
<1>8. ASSUME NEW s \in Script PROVE Granted(s)'
  <2>1. CASE s = t
    BY <1>1, <1>2, <1>7, <2>1 DEF Granting, Granted, TypeOK
  <2>2. CASE s # t
    <3>1. spc'[s] = spc[s] /\ (s \in keys' <=> s \in keys)
      BY <1>1, <2>2 DEF TypeOK
    <3>2. users'[grant[s].user] = users[grant[s].user] \/ NewSuper(s)'
      BY <1>1, <1>2, <1>3 DEF NewSuper, TypeOK
    <3>3. access'[KeyOf(s)] = access[KeyOf(s)] \/ NewGrant(s)'
      BY <1>1, <1>2, <1>4 DEF NewGrant, TypeOK
    <3> QED BY <1>1, <1>2, <1>5, <1>6, <3>1, <3>2, <3>3 DEF Granting, Granted
  <2> QED BY <2>1, <2>2
<1> QED BY <1>8 DEF Granting, Granted

LEMMA InitGranting == Init => Granting
BY DEF Init, Granting, Granted

LEMMA StepGranting ==
    ASSUME Types, Granting, [Next]_vars
    PROVE  Granting'
<1> USE GrantFields DEF Types, TypeOK, Goto, database, scripts, requests
<1>0. ASSUME UNCHANGED <<access, keys, grant, users>>,
             NEW s \in Script, since'[s] = since[s]
      PROVE  /\ NewSuper(s)' <=> NewSuper(s)
             /\ NewGrant(s)' <=> NewGrant(s)
             /\ KeyOf(s)' = KeyOf(s)
  BY <1>0 DEF NewSuper, NewGrant, KeyOf
<1>1. ASSUME NEW s \in Script, ReadUser(s) PROVE Granting'
  <2>1. /\ since' = [since EXCEPT ![s] = keys] /\ spc' = [spc EXCEPT ![s] = "write_user"]
        /\ seenUser' = [seenUser EXCEPT ![s] = users[grant[s].user]]
        /\ spc[s] = "start" /\ UNCHANGED <<users, access, keys, grant, seenAccess>>
    BY <1>1 DEF ReadUser
  <2>2. ASSUME NEW x \in Script PROVE Granted(x)'
    <3>1. CASE x = s
      BY <2>1, <3>1 DEF Granting, Granted
    <3>2. CASE x # s
      <4>1. /\ NewSuper(x)' <=> NewSuper(x)
            /\ NewGrant(x)' <=> NewGrant(x)
            /\ KeyOf(x)' = KeyOf(x)
        BY <1>0, <2>1, <3>2
      <4> QED BY <2>1, <3>2, <4>1 DEF Granting, Granted
    <3> QED BY <3>1, <3>2
  <2> QED BY <2>2 DEF Granting
<1>2. ASSUME NEW s \in Script, ReadAccess(s) PROVE Granting'
  <2>1. /\ seenAccess' = [seenAccess EXCEPT ![s] = access[KeyOf(s)]]
        /\ spc' = [spc EXCEPT ![s] = "commit"] /\ spc[s] = "read_access"
        /\ UNCHANGED <<users, access, keys, grant, seenUser, since>>
    BY <1>2 DEF ReadAccess
  <2>2. ASSUME NEW x \in Script PROVE Granted(x)'
    <3>1. /\ NewSuper(x)' <=> NewSuper(x)
          /\ NewGrant(x)' <=> NewGrant(x)
          /\ KeyOf(x)' = KeyOf(x)
      BY <1>0, <2>1
    <3>2. CASE x = s
      BY <2>1, <3>1, <3>2 DEF Granting, Granted
    <3>3. CASE x # s
      BY <2>1, <3>1, <3>3 DEF Granting, Granted
    <3> QED BY <3>2, <3>3
  <2> QED BY <2>2 DEF Granting
<1>3. ASSUME NEW s \in Script, WriteUser(s) \/ FailScript(s) PROVE Granting'
  <2>1. /\ \/ /\ spc' = [spc EXCEPT ![s] = "read_access"] /\ spc[s] = "write_user"
           \/ /\ spc' = [spc EXCEPT ![s] = "failed"]
              /\ spc[s] \in {"write_user", "read_access", "commit"}
        /\ UNCHANGED <<users, access, keys, grant, seenUser, seenAccess, since>>
    BY <1>3 DEF WriteUser, FailScript
  <2>2. ASSUME NEW x \in Script PROVE Granted(x)'
    <3>1. /\ NewSuper(x)' <=> NewSuper(x)
          /\ NewGrant(x)' <=> NewGrant(x)
          /\ KeyOf(x)' = KeyOf(x)
      BY <1>0, <2>1
    <3>2. CASE x = s
      BY <2>1, <3>1, <3>2 DEF Granting, Granted
    <3>3. CASE x # s
      BY <2>1, <3>1, <3>3 DEF Granting, Granted
    <3> QED BY <3>2, <3>3
  <2> QED BY <2>2 DEF Granting
<1>4. ASSUME NEW u \in User, Deactivate(u) PROVE Granting'
  <2>1. /\ users' = [users EXCEPT ![u] = [users[u] EXCEPT !.active = FALSE]]
        /\ users[u] \in UserRow
        /\ UNCHANGED <<access, keys, grant, spc, seenUser, seenAccess, since>>
    BY <1>4 DEF Deactivate
  <2>2. \A v \in User : users'[v].super = users[v].super
    BY <2>1 DEF UserRow
  <2>3. \A s \in Script : users'[grant[s].user].super = users[grant[s].user].super
    BY <2>2
  <2> QED BY <2>1, <2>3, SMTT(20) DEF Granting, Granted, NewSuper, NewGrant, KeyOf
<1>5. ASSUME UNCHANGED <<users, access, keys, scripts>> PROVE Granting'
  BY <1>5, SMTT(20) DEF Granting, Granted, NewSuper, NewGrant, KeyOf
<1>6. ASSUME NEW q \in Req, RequestStep(q) PROVE Granting'
  BY <1>5, <1>6
  DEF RequestStep, Arrive, Anonymous, FindKey, FindUser, TouchKey, Authorize, FailRequest,
      Answer
<1>7. ASSUME NEW k \in Script, Revoke(k) PROVE Granting'
  BY <1>5, <1>7 DEF Revoke
<1>8. CASE Quiet \/ UNCHANGED vars
  BY <1>5, <1>8 DEF Quiet, vars
<1> QED BY <1>1, <1>2, <1>3, <1>4, <1>6, <1>7, <1>8, CommitGranting DEF Next, ScriptStep

LEMMA GrantingCorrect == Spec => [](Types /\ Granting)
BY InitTypes, StepTypes, InitGranting, StepGranting, PTL DEF Spec

\* However scripts overlap, no grant is lost to an older one, and every key has its
\* user and its permission.
THEOREM GrantsAreCurrent == Spec => []GrantsCurrent
<1>1. Types /\ Granting => GrantsCurrent
  BY DEF Types, TypeOK, Created, Granting, Granted, NewSuper, NewGrant, GrantsCurrent
<1> QED BY GrantingCorrect, <1>1, PTL

-----------------------------------------------------------------------------
\* Withdrawals.

LEMMA StepWithdrawals ==
    ASSUME Types, WithdrawalsLast, [Next]_vars
    PROVE  WithdrawalsLast'
<1> USE GrantFields, KindAssumption
    DEF Types, TypeOK, WithdrawalsLast, database, scripts, requests
<1>1. ASSUME NEW s \in Script, Commit(s) PROVE WithdrawalsLast'
  <2>1. /\ users' = [users EXCEPT ![grant[s].user] = NewUser(s)]
        /\ UNCHANGED <<revoked, withdrawn>> /\ spc[s] = "commit"
    BY <1>1 DEF Commit
  <2>2. NewUser(s) # NoUser
    BY NewUserRow, NoneAssumption DEF UserRow
  <2>3. users[grant[s].user] # NoUser /\ seenUser[s] # NoUser
        => NewUser(s).active = users[grant[s].user].active
    BY NewUserRow
  <2>4. seenUser[s] = NoUser => users[grant[s].user] = NoUser
    BY <2>1 DEF Created
  <2> QED BY <2>1, <2>2, <2>3, <2>4
<1>2. ASSUME NEW k \in Script, Revoke(k) PROVE WithdrawalsLast'
  BY <1>2 DEF Revoke
<1>3. ASSUME NEW u \in User, Deactivate(u) PROVE WithdrawalsLast'
  <2>1. /\ users' = [users EXCEPT ![u] = [users[u] EXCEPT !.active = FALSE]]
        /\ users[u] \in UserRow /\ withdrawn' = withdrawn \cup {u} /\ UNCHANGED revoked
    BY <1>3 DEF Deactivate
  <2>2. users'[u] # NoUser /\ ~users'[u].active
    <3>1. users'[u] = [users[u] EXCEPT !.active = FALSE]
      BY <2>1
    <3>2. users'[u] \in UserRow /\ ~users'[u].active
      BY <2>1, <3>1 DEF UserRow
    <3> QED BY <3>2, NoneAssumption DEF UserRow
  <2> QED BY <2>1, <2>2
<1>4. ASSUME UNCHANGED <<users, revoked, withdrawn>> PROVE WithdrawalsLast'
  BY <1>4
<1>5. ASSUME NEW s \in Script,
             ReadUser(s) \/ WriteUser(s) \/ ReadAccess(s) \/ FailScript(s)
      PROVE  WithdrawalsLast'
  BY <1>4, <1>5 DEF ReadUser, WriteUser, ReadAccess, FailScript
<1>6. ASSUME NEW q \in Req, RequestStep(q) PROVE WithdrawalsLast'
  BY <1>4, <1>6
  DEF RequestStep, Arrive, Anonymous, FindKey, FindUser, TouchKey, Authorize, FailRequest,
      Answer
<1>7. CASE Quiet \/ UNCHANGED vars
  BY <1>4, <1>7 DEF Quiet, vars
<1> QED BY <1>1, <1>2, <1>3, <1>5, <1>6, <1>7 DEF Next, ScriptStep

\* Neither a request nor a script gives back what an operator has withdrawn.
THEOREM WithdrawalsAreLast == Spec => []WithdrawalsLast
<1>1. Init => WithdrawalsLast
  BY DEF Init, WithdrawalsLast
<1> QED BY InitTypes, StepTypes, StepWithdrawals, <1>1, PTL DEF Spec

-----------------------------------------------------------------------------
\* Requests.

\* Every permission in the table was granted.
Backed ==
    \A k \in Key : access[k] # None =>
        \E t \in keys : KeyOf(t) = k /\ grant[t].permission = access[k]

GrantedSuper(q) == \E t \in keys : grant[t].user = Owner(q) /\ grant[t].super
GrantedNeed(q) ==
    \E t \in keys : /\ KeyOf(t) = <<Owner(q), ask[q].ns>>
                    /\ Suffices(grant[t].permission, ask[q].needs)

\* What a request knows of itself at each of its awaits.
Known(q) ==
    /\ before[q] \subseteq withdrawn
    /\ ask[q].key # NoKey /\ rpc[q] \in {"find_user", "touch_key", "authorize", "served"}
       => ask[q].key \in keys \ before[q]
    /\ ask[q].key # NoKey /\ rpc[q] \in {"touch_key", "authorize", "served"}
       => Owner(q) \notin before[q] /\ (super[q] => GrantedSuper(q))
    /\ ask[q].key = NoKey /\ rpc[q] \in {"authorize", "served"} => localDev
    /\ ask[q].key = NoKey => rpc[q] \notin {"find_user", "touch_key"}
    /\ rpc[q] = "served" /\ ~IsDev(q) =>
        /\ ask[q].needs = "superuser" => super[q]
        /\ ask[q].needs \in Permission => GrantedNeed(q)

KnownAll == Backed /\ \A q \in Req : Known(q)

\* What grants and withdrawals tell of requests.
Sound == Types /\ Granting /\ WithdrawalsLast /\ KnownAll

LEMMA InitKnown == Init => KnownAll
BY DEF Init, KnownAll, Backed, Known

LEMMA StepBacked ==
    ASSUME Sound, [Next]_vars
    PROVE  Backed'
<1> USE DEF Sound, KnownAll, Types, TypeOK, database, scripts, requests
<1>1. ASSUME UNCHANGED <<access, keys, grant>> PROVE Backed'
  BY <1>1 DEF Backed, KeyOf
<1>2. ASSUME NEW s \in Script, Commit(s) PROVE Backed'
  <2>1. /\ keys' = keys \cup {s} /\ UNCHANGED grant
        /\ access' = [access EXCEPT ![KeyOf(s)] = NewPermission(s)]
    BY <1>2 DEF Commit
  <2>2. \A k \in Key : \/ access'[k] = access[k]
                       \/ k = KeyOf(s) /\ access'[k] = grant[s].permission
    BY <2>1 DEF NewPermission
  <2> QED BY <2>1, <2>2 DEF Backed, KeyOf
<1>3. ASSUME NEW s \in Script,
             ReadUser(s) \/ WriteUser(s) \/ ReadAccess(s) \/ FailScript(s)
      PROVE  Backed'
  BY <1>1, <1>3 DEF ReadUser, WriteUser, ReadAccess, FailScript
<1>4. ASSUME NEW q \in Req, RequestStep(q) PROVE Backed'
  BY <1>1, <1>4
  DEF RequestStep, Arrive, Anonymous, FindKey, FindUser, TouchKey, Authorize, FailRequest,
      Answer
<1>5. CASE \/ \E k \in Script : Revoke(k)
           \/ \E u \in User : Deactivate(u)
           \/ Quiet \/ UNCHANGED vars
  BY <1>1, <1>5 DEF Revoke, Deactivate, Quiet, vars
<1> QED BY <1>2, <1>3, <1>4, <1>5 DEF Next, ScriptStep

LEMMA FindUserKnown ==
    ASSUME Sound, NEW q \in Req, FindUser(q), rpc'[q] = "touch_key"
    PROVE  Owner(q) \notin before[q] /\ (super'[q] => GrantedSuper(q))
<1>1. ask[q].key \in keys /\ ask[q].key \in Script /\ rpc[q] = "find_user"
  BY DEF FindUser, Sound, KnownAll, Known, Types, TypeOK
<1>2. Owner(q) \in User /\ users[Owner(q)].active /\ super'[q] = users[Owner(q)].super
  BY <1>1, GrantFields DEF FindUser, Answer, Owner, Sound, Types, TypeOK
<1>3. Owner(q) \notin before[q]
  BY <1>2 DEF Sound, WithdrawalsLast, KnownAll, Known
<1>4. NewSuper(ask[q].key)
  BY <1>1 DEF Sound, Granting, Granted
<1> QED BY <1>2, <1>3, <1>4 DEF NewSuper, GrantedSuper, Owner

LEMMA AuthorizeKnown ==
    ASSUME Sound, NEW q \in Req, Authorize(q), rpc'[q] = "served", ~IsDev(q)
    PROVE  /\ ask[q].needs = "superuser" => super[q]
           /\ ask[q].needs \in Permission => GrantedNeed(q)
<1>1. Permitted(q) /\ ask[q].key # NoKey
  BY DEF Authorize, Answer, Sound, KnownAll, Known, Types, TypeOK, IsDev
<1>2. CASE ask[q].needs \in Permission
  <2>1. Suffices(access[<<Owner(q), ask[q].ns>>], ask[q].needs)
    BY <1>1, <1>2 DEF Permitted, Permission, PermissionOrder
  <2>2. <<Owner(q), ask[q].ns>> \in Key
    BY <1>1, AskFields DEF Key, Sound, Types
  <2>3. PICK t \in keys : /\ KeyOf(t) = <<Owner(q), ask[q].ns>>
                         /\ grant[t].permission = access[<<Owner(q), ask[q].ns>>]
    BY <2>1, <2>2 DEF Suffices, Sound, KnownAll, Backed
  <2>4. GrantedNeed(q)
    BY <2>1, <2>3 DEF GrantedNeed
  <2> QED BY <1>2, <2>4 DEF Permission, PermissionOrder
<1>3. CASE ask[q].needs \notin Permission
  BY <1>1, <1>3 DEF Permitted
<1> QED BY <1>2, <1>3

LEMMA RequestKnown ==
    ASSUME Sound, NEW q \in Req, RequestStep(q)
    PROVE  Known(q)'
<1> USE AskFields DEF Sound, KnownAll, Types, TypeOK, database, scripts, requests
<1>1. /\ UNCHANGED <<localDev, users, access, keys, revoked, grant, ask, withdrawn>>
      /\ rpc[q] # "served"
  BY DEF RequestStep, Arrive, Anonymous, FindKey, FindUser, TouchKey, Authorize,
         FailRequest, Answer
<1>2. /\ Owner(q)' = Owner(q) /\ IsDev(q)' = IsDev(q)
      /\ GrantedSuper(q)' <=> GrantedSuper(q)
      /\ GrantedNeed(q)' <=> GrantedNeed(q)
  BY <1>1 DEF Owner, IsDev, GrantedSuper, GrantedNeed, KeyOf
<1>3. CASE Arrive(q)
  BY <1>1, <1>2, <1>3 DEF Arrive, Answer, Known
<1>4. CASE Anonymous(q)
  BY <1>1, <1>2, <1>4 DEF Anonymous, Answer, Known
<1>5. CASE FindKey(q)
  BY <1>1, <1>2, <1>5 DEF FindKey, Valid, Answer, Known, WithdrawalsLast
<1>6. CASE FindUser(q)
  BY <1>1, <1>2, <1>6, FindUserKnown DEF FindUser, Answer, Known
<1>7. CASE TouchKey(q)
  BY <1>1, <1>2, <1>7 DEF TouchKey, Answer, Known
<1>8. CASE Authorize(q)
  <2>1. /\ rpc[q] = "authorize" /\ rpc'[q] \in {"served", "refused"}
        /\ super'[q] = super[q] /\ before'[q] = before[q]
    BY <1>8 DEF Authorize, Answer
  <2>2. rpc'[q] = "served" /\ ~IsDev(q) =>
            /\ ask[q].needs = "superuser" => super[q]
            /\ ask[q].needs \in Permission => GrantedNeed(q)
    BY <1>8, AuthorizeKnown
  <2> QED BY <1>1, <1>2, <2>1, <2>2 DEF Known
<1>9. CASE FailRequest(q)
  BY <1>1, <1>2, <1>9 DEF FailRequest, Answer, Known
<1> QED BY <1>3, <1>4, <1>5, <1>6, <1>7, <1>8, <1>9 DEF RequestStep

\* Whatever others do, keys and grants are added and nothing a request knows is lost.
LEMMA OthersKnown ==
    ASSUME Sound, [Next]_vars, NEW q \in Req,
           UNCHANGED <<rpc[q], super[q], before[q]>>
    PROVE  Known(q)'
<1> USE DEF Sound, KnownAll, Types, TypeOK, database, scripts, requests
<1>1. /\ keys \subseteq keys' /\ withdrawn \subseteq withdrawn'
      /\ UNCHANGED <<localDev, grant, ask>>
  BY DEF Next, vars, ScriptStep, ReadUser, WriteUser, ReadAccess, Commit, FailScript,
         RequestStep, Arrive, Anonymous, FindKey, FindUser, TouchKey, Authorize,
         FailRequest, Answer, Revoke, Deactivate, Quiet
<1>2. /\ Owner(q)' = Owner(q) /\ IsDev(q)' = IsDev(q)
      /\ GrantedSuper(q) => GrantedSuper(q)'
      /\ GrantedNeed(q) => GrantedNeed(q)'
  BY <1>1 DEF Owner, IsDev, GrantedSuper, GrantedNeed, KeyOf
<1> QED BY <1>1, <1>2 DEF Known

LEMMA StepKnown ==
    ASSUME Sound, [Next]_vars
    PROVE  KnownAll'
<1>1. ASSUME NEW q \in Req PROVE Known(q)'
  <2>1. CASE RequestStep(q)
    BY <2>1, RequestKnown
  <2>2. CASE ~RequestStep(q)
    <3>1. UNCHANGED <<rpc[q], super[q], before[q]>>
      <4> USE DEF Sound, Types, TypeOK, database, scripts, requests
      <4>1. CASE \E p \in Req : RequestStep(p)
        BY <2>2, <4>1
        DEF RequestStep, Arrive, Anonymous, FindKey, FindUser, TouchKey, Authorize,
            FailRequest, Answer
      <4>2. CASE UNCHANGED requests
        BY <4>2
      <4>3. ASSUME NEW s \in Script, ScriptStep(s) PROVE UNCHANGED requests
        BY <4>3 DEF ScriptStep, ReadUser, WriteUser, ReadAccess, Commit, FailScript
      <4>4. CASE \/ \E k \in Script : Revoke(k)
                 \/ \E u \in User : Deactivate(u)
                 \/ Quiet \/ UNCHANGED vars
        BY <4>4 DEF Revoke, Deactivate, Quiet, vars
      <4> QED BY <4>1, <4>2, <4>3, <4>4 DEF Next
    <3> QED BY <3>1, OthersKnown
  <2> QED BY <2>1, <2>2
<1> QED BY <1>1, StepBacked DEF KnownAll

\* A request is served only with a key and a user that were in force when it arrived,
\* and with rights that were granted, whatever scripts and operators do meanwhile.
THEOREM RequestsServedRightly == Spec => []ServedRightly
<1>1. Init => Sound
  <2>1. Init => WithdrawalsLast
    BY DEF Init, WithdrawalsLast
  <2> QED BY <2>1, InitTypes, InitGranting, InitKnown DEF Sound
<1>2. Sound /\ [Next]_vars => Sound'
  BY StepTypes, StepGranting, StepWithdrawals, StepKnown DEF Sound
<1>3. Sound => ServedRightly
  <2> SUFFICES ASSUME Sound, NEW q \in Req, rpc[q] = "served", ~IsDev(q)
               PROVE  /\ ask[q].key \in keys
                      /\ {ask[q].key, Owner(q)} \cap before[q] = {}
                      /\ ask[q].needs = "superuser" => GrantedSuper(q)
                      /\ ask[q].needs \in Permission => GrantedNeed(q)
    BY DEF ServedRightly, GrantedSuper, GrantedNeed
  <2>1. ask[q].key # NoKey
    BY DEF Sound, KnownAll, Known, IsDev
  <2> QED BY <2>1 DEF Sound, KnownAll, Known
<1> QED BY <1>1, <1>2, <1>3, PTL DEF Spec

=============================================================================
