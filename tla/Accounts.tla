------------------------------ MODULE Accounts ------------------------------
(***************************************************************************)
(* Who may administer the household: the users table, the settings rows of *)
(* the first administrator, session cookies and single sign-on.            *)
(*                                                                         *)
(* A request is a thread of the API's pool with a database session of its  *)
(* own.  SQLite reads outside a write transaction see the last commit, the *)
(* first write takes the write lock until the commit: a request is a row   *)
(* of reads, each a step, and one write transaction, a step.               *)
(***************************************************************************)
EXTENDS Integers, FiniteSets

CONSTANTS
  Requests,     \* threads serving requests
  Emails,       \* lower-cased addresses; an account is known by its address
  Nobody,       \* no first administrator yet
  Known,        \* addresses the identity provider vouches for
  Allowed,      \* auth.oidc.allowed_emails, all addresses when that is empty
  States,       \* random state strings of single sign-on
  NoState,
  Patches       \* bodies of PATCH /v1/users: see Bodies

\* What a body asks of the role and of the disabled flag, and whether it sets a
\* password.
Bodies == [admin : {"keep", "yes", "no"}, off : {"keep", "yes", "no"}, password : BOOLEAN]

ASSUME AccountsAssumption ==
  /\ Nobody \notin Emails /\ NoState \notin States
  /\ Known \subseteq Emails
  /\ Patches \subseteq Bodies

VARIABLES
  accounts,     \* addresses with a row in users
  admins,       \* those of them with the admin role
  disabled,     \* those of them that are disabled
  legacy,       \* the address in the settings rows of set_admin_password
  secret,       \* there is a signing secret in the settings
  sessions,     \* cookies signed with the present secret and not expired
  states,       \* stored states of started sign-ons
  old,          \* those of them past _STATE_TTL_SECONDS
  pc,           \* where each request is
  actor,        \* the session it came with, or will be given
  target,       \* the account it is about
  flow,         \* the state it is about
  saw,          \* set_admin_password: the rows it found
  object,       \* update_user: the loaded user, body: what to make of it
  body,
  everAdmin,    \* history: there has been an enabled administrator
  disturbed,    \* history: what can undo the post-check of an update, of Disturbances
  consumed      \* history: states that have given a session

tables   == <<accounts, admins, disabled, legacy, secret, sessions>>
signOn   == <<states, old, consumed>>
requests == <<pc, actor, target, flow, saw, object, body>>
history  == <<everAdmin, disturbed>>
vars     == <<tables, signOn, requests, history>>

\* sub is the address, capitals whether it was typed with capital letters: the
\* cookie keeps the spelling, lookups do not.
Sessions == [sub : Emails, capitals : BOOLEAN]
NoSession == [sub |-> Nobody, capitals |-> FALSE]
\* An account was deleted or the API restarted; a revert could not be committed.
Disturbances == {"cut off", "failed revert"}
AnyObject == [admin |-> TRUE, off |-> FALSE]
AnyBody == [admin |-> "keep", off |-> "keep", password |-> FALSE]

Init ==
  /\ accounts = {} /\ admins = {} /\ disabled = {}
  /\ legacy = Nobody /\ secret = FALSE /\ sessions = {}
  /\ states = {} /\ old = {} /\ consumed = {}
  /\ pc = [r \in Requests |-> "idle"]
  /\ actor = [r \in Requests |-> NoSession]
  /\ target = [r \in Requests |-> Nobody]
  /\ flow = [r \in Requests |-> NoState]
  /\ saw = [r \in Requests |-> {}]
  /\ object = [r \in Requests |-> AnyObject]
  /\ body = [r \in Requests |-> AnyBody]
  /\ everAdmin = FALSE /\ disturbed = {}

EnabledAdmins == admins \ disabled

Goto(r, where) == pc' = [pc EXCEPT ![r] = where]

\* The request ends and its database session is closed.
Answer(r) ==
  /\ Goto(r, "idle")
  /\ actor' = [actor EXCEPT ![r] = NoSession]
  /\ target' = [target EXCEPT ![r] = Nobody]
  /\ flow' = [flow EXCEPT ![r] = NoState]
  /\ saw' = [saw EXCEPT ![r] = {}]
  /\ object' = [object EXCEPT ![r] = AnyObject]
  /\ body' = [body EXCEPT ![r] = AnyBody]

\* A write transaction: the users it leaves, and what is known of them since.
Users(all, adm, dis) ==
  /\ accounts' = all /\ admins' = adm /\ disabled' = dis
  /\ everAdmin' = (everAdmin \/ adm \ dis # {})

SameUsers == UNCHANGED <<accounts, admins, disabled, everAdmin>>

\* rotate_jwt_secret: no cookie signed before is good any more.
Rotate == secret' = TRUE /\ sessions' = {}

-----------------------------------------------------------------------------
(* First administrator: POST /v1/auth/setup, the wizard and the password in *)
(* the environment all ask admin_is_configured and call set_admin_password. *)

Unconfigured == legacy = Nobody /\ accounts = {}

SetupStart(r, e) ==
  /\ pc[r] = "idle" /\ Unconfigured
  /\ Goto(r, "setup")
  /\ target' = [target EXCEPT ![r] = e]
  /\ UNCHANGED <<tables, signOn, actor, flow, saw, object, body, history>>

Rows(e) == {k \in {"password", "user", "secret"} :
              CASE k = "password" -> legacy # Nobody
                [] k = "user"     -> e \in accounts
                [] k = "secret"   -> secret}

\* Once the password is hashed, the rows to write are looked up.
SetupLookup(r) ==
  /\ pc[r] = "setup"
  /\ Goto(r, "seed")
  /\ saw' = [saw EXCEPT ![r] = Rows(target[r])]
  /\ UNCHANGED <<tables, signOn, actor, target, flow, object, body, history>>

\* Mutant: the roll-back takes the account along, not the settings.
SetupKeepsSettings(r) ==
  /\ pc[r] = "seed"
  /\ LET e == target[r] IN
     CASE saw[r] = Rows(e) ->
            /\ Users(accounts \cup {e}, admins \cup {e}, disabled \ {e})
            /\ legacy' = e
            /\ Rotate
       [] Rows(e) \ saw[r] # {} ->
            SameUsers /\ secret' = TRUE /\ legacy' = e /\ UNCHANGED sessions
       [] OTHER -> SameUsers /\ UNCHANGED <<legacy, secret, sessions>>
  /\ Answer(r)
  /\ UNCHANGED <<signOn, disturbed>>

\* A row that has appeared since makes the insert fail: rotate_jwt_secret rolls
\* back everything and only sees to it that there is a secret.
SetupWrite(r) ==
  /\ pc[r] = "seed"
  /\ LET e == target[r] IN
     CASE saw[r] = Rows(e) ->
            /\ Users(accounts \cup {e}, admins \cup {e}, disabled \ {e})
            /\ legacy' = e
            /\ Rotate
       [] Rows(e) \ saw[r] # {} ->
            SameUsers /\ secret' = TRUE /\ UNCHANGED <<legacy, sessions>>
       [] OTHER -> SameUsers /\ UNCHANGED <<legacy, secret, sessions>>
  /\ Answer(r)
  /\ UNCHANGED <<signOn, disturbed>>

-----------------------------------------------------------------------------
(* Sessions.                                                               *)

\* verify_admin accepts the password: a user row counts more than the settings.
Login(r, e) ==
  /\ pc[r] = "idle"
  /\ IF e \in accounts THEN e \notin disabled ELSE e = legacy
  /\ Goto(r, "login")
  /\ \E c \in BOOLEAN : actor' = [actor EXCEPT ![r] = [sub |-> e, capitals |-> c]]
  /\ UNCHANGED <<tables, signOn, target, flow, saw, object, body, history>>

\* issue_session: signed with the secret there is by now.
IssueSession(r) ==
  /\ pc[r] = "login"
  /\ secret' = TRUE
  /\ sessions' = sessions \cup {actor[r]}
  /\ Answer(r)
  /\ SameUsers
  /\ UNCHANGED <<legacy, signOn, disturbed>>

\* Logout, or four hours have passed.
SessionEnds ==
  /\ \E s \in sessions : sessions' = sessions \ {s}
  /\ UNCHANGED <<accounts, admins, disabled, legacy, secret, signOn, requests, history>>

\* require_admin: without any user, every session is the first administrator's.
Authorised(s) == s \in sessions /\ (s.sub \in EnabledAdmins \/ accounts = {})

RequireAdmin(r) ==
  /\ pc[r] = "idle"
  /\ \E s \in sessions : Authorised(s) /\ actor' = [actor EXCEPT ![r] = s]
  /\ Goto(r, "authorised")
  /\ UNCHANGED <<tables, signOn, target, flow, saw, object, body, history>>

-----------------------------------------------------------------------------
(* Single sign-on.                                                         *)

\* start_flow; its write drops the states that have expired.
StartFlow(s) ==
  /\ s \notin states \cup consumed
  /\ states' = (states \ old) \cup {s}
  /\ old' = {}
  /\ UNCHANGED <<tables, consumed, requests, history>>

StateExpires(s) ==
  /\ s \in states \ old
  /\ old' = old \cup {s}
  /\ UNCHANGED <<tables, states, consumed, requests, history>>

\* The state is read, then the provider is asked.  An expired or unknown state
\* is an error; its deletion is rolled back with the session.
Callback(r, s) ==
  /\ pc[r] = "idle" /\ s \in states \ old
  /\ Goto(r, "exchange")
  /\ flow' = [flow EXCEPT ![r] = s]
  /\ UNCHANGED <<tables, signOn, actor, target, saw, object, body, history>>

\* The exchange fails, or the address is not allowed.  The deletion of the
\* state is flushed and, as the error ends the request, never committed.
ExchangeFails(r) ==
  /\ pc[r] = "exchange"
  /\ Answer(r)
  /\ UNCHANGED <<tables, signOn, history>>

\* Mutant: the deletion stays in a transaction of its own that nobody commits.
ExchangeKeepsState(r) ==
  /\ pc[r] = "exchange"
  /\ \E e \in Known \cap Allowed, c \in BOOLEAN :
       sessions' = sessions \cup {[sub |-> e, capitals |-> c]}
  /\ secret' = TRUE
  /\ consumed' = consumed \cup {flow[r]}
  /\ Answer(r)
  /\ SameUsers
  /\ UNCHANGED <<legacy, states, old, disturbed>>

\* The state goes and the session is issued in one transaction.
Exchange(r) ==
  /\ pc[r] = "exchange"
  /\ \E e \in Known \cap Allowed, c \in BOOLEAN :
       sessions' = sessions \cup {[sub |-> e, capitals |-> c]}
  /\ secret' = TRUE
  /\ states' = states \ {flow[r]}
  /\ old' = old \ {flow[r]}
  /\ consumed' = consumed \cup {flow[r]}
  /\ Answer(r)
  /\ SameUsers
  /\ UNCHANGED <<legacy, disturbed>>

-----------------------------------------------------------------------------
(* Administration of the users, behind require_admin.                      *)

\* The session has served its purpose.
Forget(r) == actor' = [actor EXCEPT ![r] = NoSession]

CreateCheck(r, e) ==
  /\ pc[r] = "authorised" /\ e \notin accounts
  /\ Goto(r, "create")
  /\ target' = [target EXCEPT ![r] = e]
  /\ Forget(r)
  /\ UNCHANGED <<tables, signOn, flow, saw, object, body, history>>

\* Somebody may have taken the address while the password was hashed.
CreateWrite(r) ==
  /\ pc[r] = "create"
  /\ IF target[r] \in accounts THEN SameUsers
     ELSE \E role \in SUBSET {target[r]} :
            Users(accounts \cup {target[r]}, admins \cup role, disabled)
  /\ Answer(r)
  /\ UNCHANGED <<legacy, secret, sessions, signOn, disturbed>>

\* The pre-check of update_user: enough administrators for this one to go.
MayGo(e, b) ==
  \/ e \notin EnabledAdmins
  \/ b.off # "yes" /\ b.admin # "no"
  \/ Cardinality(EnabledAdmins) > 1

PatchCheck(r, e, b) ==
  /\ pc[r] = "authorised" /\ e \in accounts /\ MayGo(e, b)
  /\ Goto(r, "patch")
  /\ target' = [target EXCEPT ![r] = e]
  /\ object' = [object EXCEPT ![r] = [admin |-> e \in admins, off |-> e \in disabled]]
  /\ body' = [body EXCEPT ![r] = b]
  /\ Forget(r)
  /\ UNCHANGED <<tables, signOn, flow, saw, history>>

Wanted(ask, is) == IF ask = "keep" THEN is ELSE ask = "yes"

Patched(r) == [admin |-> Wanted(body[r].admin, object[r].admin),
               off   |-> Wanted(body[r].off, object[r].off)]

Put(S, e, in) == IF in THEN S \cup {e} ELSE S \ {e}

\* Only the columns that differ from what was loaded are written.
Save(e, was, is) ==
  Users(accounts,
        IF was.admin = is.admin THEN admins ELSE Put(admins, e, is.admin),
        IF was.off = is.off THEN disabled ELSE Put(disabled, e, is.off))

\* The update of a row that is gone is an error.
PatchWrite(r) ==
  LET e == target[r]
      writes == body[r].password \/ Patched(r) # object[r]
  IN
  /\ pc[r] = "patch"
  /\ IF e \notin accounts /\ writes
     THEN SameUsers /\ Answer(r) /\ UNCHANGED <<secret, sessions>>
     ELSE /\ IF writes THEN Save(e, object[r], Patched(r)) ELSE SameUsers
          /\ IF body[r].password THEN Rotate ELSE UNCHANGED <<secret, sessions>>
          /\ object' = [object EXCEPT ![r] = Patched(r)]
          /\ body' = [body EXCEPT ![r] = AnyBody]
          /\ Goto(r, "post")
          /\ UNCHANGED <<actor, target, flow, saw>>
  /\ UNCHANGED <<legacy, signOn, disturbed>>

\* The post-check counts again, after the commit.
PostCheck(r) ==
  /\ pc[r] = "post"
  /\ IF EnabledAdmins = {}
     THEN Goto(r, "revert") /\ UNCHANGED <<actor, target, flow, saw, object, body>>
     ELSE Answer(r)
  /\ UNCHANGED <<tables, signOn, history>>

\* Mutant: the revert only enables the account again.
RevertKeepsRole(r) ==
  /\ pc[r] = "revert"
  /\ IF target[r] \in accounts
     THEN Save(target[r], object[r], [admin |-> object[r].admin, off |-> FALSE])
     ELSE SameUsers
  /\ Answer(r)
  /\ UNCHANGED <<legacy, secret, sessions, signOn, disturbed>>

\* The account of this request is made an enabled administrator again, again by
\* writing what differs from the object in memory.
Revert(r) ==
  /\ pc[r] = "revert"
  /\ IF target[r] \in accounts
     THEN Save(target[r], object[r], [admin |-> TRUE, off |-> FALSE])
     ELSE SameUsers
  /\ Answer(r)
  /\ UNCHANGED <<legacy, secret, sessions, signOn, disturbed>>

\* The revert does not get the write lock in time: the error is swallowed, and
\* the update it was to undo stays.
RevertFails(r) ==
  /\ pc[r] = "revert" /\ target[r] \in accounts
  /\ disturbed' = disturbed \cup {"failed revert"}
  /\ Answer(r)
  /\ UNCHANGED <<tables, signOn, everAdmin>>

\* Not the last user, and not the address in the cookie.
DeleteCheck(r, e) ==
  /\ pc[r] = "authorised"
  /\ e \in accounts /\ Cardinality(accounts) > 1
  /\ e = actor[r].sub => actor[r].capitals
  /\ Goto(r, "delete")
  /\ target' = [target EXCEPT ![r] = e]
  /\ Forget(r)
  /\ UNCHANGED <<tables, signOn, flow, saw, object, body, history>>

\* The row goes, and with it the role.
DeleteWrite(r) ==
  /\ pc[r] = "delete"
  /\ LET gone == {target[r]}
     IN Users(accounts \ gone, admins \ gone, disabled \ gone)
  /\ Rotate
  /\ disturbed' = disturbed \cup {"cut off"}
  /\ Answer(r)
  /\ UNCHANGED <<legacy, signOn>>

\* Any other write that does not get the lock ends its request with an error.
Busy(r) ==
  /\ pc[r] \in {"seed", "login", "create", "patch", "delete"}
  /\ Answer(r)
  /\ UNCHANGED <<tables, signOn, history>>

-----------------------------------------------------------------------------
\* A refusal (403, 404, 409, 422), after authentication.
Refuse(r) ==
  /\ pc[r] = "authorised"
  /\ Answer(r)
  /\ UNCHANGED <<tables, signOn, history>>

\* The API goes down: requests are lost, what they committed is not.
Restart ==
  /\ pc # [r \in Requests |-> "idle"]
  /\ pc' = [r \in Requests |-> "idle"]
  /\ actor' = [r \in Requests |-> NoSession]
  /\ target' = [r \in Requests |-> Nobody]
  /\ flow' = [r \in Requests |-> NoState]
  /\ saw' = [r \in Requests |-> {}]
  /\ object' = [r \in Requests |-> AnyObject]
  /\ body' = [r \in Requests |-> AnyBody]
  /\ disturbed' = disturbed \cup {"cut off"}
  /\ UNCHANGED <<tables, signOn, everAdmin>>

Configure(r) == (\E e \in Emails : SetupStart(r, e)) \/ SetupLookup(r) \/ SetupWrite(r)

SignIn(r) == \/ \E e \in Emails : Login(r, e)
             \/ \E s \in States : Callback(r, s)
             \/ IssueSession(r) \/ ExchangeFails(r) \/ Exchange(r) \/ RequireAdmin(r)

Administer(r) ==
  \/ \E e \in Emails : CreateCheck(r, e) \/ DeleteCheck(r, e)
  \/ \E e \in Emails, b \in Patches : PatchCheck(r, e, b)
  \/ CreateWrite(r) \/ PatchWrite(r) \/ PostCheck(r) \/ Revert(r) \/ RevertFails(r)
  \/ DeleteWrite(r) \/ Refuse(r)

Next ==
  \/ \E r \in Requests : Configure(r) \/ SignIn(r) \/ Administer(r) \/ Busy(r)
  \/ \E s \in States : StartFlow(s) \/ StateExpires(s)
  \/ SessionEnds \/ Restart

Spec == Init /\ [][Next]_vars

-----------------------------------------------------------------------------
TypeOK ==
  /\ accounts \in SUBSET Emails
  /\ admins \in SUBSET accounts /\ disabled \in SUBSET accounts
  /\ legacy \in Emails \cup {Nobody} /\ secret \in BOOLEAN
  /\ sessions \in SUBSET Sessions
  /\ states \in SUBSET States /\ old \in SUBSET states /\ consumed \in SUBSET States
  /\ pc \in [Requests -> {"idle", "setup", "seed", "login", "exchange", "authorised",
                          "create", "patch", "post", "revert", "delete"}]
  /\ actor \in [Requests -> Sessions \cup {NoSession}]
  /\ target \in [Requests -> Emails \cup {Nobody}]
  /\ flow \in [Requests -> States \cup {NoState}]
  /\ saw \in [Requests -> SUBSET {"password", "user", "secret"}]
  /\ object \in [Requests -> [admin : BOOLEAN, off : BOOLEAN]]
  /\ body \in [Requests -> Bodies]
  /\ everAdmin \in BOOLEAN /\ disturbed \in SUBSET Disturbances

\* Between its write and the end of its post-check.
Pending(r) == pc[r] \in {"post", "revert"}

\* "Post-check: ensure at least one enabled admin remains": however many
\* updates demote and disable administrators at once, there is one again when
\* they have ended, provided that no account was deleted, no crash cut a
\* post-check off and every revert could be committed.
UpdatesKeepAnAdmin ==
  everAdmin /\ disturbed = {} /\ (\A r \in Requests : ~Pending(r)) => EnabledAdmins # {}

\* set_admin_password is all or nothing, with another setup beside it: the
\* settings name a first administrator only together with a signing secret and,
\* until an account is deleted (or the API restarted), the account of that address.
SetupIsWhole ==
  legacy # Nobody => secret /\ ("cut off" \in disturbed \/ legacy \in accounts)

\* A state that has given a session is never loaded by a later callback.
ConsumedStateStaysDead ==
  [][\A r \in Requests : pc[r] = "idle" /\ pc'[r] = "exchange"
                           => flow'[r] \notin consumed]_vars

\* Why it is so: if there is no enabled administrator, some account would be one
\* if the pending requests reverted, each what it has in memory.
Recoverable(e) ==
  /\ e \in accounts
  /\ e \in admins \/ \E r \in Requests : Pending(r) /\ target[r] = e /\ ~object[r].admin
  /\ e \in disabled => \E r \in Requests : Pending(r) /\ target[r] = e /\ object[r].off

\* What a request carries from one step to the next.
Carries(r) ==
  /\ pc[r] \in {"setup", "seed", "create", "patch", "post", "revert", "delete"}
       => target[r] \in Emails
  /\ pc[r] = "login" => actor[r] \in Sessions
  /\ pc[r] = "exchange" => flow[r] \in States

\* The inductive invariant.
AccountsInv ==
  /\ TypeOK
  /\ \A r \in Requests : Carries(r)
  /\ states \cap consumed = {}
  /\ SetupIsWhole
  /\ everAdmin /\ disturbed = {} => \E e \in Emails : Recoverable(e)
=============================================================================
