--------------------------- MODULE Accounts_proofs ---------------------------
(***************************************************************************)
(* Proofs about Accounts, for any number of requests and addresses.        *)
(***************************************************************************)
EXTENDS Accounts, TLAPS

\* An enabled administrator, if there is one, is Recoverable as it is.
LEMMA AdminRecoverable ==
  ASSUME TypeOK, NEW e \in EnabledAdmins
  PROVE  e \in Emails /\ Recoverable(e)
BY DEF TypeOK, EnabledAdmins, Recoverable

\* Nothing that Recoverable speaks of is lost by a step of r that leaves the
\* users alone and is neither the end nor the change of a pending update.
LEMMA RecoverableKept ==
  ASSUME NEW r \in Requests, NEW e, Recoverable(e), ~Pending(r),
         UNCHANGED <<accounts, admins, disabled>>,
         \A q \in Requests \ {r} : /\ pc'[q] = pc[q] /\ target'[q] = target[q]
                                   /\ object'[q] = object[q]
  PROVE  Recoverable(e)'
BY DEF Recoverable, Pending

\* A fresh installation: no accounts, no sessions, no requests.
LEMMA InitInv == AccountsAssumption /\ Init => AccountsInv
<1> SUFFICES ASSUME AccountsAssumption, Init PROVE AccountsInv
  OBVIOUS
<1>1. TypeOK
  BY DEF AccountsAssumption, Init, TypeOK, Sessions, NoSession, AnyObject, AnyBody, Bodies
<1>2. \A r \in Requests : Carries(r)
  BY DEF Init, Carries
<1> QED BY <1>1, <1>2 DEF AccountsAssumption, Init, AccountsInv, SetupIsWhole

-----------------------------------------------------------------------------
\* The types, and what a request carries, are preserved.
Typed == TypeOK /\ (\A r \in Requests : Carries(r))

\* Every handler ends with an answer, which leaves its request idle.
LEMMA AnswerTyped ==
  ASSUME TypeOK, NEW r \in Requests, Answer(r)
  PROVE  /\ pc' \in [Requests -> {"idle", "setup", "seed", "login", "exchange", "authorised",
                                  "create", "patch", "post", "revert", "delete"}]
         /\ actor' \in [Requests -> Sessions \cup {NoSession}]
         /\ target' \in [Requests -> Emails \cup {Nobody}]
         /\ flow' \in [Requests -> States \cup {NoState}]
         /\ saw' \in [Requests -> SUBSET {"password", "user", "secret"}]
         /\ object' \in [Requests -> [admin : BOOLEAN, off : BOOLEAN]]
         /\ body' \in [Requests -> Bodies]
         /\ pc'[r] = "idle"
         /\ \A q \in Requests \ {r} :
              /\ pc'[q] = pc[q] /\ target'[q] = target[q] /\ object'[q] = object[q]
              /\ actor'[q] = actor[q] /\ flow'[q] = flow[q]
BY DEF TypeOK, Answer, Goto, AnyObject, AnyBody, Bodies

\* A request that has answered carries nothing any more.
LEMMA AnswerCarries ==
  ASSUME Typed, NEW r \in Requests, Answer(r)
  PROVE  \A q \in Requests : Carries(q)'
BY AnswerTyped DEF Typed, Carries

\* The first-run setup and the secrets.
LEMMA ConfigureTyped ==
  ASSUME Typed, NEW r \in Requests, Configure(r)
  PROVE  Typed'
<1>1. ASSUME NEW e \in Emails, SetupStart(r, e) PROVE Typed'
  BY <1>1 DEF Typed, TypeOK, Carries, SetupStart, Goto, tables, signOn, history
<1>2. CASE SetupLookup(r)
  <2>1. Rows(target[r]) \in SUBSET {"password", "user", "secret"}
    BY DEF Rows
  <2> QED BY <1>2, <2>1 DEF Typed, TypeOK, Carries, SetupLookup, Goto, tables, signOn, history
<1>3. CASE SetupWrite(r)
  <2>1. target[r] \in Emails
    BY <1>3 DEF Typed, Carries, SetupWrite
  <2>2. Answer(r) /\ UNCHANGED <<signOn, disturbed>>
    BY <1>3 DEF SetupWrite
  <2>3. /\ accounts' \in SUBSET Emails /\ admins' \in SUBSET accounts'
        /\ disabled' \in SUBSET accounts' /\ legacy' \in Emails \cup {Nobody}
        /\ secret' \in BOOLEAN /\ sessions' \in SUBSET Sessions /\ everAdmin' \in BOOLEAN
    <3>1. CASE saw[r] = Rows(target[r])
      BY <1>3, <2>1, <3>1 DEF SetupWrite, Users, Rotate, Typed, TypeOK
    <3>2. CASE saw[r] # Rows(target[r]) /\ Rows(target[r]) \ saw[r] # {}
      BY <1>3, <2>1, <3>2 DEF SetupWrite, SameUsers, Typed, TypeOK
    <3>3. CASE saw[r] # Rows(target[r]) /\ Rows(target[r]) \ saw[r] = {}
      BY <1>3, <2>1, <3>3 DEF SetupWrite, SameUsers, Typed, TypeOK
    <3> QED BY <3>1, <3>2, <3>3
  <2>4. TypeOK'
    BY <2>2, <2>3, AnswerTyped DEF Typed, TypeOK, signOn
  <2> QED BY <2>2, <2>4, AnswerCarries DEF Typed
<1> QED BY <1>1, <1>2, <1>3 DEF Configure

\* Logins, by password or by the identity provider.
LEMMA SignInTyped ==
  ASSUME AccountsAssumption, Typed, NEW r \in Requests, SignIn(r)
  PROVE  Typed'
<1>1. ASSUME NEW e \in Emails, Login(r, e) PROVE Typed'
  BY <1>1 DEF Typed, TypeOK, Carries, Login, Goto, tables, signOn, history, Sessions
<1>2. ASSUME NEW s \in States, Callback(r, s) PROVE Typed'
  BY <1>2 DEF Typed, TypeOK, Carries, Callback, Goto, tables, signOn, history
<1>3. CASE IssueSession(r)
  <2>1. actor[r] \in Sessions /\ Answer(r)
    BY <1>3 DEF IssueSession, Typed, Carries
  <2>2. TypeOK'
    BY <1>3, <2>1, AnswerTyped DEF IssueSession, SameUsers, Typed, TypeOK, signOn
  <2> QED BY <2>1, <2>2, AnswerCarries DEF Typed
<1>4. CASE ExchangeFails(r)
  <2>1. TypeOK'
    BY <1>4, AnswerTyped DEF ExchangeFails, Typed, TypeOK, signOn, tables, history
  <2> QED BY <1>4, <2>1, AnswerCarries DEF Typed, ExchangeFails
<1>5. CASE Exchange(r)
  <2>1. flow[r] \in States /\ Answer(r)
    BY <1>5 DEF Exchange, Typed, Carries
  <2>2. sessions' \in SUBSET Sessions
    BY <1>5 DEF Exchange, Typed, TypeOK, Sessions, AccountsAssumption
  <2>3. TypeOK'
    BY <1>5, <2>1, <2>2, AnswerTyped DEF Exchange, SameUsers, Typed, TypeOK
  <2> QED BY <2>1, <2>3, AnswerCarries DEF Typed
<1>6. CASE RequireAdmin(r)
  BY <1>6 DEF Typed, TypeOK, Carries, RequireAdmin, Goto, tables, signOn, history
<1> QED BY <1>1, <1>2, <1>3, <1>4, <1>5, <1>6 DEF SignIn

\* Writing the row of a user back.
LEMMA SaveTyped ==
  ASSUME TypeOK, NEW e \in accounts, NEW was, NEW is, Save(e, was, is)
  PROVE  /\ accounts' \in SUBSET Emails /\ admins' \in SUBSET accounts'
         /\ disabled' \in SUBSET accounts' /\ everAdmin' \in BOOLEAN
<1>1. accounts' = accounts /\ e \in accounts
  BY DEF Save, Users
<1>2. Put(admins, e, is.admin) \in SUBSET accounts /\ Put(disabled, e, is.off) \in SUBSET accounts
  BY DEF Put, TypeOK
<1>3. /\ admins' = admins \/ admins' = Put(admins, e, is.admin)
      /\ disabled' = disabled \/ disabled' = Put(disabled, e, is.off)
  BY DEF Save, Users
<1>4. everAdmin' \in BOOLEAN
  BY DEF Save, Users, TypeOK
<1> QED BY <1>1, <1>2, <1>3, <1>4 DEF TypeOK

\* The users router: creation, update with its post-check, deletion.
LEMMA AdministerTyped ==
  ASSUME AccountsAssumption, Typed, NEW r \in Requests, Administer(r)
  PROVE  Typed'
<1>1. ASSUME NEW e \in Emails, CreateCheck(r, e) \/ DeleteCheck(r, e) PROVE Typed'
  BY <1>1 DEF Typed, TypeOK, Carries, CreateCheck, DeleteCheck, Forget, Goto, tables, signOn,
              history
<1>2. ASSUME NEW e \in Emails, NEW b \in Patches, PatchCheck(r, e, b) PROVE Typed'
  BY <1>2 DEF Typed, TypeOK, Carries, PatchCheck, Forget, Goto, tables, signOn, history,
              AccountsAssumption
<1>3. CASE CreateWrite(r)
  <2>1. target[r] \in Emails /\ Answer(r)
    BY <1>3 DEF CreateWrite, Typed, Carries
  <2>2. /\ accounts' \in SUBSET Emails /\ admins' \in SUBSET accounts'
        /\ disabled' \in SUBSET accounts' /\ everAdmin' \in BOOLEAN
    BY <1>3, <2>1 DEF CreateWrite, SameUsers, Users, Typed, TypeOK
  <2>3. TypeOK'
    BY <1>3, <2>1, <2>2, AnswerTyped DEF CreateWrite, Typed, TypeOK, signOn
  <2> QED BY <2>1, <2>3, AnswerCarries DEF Typed
<1>4. CASE PatchWrite(r)
  <2>1. target[r] \in Emails /\ object[r] \in [admin : BOOLEAN, off : BOOLEAN]
    BY <1>4 DEF PatchWrite, Typed, Carries, TypeOK
  <2>2. Patched(r) \in [admin : BOOLEAN, off : BOOLEAN]
    BY <2>1 DEF Patched, Wanted
  <2> DEFINE writes == body[r].password \/ Patched(r) # object[r]
  <2>3. CASE target[r] \notin accounts /\ writes
    <3>1. Answer(r)
      BY <1>4, <2>3 DEF PatchWrite
    <3>2. TypeOK'
      BY <1>4, <2>3, <3>1, AnswerTyped DEF PatchWrite, SameUsers, Typed, TypeOK, signOn
    <3> QED BY <3>1, <3>2, AnswerCarries DEF Typed
  <2>4. CASE ~(target[r] \notin accounts /\ writes)
    <3>1. /\ accounts' \in SUBSET Emails /\ admins' \in SUBSET accounts'
          /\ disabled' \in SUBSET accounts' /\ everAdmin' \in BOOLEAN
      <4>1. CASE writes
        BY <1>4, <2>4, <4>1, SaveTyped DEF PatchWrite, Typed
      <4>2. CASE ~writes
        BY <1>4, <2>4, <4>2 DEF PatchWrite, SameUsers, Typed, TypeOK
      <4> QED BY <4>1, <4>2
    <3>2. secret' \in BOOLEAN /\ sessions' \in SUBSET Sessions
      BY <1>4, <2>4 DEF PatchWrite, Rotate, Typed, TypeOK
    <3>3. /\ object' = [object EXCEPT ![r] = Patched(r)]
          /\ body' = [body EXCEPT ![r] = AnyBody]
          /\ pc' = [pc EXCEPT ![r] = "post"]
          /\ UNCHANGED <<actor, target, flow, saw, legacy, signOn, disturbed>>
      BY <1>4, <2>4 DEF PatchWrite, Goto
    <3>4. AnyBody \in Bodies
      BY DEF AnyBody, Bodies
    <3>5. TypeOK'
      BY <2>2, <3>1, <3>2, <3>3, <3>4 DEF Typed, TypeOK, signOn
    <3>6. \A q \in Requests : Carries(q)'
      BY <2>1, <3>3 DEF Typed, TypeOK, Carries
    <3> QED BY <3>5, <3>6 DEF Typed
  <2> QED BY <2>3, <2>4
<1>5. CASE PostCheck(r)
  <2>1. CASE EnabledAdmins = {}
    BY <1>5, <2>1 DEF Typed, TypeOK, Carries, PostCheck, Goto, tables, signOn, history
  <2>2. CASE EnabledAdmins # {}
    <3>1. Answer(r)
      BY <1>5, <2>2 DEF PostCheck
    <3>2. TypeOK'
      BY <1>5, <3>1, AnswerTyped DEF PostCheck, Typed, TypeOK, signOn, tables, history
    <3> QED BY <3>1, <3>2, AnswerCarries DEF Typed
  <2> QED BY <2>1, <2>2
<1>6. CASE Revert(r)
  <2>1. target[r] \in Emails /\ Answer(r)
    BY <1>6 DEF Revert, Typed, Carries
  <2>2. /\ accounts' \in SUBSET Emails /\ admins' \in SUBSET accounts'
        /\ disabled' \in SUBSET accounts' /\ everAdmin' \in BOOLEAN
    <3>1. CASE target[r] \in accounts
      BY <1>6, <3>1, SaveTyped DEF Revert, Typed
    <3>2. CASE target[r] \notin accounts
      BY <1>6, <3>2 DEF Revert, SameUsers, Typed, TypeOK
    <3> QED BY <3>1, <3>2
  <2>3. TypeOK'
    BY <1>6, <2>1, <2>2, AnswerTyped DEF Revert, Typed, TypeOK, signOn
  <2> QED BY <2>1, <2>3, AnswerCarries DEF Typed
<1>7. CASE DeleteWrite(r)
  <2>1. target[r] \in Emails /\ Answer(r)
    BY <1>7 DEF DeleteWrite, Typed, Carries
  <2>2. TypeOK'
    BY <1>7, <2>1, AnswerTyped DEF DeleteWrite, Disturbances, Users, Rotate, Typed, TypeOK, signOn
  <2> QED BY <2>1, <2>2, AnswerCarries DEF Typed
<1>8. CASE Refuse(r)
  <2>1. TypeOK'
    BY <1>8, AnswerTyped DEF Refuse, Typed, TypeOK, signOn, tables, history
  <2> QED BY <1>8, <2>1, AnswerCarries DEF Typed, Refuse
<1>9. CASE RevertFails(r)
  <2>1. Answer(r)
    BY <1>9 DEF RevertFails
  <2>2. TypeOK'
    BY <1>9, <2>1, AnswerTyped DEF RevertFails, Disturbances, Typed, TypeOK, signOn, tables
  <2> QED BY <2>1, <2>2, AnswerCarries DEF Typed
<1> QED BY <1>1, <1>2, <1>3, <1>4, <1>5, <1>6, <1>7, <1>8, <1>9 DEF Administer

\* Every step keeps the types and what requests carry.
LEMMA NextTyped ==
  ASSUME AccountsAssumption, Typed, [Next]_vars
  PROVE  Typed'
<1>1. ASSUME NEW r \in Requests, Configure(r) \/ SignIn(r) \/ Administer(r) \/ Busy(r)
      PROVE  Typed'
  <2>1. CASE Busy(r)
    <3>1. TypeOK'
      BY <2>1, AnswerTyped DEF Busy, Typed, TypeOK, signOn, tables, history
    <3> QED BY <2>1, <3>1, AnswerCarries DEF Typed, Busy
  <2> QED BY <1>1, <2>1, ConfigureTyped, SignInTyped, AdministerTyped
<1>2. ASSUME NEW s \in States, StartFlow(s) \/ StateExpires(s) PROVE Typed'
  BY <1>2 DEF Typed, TypeOK, Carries, StartFlow, StateExpires, tables, requests, history
<1>3. CASE SessionEnds
  BY <1>3 DEF Typed, TypeOK, Carries, SessionEnds, signOn, requests, history
<1>4. CASE Restart
  BY <1>4 DEF Typed, TypeOK, Carries, Restart, Disturbances, tables, signOn, AnyObject, AnyBody, Bodies
<1>5. CASE UNCHANGED vars
  BY <1>5 DEF Typed, TypeOK, Carries, vars, tables, signOn, requests, history
<1> QED BY <1>1, <1>2, <1>3, <1>4, <1>5 DEF Next

-----------------------------------------------------------------------------
\* States that have given a session are gone from the table.
LEMMA NextConsumed ==
  ASSUME Typed, states \cap consumed = {}, [Next]_vars
  PROVE  (states \cap consumed = {})'
<1>1. ASSUME NEW r \in Requests, Exchange(r) PROVE (states \cap consumed = {})'
  BY <1>1 DEF Exchange
<1>2. ASSUME NEW s \in States, StartFlow(s) PROVE (states \cap consumed = {})'
  BY <1>2 DEF StartFlow
<1>3. ASSUME ~(\E r \in Requests : Exchange(r)), ~(\E s \in States : StartFlow(s))
      PROVE  UNCHANGED <<states, consumed>>
  <2>1. ASSUME NEW r \in Requests, Configure(r) PROVE UNCHANGED <<states, consumed>>
    BY <2>1 DEF Configure, SetupStart, SetupLookup, SetupWrite, signOn
  <2>2. ASSUME NEW r \in Requests, SignIn(r) PROVE UNCHANGED <<states, consumed>>
    BY <1>3, <2>2 DEF SignIn, Login, Callback, IssueSession, ExchangeFails, RequireAdmin, signOn
  <2>3. ASSUME NEW r \in Requests, Administer(r) PROVE UNCHANGED <<states, consumed>>
    BY <2>3 DEF Administer, CreateCheck, DeleteCheck, PatchCheck, CreateWrite, PatchWrite,
                PostCheck, Revert, RevertFails, DeleteWrite, Refuse, signOn
  <2> QED BY <1>3, <2>1, <2>2, <2>3 DEF Next, Busy, StateExpires, SessionEnds, Restart, vars, signOn
<1> QED BY <1>1, <1>2, <1>3

-----------------------------------------------------------------------------
\* While nothing disturbs them, some account can be recovered.
Recovers == everAdmin /\ disturbed = {} => \E e \in Emails : Recoverable(e)

\* A write of the users that keeps an account recoverable keeps Recovers.
LEMMA WriteRecovers ==
  ASSUME Typed', Recovers, UNCHANGED disturbed,
         \/ everAdmin' = everAdmin
         \/ everAdmin' = (everAdmin \/ EnabledAdmins' # {}),
         \A e \in Emails : Recoverable(e) => Recoverable(e)'
  PROVE  Recovers'
<1>1. ASSUME EnabledAdmins' # {} PROVE \E e \in Emails : Recoverable(e)'
  BY <1>1 DEF Typed, TypeOK, EnabledAdmins, Recoverable
<1> QED BY <1>1 DEF Recovers

\* The write of an update may demote the last administrator: its request remembers.
LEMMA PatchRecovers ==
  ASSUME Typed, Typed', Recovers, NEW r \in Requests, PatchWrite(r)
  PROVE  Recovers'
<1> DEFINE t == target[r]
           writes == body[r].password \/ Patched(r) # object[r]
<1>1. ~Pending(r) /\ UNCHANGED disturbed
  BY DEF PatchWrite, Pending
<1>2. CASE t \notin accounts /\ writes
  <2>1. Answer(r) /\ SameUsers
    BY <1>2 DEF PatchWrite
  <2>2. \A e \in Emails : Recoverable(e) => Recoverable(e)'
    BY <1>1, <2>1, AnswerTyped, RecoverableKept DEF SameUsers, Typed
  <2> QED BY <1>1, <2>1, <2>2, WriteRecovers DEF SameUsers
<1>3. CASE ~(t \notin accounts /\ writes)
  <2>1. /\ object' = [object EXCEPT ![r] = Patched(r)]
        /\ pc' = [pc EXCEPT ![r] = "post"]
        /\ UNCHANGED target
    BY <1>3 DEF PatchWrite, Goto
  <2>2. /\ r \in Requests /\ pc'[r] = "post" /\ target'[r] = t /\ object'[r] = Patched(r)
        /\ \A q \in Requests \ {r} : pc'[q] = pc[q] /\ target'[q] = target[q]
                                     /\ object'[q] = object[q]
    BY <2>1 DEF Typed, TypeOK
  <2>3. IF writes THEN Save(t, object[r], Patched(r)) ELSE SameUsers
    BY <1>3 DEF PatchWrite
  <2>4. \/ everAdmin' = everAdmin
        \/ everAdmin' = (everAdmin \/ EnabledAdmins' # {})
    BY <2>3 DEF SameUsers, Save, Users, EnabledAdmins
  <2>5. /\ accounts' = accounts
        /\ admins' = admins \/ (admins' = Put(admins, t, Patched(r).admin))
        /\ disabled' = disabled \/ (disabled' = Put(disabled, t, Patched(r).off))
    BY <2>3 DEF SameUsers, Save, Users
  <2>6. ASSUME NEW e \in Emails, Recoverable(e) PROVE Recoverable(e)'
    <3>1. e \in accounts'
      BY <2>5, <2>6 DEF Recoverable
    <3>2. e \in admins' \/ \E q \in Requests : Pending(q)' /\ target'[q] = e /\ ~object'[q].admin
      <4>1. CASE e \in admins /\ e \notin admins'
        <5>1. e = t /\ ~Patched(r).admin
          BY <2>5, <4>1 DEF Put
        <5> QED BY <2>2, <5>1 DEF Pending
      <4>2. CASE e \notin admins
        BY <1>1, <2>2, <2>6, <4>2 DEF Recoverable, Pending
      <4> QED BY <4>1, <4>2
    <3>3. e \in disabled' => \E q \in Requests : Pending(q)' /\ target'[q] = e /\ object'[q].off
      <4>1. CASE e \notin disabled /\ e \in disabled'
        <5>1. e = t /\ Patched(r).off
          BY <2>5, <4>1 DEF Put
        <5> QED BY <2>2, <5>1 DEF Pending
      <4>2. CASE e \in disabled
        BY <1>1, <2>2, <2>6, <4>2 DEF Recoverable, Pending
      <4> QED BY <4>1, <4>2
    <3> QED BY <3>1, <3>2, <3>3 DEF Recoverable
  <2> QED BY <1>1, <2>4, <2>6, WriteRecovers
<1> QED BY <1>2, <1>3

\* A post-check that finds no administrator sends its request to the revert.
LEMMA PostCheckRecovers ==
  ASSUME Typed, Typed', Recovers, NEW r \in Requests, PostCheck(r)
  PROVE  Recovers'
<1>1. UNCHANGED <<accounts, admins, disabled, everAdmin, disturbed>>
  BY DEF PostCheck, tables, history
<1>2. CASE EnabledAdmins = {}
  <2>1. pc' = [pc EXCEPT ![r] = "revert"] /\ pc[r] = "post" /\ UNCHANGED <<target, object>>
    BY <1>2 DEF PostCheck, Goto
  <2>2. \A q \in Requests : Pending(q) => Pending(q)'
    BY <2>1 DEF Pending, Typed, TypeOK
  <2>3. \A e \in Emails : Recoverable(e) => Recoverable(e)'
    BY <1>1, <2>1, <2>2 DEF Recoverable
  <2> QED BY <1>1, <2>3, WriteRecovers
<1>3. CASE EnabledAdmins # {}
  <2>1. PICK e \in EnabledAdmins : TRUE
    BY <1>3
  <2>2. e \in Emails /\ e \in accounts' /\ e \in admins' /\ e \notin disabled'
    BY <1>1, <2>1 DEF EnabledAdmins, Typed, TypeOK
  <2> QED BY <2>2 DEF Recovers, Recoverable
<1> QED BY <1>2, <1>3

\* A revert writes back what its request loaded.
LEMMA RevertRecovers ==
  ASSUME Typed, Typed', Recovers, NEW r \in Requests, Revert(r)
  PROVE  Recovers'
<1> DEFINE t == target[r]
           good == [admin |-> TRUE, off |-> FALSE]
<1>1. /\ \A q \in Requests \ {r} : pc'[q] = pc[q] /\ target'[q] = target[q]
                                   /\ object'[q] = object[q]
      /\ UNCHANGED disturbed
  BY AnswerTyped DEF Revert, Typed
<1>2. IF t \in accounts THEN Save(t, object[r], good) ELSE SameUsers
  BY DEF Revert
<1>3. \/ everAdmin' = everAdmin
      \/ everAdmin' = (everAdmin \/ EnabledAdmins' # {})
  BY <1>2 DEF SameUsers, Save, Users, EnabledAdmins
<1>4. /\ accounts' = accounts /\ admins \subseteq admins' /\ disabled' \subseteq disabled
      /\ t \in accounts /\ ~object[r].admin => t \in admins'
      /\ t \in accounts /\ object[r].off => t \notin disabled'
  BY <1>2 DEF SameUsers, Save, Users, Put, Typed, TypeOK
<1>5. ASSUME NEW e \in Emails, Recoverable(e) PROVE Recoverable(e)'
  <2>1. e \in accounts'
    BY <1>4, <1>5 DEF Recoverable
  <2>2. e \in admins' \/ \E q \in Requests : Pending(q)' /\ target'[q] = e /\ ~object'[q].admin
    BY <1>1, <1>4, <1>5 DEF Recoverable, Pending
  <2>3. e \in disabled' => \E q \in Requests : Pending(q)' /\ target'[q] = e /\ object'[q].off
    BY <1>1, <1>4, <1>5 DEF Recoverable, Pending
  <2> QED BY <2>1, <2>2, <2>3 DEF Recoverable
<1> QED BY <1>1, <1>3, <1>5, WriteRecovers

\* A step of a request that is not between its write and its post-check, and
\* only adds administrators or leaves the users alone.
LEMMA GrowRecovers ==
  ASSUME Typed, Typed', Recovers, NEW r \in Requests, ~Pending(r), UNCHANGED disturbed,
         \/ everAdmin' = everAdmin
         \/ everAdmin' = (everAdmin \/ EnabledAdmins' # {}),
         accounts \subseteq accounts', admins \subseteq admins', disabled' \subseteq disabled,
         \A q \in Requests \ {r} : pc'[q] = pc[q] /\ target'[q] = target[q]
                                   /\ object'[q] = object[q]
  PROVE  Recovers'
<1>1. \A e \in Emails : Recoverable(e) => Recoverable(e)'
  BY DEF Recoverable, Pending
<1> QED BY <1>1, WriteRecovers

\* No step of a request leaves the household without a way back.
LEMMA RequestRecovers ==
  ASSUME Typed, Typed', Recovers, NEW r \in Requests,
         Configure(r) \/ SignIn(r) \/ Administer(r) \/ Busy(r)
  PROVE  Recovers'
<1> DEFINE Others == \A q \in Requests \ {r} : /\ pc'[q] = pc[q] /\ target'[q] = target[q]
                                               /\ object'[q] = object[q]
           Grown == /\ \/ everAdmin' = everAdmin
                       \/ everAdmin' = (everAdmin \/ EnabledAdmins' # {})
                    /\ accounts \subseteq accounts' /\ admins \subseteq admins'
                    /\ disabled' \subseteq disabled
<1>1. ASSUME NEW e \in Emails, SetupStart(r, e) PROVE Recovers'
  <2>1. Others /\ Grown /\ ~Pending(r) /\ UNCHANGED disturbed
    BY <1>1 DEF SetupStart, Goto, tables, history, Pending, Typed, TypeOK
  <2> QED BY <2>1, GrowRecovers
<1>2. CASE SetupLookup(r)
  <2>1. Others /\ Grown /\ ~Pending(r) /\ UNCHANGED disturbed
    BY <1>2 DEF SetupLookup, Goto, tables, history, Pending, Typed, TypeOK
  <2> QED BY <2>1, GrowRecovers
<1>3. CASE SetupWrite(r)
  <2>1. Others /\ ~Pending(r) /\ UNCHANGED disturbed
    BY <1>3, AnswerTyped DEF SetupWrite, Pending, Typed
  <2>2. Grown
    <3>1. CASE saw[r] = Rows(target[r])
      BY <1>3, <3>1 DEF SetupWrite, Users, EnabledAdmins
    <3>2. CASE saw[r] # Rows(target[r])
      BY <1>3, <3>2 DEF SetupWrite, SameUsers
    <3> QED BY <3>1, <3>2
  <2> QED BY <2>1, <2>2, GrowRecovers
<1>4. CASE SignIn(r)
  <2>1. Grown /\ ~Pending(r) /\ UNCHANGED disturbed
    BY <1>4 DEF SignIn, Login, Callback, IssueSession, ExchangeFails, Exchange, RequireAdmin,
                SameUsers, tables, history, Pending
  <2>2. Others
    BY <1>4, AnswerTyped DEF SignIn, Login, Callback, IssueSession, ExchangeFails, Exchange,
                RequireAdmin, Goto, Typed, TypeOK
  <2> QED BY <2>1, <2>2, GrowRecovers
<1>5. ASSUME NEW e \in Emails, NEW b \in Patches,
             CreateCheck(r, e) \/ DeleteCheck(r, e) \/ PatchCheck(r, e, b)
      PROVE  Recovers'
  <2>1. Others /\ Grown /\ ~Pending(r) /\ UNCHANGED disturbed
    BY <1>5 DEF CreateCheck, DeleteCheck, PatchCheck, Goto, tables, history, Pending, Typed, TypeOK
  <2> QED BY <2>1, GrowRecovers
<1>6. ASSUME NEW e \in Emails, CreateCheck(r, e) \/ DeleteCheck(r, e) PROVE Recovers'
  <2>1. Others /\ Grown /\ ~Pending(r) /\ UNCHANGED disturbed
    BY <1>6 DEF CreateCheck, DeleteCheck, Goto, tables, history, Pending, Typed, TypeOK
  <2> QED BY <2>1, GrowRecovers
<1>7. CASE CreateWrite(r)
  <2>1. Others /\ ~Pending(r) /\ UNCHANGED disturbed
    BY <1>7, AnswerTyped DEF CreateWrite, Pending, Typed
  <2>2. Grown
    BY <1>7 DEF CreateWrite, SameUsers, Users, EnabledAdmins
  <2> QED BY <2>1, <2>2, GrowRecovers
<1>8. CASE DeleteWrite(r)
  BY <1>8 DEF DeleteWrite, Recovers
<1>9. CASE Refuse(r) \/ Busy(r)
  <2>1. Others /\ Grown /\ ~Pending(r) /\ UNCHANGED disturbed
    BY <1>9, AnswerTyped DEF Refuse, Busy, tables, history, Pending, Typed
  <2> QED BY <2>1, GrowRecovers
<1>10. CASE RevertFails(r)
  BY <1>10 DEF RevertFails, Recovers
<1> QED BY <1>1, <1>2, <1>3, <1>4, <1>5, <1>6, <1>7, <1>8, <1>9, <1>10,
           PatchRecovers, PostCheckRecovers, RevertRecovers DEF Configure, Administer

\* Nor does a step of anybody else.
LEMMA NextRecovers ==
  ASSUME Typed, Typed', Recovers, [Next]_vars
  PROVE  Recovers'
<1>1. ASSUME NEW r \in Requests, Configure(r) \/ SignIn(r) \/ Administer(r) \/ Busy(r)
      PROVE  Recovers'
  BY <1>1, RequestRecovers
<1>2. CASE Restart
  BY <1>2 DEF Restart, Recovers
<1>3. ASSUME UNCHANGED <<accounts, admins, disabled, requests, history>> PROVE Recovers'
  BY <1>3 DEF Recovers, Recoverable, Pending, requests, history
<1>4. ASSUME NEW s \in States, StartFlow(s) \/ StateExpires(s) PROVE Recovers'
  BY <1>3, <1>4 DEF StartFlow, StateExpires, tables
<1>5. CASE SessionEnds \/ UNCHANGED vars
  BY <1>3, <1>5 DEF SessionEnds, vars, tables
<1> QED BY <1>1, <1>2, <1>4, <1>5 DEF Next

-----------------------------------------------------------------------------
\* The settings of the first administrator and its account come together, in the
\* one step that writes them, and only a deletion takes the account away.
LEMMA NextWhole ==
  ASSUME Typed, SetupIsWhole, [Next]_vars
  PROVE  SetupIsWhole'
<1>1. ASSUME UNCHANGED legacy, secret => secret', accounts \subseteq accounts',
             disturbed \subseteq disturbed'
      PROVE  SetupIsWhole'
  BY <1>1 DEF SetupIsWhole
<1>2. ASSUME NEW r \in Requests, SetupWrite(r) PROVE SetupIsWhole'
  <2>1. CASE saw[r] = Rows(target[r])
    <3>1. legacy' = target[r] /\ target[r] \in accounts' /\ secret'
      BY <1>2, <2>1 DEF SetupWrite, Users, Rotate
    <3> QED BY <3>1 DEF SetupIsWhole
  <2>2. CASE saw[r] # Rows(target[r]) /\ Rows(target[r]) \ saw[r] # {}
    <3>1. SameUsers /\ secret' /\ UNCHANGED <<legacy, disturbed>>
      BY <1>2, <2>2 DEF SetupWrite
    <3> QED BY <1>1, <3>1 DEF SameUsers
  <2>3. CASE saw[r] # Rows(target[r]) /\ Rows(target[r]) \ saw[r] = {}
    <3>1. SameUsers /\ UNCHANGED <<legacy, secret, disturbed>>
      BY <1>2, <2>3 DEF SetupWrite
    <3> QED BY <1>1, <3>1 DEF SameUsers
  <2> QED BY <2>1, <2>2, <2>3
<1>3. ASSUME NEW r \in Requests, DeleteWrite(r) PROVE SetupIsWhole'
  BY <1>3 DEF DeleteWrite, Rotate, SetupIsWhole
<1>4. ASSUME NEW r \in Requests, Configure(r), ~SetupWrite(r) PROVE SetupIsWhole'
  BY <1>1, <1>4 DEF Configure, SetupStart, SetupLookup, tables, history
<1>5. ASSUME NEW r \in Requests, SignIn(r) \/ Busy(r) PROVE SetupIsWhole'
  BY <1>1, <1>5 DEF SignIn, Busy, Login, Callback, IssueSession, ExchangeFails, Exchange,
                    RequireAdmin, SameUsers, tables, history
<1>6. ASSUME NEW r \in Requests, PatchWrite(r) \/ Revert(r) PROVE SetupIsWhole'
  <2>1. accounts' = accounts
    BY <1>6 DEF PatchWrite, Revert, Save, Users, SameUsers
  <2> QED BY <1>1, <1>6, <2>1 DEF PatchWrite, Revert, Rotate
<1>7. ASSUME NEW r \in Requests, CreateWrite(r) PROVE SetupIsWhole'
  BY <1>1, <1>7 DEF CreateWrite, Users, SameUsers
<1>8. ASSUME NEW r \in Requests, Administer(r), ~DeleteWrite(r), ~CreateWrite(r),
             ~PatchWrite(r), ~Revert(r)
      PROVE  SetupIsWhole'
  <2>1. UNCHANGED tables /\ disturbed \subseteq disturbed'
    BY <1>8 DEF Administer, CreateCheck, DeleteCheck, PatchCheck, PostCheck, RevertFails,
                Refuse, history
  <2> QED BY <1>1, <2>1 DEF tables
<1>9. ASSUME NEW s \in States, StartFlow(s) \/ StateExpires(s) PROVE SetupIsWhole'
  BY <1>1, <1>9 DEF StartFlow, StateExpires, tables, history
<1>10. CASE SessionEnds \/ Restart \/ UNCHANGED vars
  <2>1. /\ UNCHANGED <<accounts, legacy, secret>>
        /\ disturbed \subseteq disturbed'
    BY <1>10 DEF SessionEnds, Restart, vars, tables, history
  <2> QED BY <1>1, <2>1
<1> QED BY <1>2, <1>3, <1>4, <1>5, <1>6, <1>7, <1>8, <1>9, <1>10 DEF Next

-----------------------------------------------------------------------------
\* The invariant of the model in the parts the lemmas above speak of.
LEMMA InvParts ==
  AccountsInv <=> Typed /\ states \cap consumed = {} /\ SetupIsWhole /\ Recovers
BY DEF AccountsInv, Typed, Recovers

\* The inductive invariant: types, what requests carry, states that gave a
\* session are gone, a setup is whole, and an account can be recovered unless an
\* account was deleted, the API restarted or a revert was not committed.
THEOREM AccountsSafe == Spec => []AccountsInv
<1>1. Init => AccountsInv
  BY InitInv, AccountsAssumption
<1>2. AccountsInv /\ [Next]_vars => AccountsInv'
  <2> SUFFICES ASSUME AccountsInv, [Next]_vars PROVE AccountsInv'
    OBVIOUS
  <2>1. Typed /\ states \cap consumed = {} /\ SetupIsWhole /\ Recovers
    BY InvParts
  <2>2. Typed'
    BY <2>1, NextTyped, AccountsAssumption
  <2>3. (states \cap consumed = {})' /\ SetupIsWhole' /\ Recovers'
    BY <2>1, <2>2, NextConsumed, NextWhole, NextRecovers
  <2> QED BY <2>2, <2>3 DEF AccountsInv, Typed, Recovers
<1> QED BY <1>1, <1>2, PTL DEF Spec

\* Updates of users (routers/users.py), however many of them run at once, leave the
\* household an enabled administrator, unless an account was deleted, the API
\* restarted or the commit of a revert failed: then they may not.
THEOREM UpdatesKeepAnAdminAlways == Spec => []UpdatesKeepAnAdmin
<1>1. AccountsInv => UpdatesKeepAnAdmin
  BY DEF AccountsInv, TypeOK, UpdatesKeepAnAdmin, Recoverable, EnabledAdmins
<1> QED BY <1>1, AccountsSafe, PTL

\* A single sign-on state that gave a session (oidc.finish_flow) gives no other
\* to a callback that comes later.
THEOREM ConsumedStateStaysDeadAlways == Spec => ConsumedStateStaysDead
<1> DEFINE Fresh == \A r \in Requests : pc[r] = "idle" /\ pc'[r] = "exchange"
                                          => flow'[r] \notin consumed
<1>1. AccountsInv /\ [Next]_vars => [Fresh]_vars
  <2> SUFFICES ASSUME AccountsInv, Next PROVE Fresh
    BY DEF vars
  <2>1. ASSUME NEW q \in Requests, pc[q] = "idle", pc'[q] = "exchange"
        PROVE  \E s \in States : Callback(q, s)
    <3>1. ASSUME NEW r \in Requests, Configure(r)
          PROVE  FALSE
      BY <2>1, <3>1 DEF AccountsInv, TypeOK, Configure, SetupStart, SetupLookup, SetupWrite,
                        Answer, Goto
    <3>2. ASSUME NEW r \in Requests, Administer(r)
          PROVE  FALSE
      BY <2>1, <3>2 DEF AccountsInv, TypeOK, Administer, CreateCheck, DeleteCheck, PatchCheck,
                        CreateWrite, PatchWrite, PostCheck, Revert, RevertFails, DeleteWrite, Refuse, Answer, Goto
    <3>3. ASSUME NEW r \in Requests, SignIn(r), ~\E s \in States : Callback(r, s)
          PROVE  FALSE
      BY <2>1, <3>3 DEF AccountsInv, TypeOK, SignIn, Login, IssueSession, ExchangeFails,
                        Exchange, RequireAdmin, Answer, Goto
    <3>4. ASSUME NEW r \in Requests, NEW s \in States, Callback(r, s)
          PROVE  r = q
      BY <2>1, <3>4 DEF AccountsInv, TypeOK, Callback, Goto
    <3>5. ASSUME NEW r \in Requests, Busy(r)
          PROVE  FALSE
      BY <2>1, <3>5 DEF AccountsInv, TypeOK, Busy, Answer, Goto
    <3> QED BY <2>1, <3>1, <3>2, <3>3, <3>4, <3>5 DEF Next, StartFlow, StateExpires, SessionEnds,
                        Restart, requests
  <2> QED BY <2>1 DEF AccountsInv, TypeOK, Callback
<1> QED BY <1>1, AccountsSafe, PTL DEF Spec, ConsumedStateStaysDead

\* set_admin_password (auth.py), rolled back by rotate_jwt_secret when another setup
\* was faster, never leaves the settings of a first administrator without a secret
\* or, until an account is deleted, without the account.
THEOREM SetupIsWholeAlways == Spec => []SetupIsWhole
<1>1. AccountsInv => SetupIsWhole
  BY DEF AccountsInv
<1> QED BY <1>1, AccountsSafe, PTL

\* Users, sessions and requests in flight of the routers stay well formed.
THEOREM AccountsTypesAlways == Spec => []TypeOK
<1>1. AccountsInv => TypeOK
  BY DEF AccountsInv
<1> QED BY <1>1, AccountsSafe, PTL
=============================================================================
