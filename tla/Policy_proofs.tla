--------------------------- MODULE Policy_proofs ---------------------------
(***************************************************************************)
(* What holds of the policy engines for every profile, every household     *)
(* setting and every request.                                              *)
(***************************************************************************)
EXTENDS Policy, TLAPS

\* A set of rule numbers has a least element.
LEMMA LeastRule ==
  ASSUME NEW S \in SUBSET (1..13), S # {}
  PROVE  \E i \in S : \A j \in S : i <= j
<1> SUFFICES ASSUME \A i \in S : \E j \in S : j < i
             PROVE  FALSE
  OBVIOUS
<1>1. S \cap (1..4) = {}
  OBVIOUS
<1>2. S \cap (5..7) = {}
  BY <1>1
<1>3. S \cap (8..10) = {}
  BY <1>1, <1>2
<1>4. S \cap (11..13) = {}
  BY <1>1, <1>2, <1>3
<1>5. \A i \in S : FALSE
  BY <1>1, <1>2, <1>3, <1>4
<1> QED
  BY <1>5, Zenon

\* The first rule that says something is the answer.
LEMMA FirstSpeaks ==
  ASSUME NEW R, DOMAIN R = 1..13, NEW i \in 1..13, R[i] # Null,
         \A j \in 1..13 : j < i => R[j] = Null
  PROVE  First(R) = R[i]
<1> DEFINE S == {k \in DOMAIN R : R[k] # Null}
<1>1. i \in S /\ S \subseteq 1..13
  OBVIOUS
<1>2. \A k \in S : (\A j \in S : k <= j) => k = i
  BY <1>1
<1>3. \A j \in S : i <= j
  OBVIOUS
<1>4. (CHOOSE k \in S : \A j \in S : k <= j) = i
  BY <1>1, <1>2, <1>3
<1> QED
  BY <1>1, <1>4 DEF First

\* Conversely, an answer other than the default comes from such a rule.
LEMMA SomeRuleSpeaks ==
  ASSUME NEW R, DOMAIN R = 1..13, First(R) # Default
  PROVE  \E i \in 1..13 : /\ R[i] # Null
                          /\ First(R) = R[i]
                          /\ \A j \in 1..13 : j < i => R[j] = Null
<1> DEFINE S == {k \in DOMAIN R : R[k] # Null}
<1>1. S # {} /\ S \in SUBSET (1..13)
  BY DEF First
<1>2. PICK i \in S : \A j \in S : i <= j
  BY <1>1, LeastRule
<1>3. \A j \in 1..13 : j < i => R[j] = Null
  BY <1>1, <1>2
<1>4. First(R) = R[i]
  BY <1>1, <1>2, <1>3, FirstSpeaks
<1> QED
  BY <1>1, <1>2, <1>3, <1>4

\* Both engines have the same number of rules.
LEMMA ThirteenRules == DOMAIN PythonResults = 1..13 /\ DOMAIN RegoResults = 1..13
  BY DEF PythonResults, RegoResults

\* What rules say is told apart by its decision.
LEMMA Speech ==
  /\ \A r, m : Block(r, m).decision = "block" /\ Block(r, m) # Null
  /\ \A r, m : Allow(r, m).decision = "allow" /\ Allow(r, m) # Null
  /\ Null.decision = "none" /\ Default.decision = "allow"
  BY DEF Block, Allow, Null, Default, Say

-----------------------------------------------------------------------------
(* Types and the last answer.                                              *)

\* The last answer is the one the engine gives to the request as it is.
AnswerInv == answer = NoAnswer \/ \E e \in Engines, up \in BOOLEAN :
                                   answer = [engine |-> e, up |-> up, said |-> Answer(e, up)]

\* The answers depend on the profile, the rules and the request only.
LEMMA AnswerStays ==
  ASSUME UNCHANGED <<profile, rules, request>>, NEW e, NEW up
  PROVE  Answer(e, up)' = Answer(e, up)
<1>1. /\ \A ps : Matching(ps)' = Matching(ps)
      /\ \A l : Limit(l)' = Limit(l) /\ RegoLimit(l)' = RegoLimit(l)
      /\ \A w : InWindow(w)' = InWindow(w) /\ RegoInWindow(w)' = RegoInWindow(w)
  BY DEF Matching, Limit, RegoLimit, InWindow, RegoInWindow
<1>2. /\ OverQuota' = OverQuota /\ ChannelDenied' = ChannelDenied
      /\ ChannelUnknown' = ChannelUnknown
      /\ \A ks : RegoKeywords(ks)' = RegoKeywords(ks)
  BY DEF OverQuota, ChannelDenied, ChannelUnknown, RegoKeywords
<1>3. Flagged' = Flagged /\ RegoFlagged' = RegoFlagged
  BY <1>1 DEF Flagged, RegoFlagged, Exceeds
<1>4. PythonResults' = PythonResults
  BY <1>1, <1>2, <1>3 DEF PythonResults, Outside
<1>5. RegoResults' = RegoResults
  BY <1>3 DEF RegoResults, RegoInWindow, Matching, RegoKeywords, ChannelDenied, ChannelUnknown
<1> QED
  BY <1>4, <1>5 DEF Answer, RegoAnswer, PythonAnswer

\* A decision stores what its engine says, and an edit forgets the last answer.
LEMMA AnswerSteps ==
  ASSUME AnswerInv, [Next]_vars
  PROVE  AnswerInv'
<1>1. CASE UNCHANGED vars
  <2>1. answer' = answer /\ UNCHANGED <<profile, rules, request>>
    BY <1>1 DEF vars
  <2>2. \A e \in Engines, up \in BOOLEAN : Answer(e, up)' = Answer(e, up)
    BY <2>1, AnswerStays
  <2>3. NoAnswer' = NoAnswer
    BY DEF NoAnswer, Null, Say
  <2>4. CASE answer = NoAnswer
    BY <2>1, <2>3, <2>4 DEF AnswerInv
  <2>5. CASE answer # NoAnswer
    <3>1. PICK e \in Engines, up \in BOOLEAN :
            answer = [engine |-> e, up |-> up, said |-> Answer(e, up)]
      BY <2>5 DEF AnswerInv
    <3>2. answer' = [engine |-> e, up |-> up, said |-> Answer(e, up)']
      BY <2>1, <2>2, <3>1
    <3> QED
      BY <3>2 DEF AnswerInv, Engines
  <2> QED
    BY <2>4, <2>5
<1>2. CASE \E e \in Engines : Decide(e)
  <2>1. PICK e \in Engines, up \in BOOLEAN :
          answer' = [engine |-> e, up |-> up, said |-> Answer(e, up)]
    BY <1>2 DEF Decide
  <2>2. Answer(e, up)' = Answer(e, up)
    BY <1>2, AnswerStays DEF Decide
  <2> QED
    BY <2>1, <2>2 DEF AnswerInv
<1>3. CASE Tighten \/ Change
  BY <1>3 DEF Tighten, Change, Forbid, Narrow, Lower, UseMinute, EditProfile, EditRules,
     Edited, AnswerInv
<1> QED
  BY <1>1, <1>2, <1>3 DEF Next

-----------------------------------------------------------------------------
(* Where both engines read the profile alike, a Rego rule that is silent   *)
(* or allows has a Python counterpart that does the same.                  *)

\* A minute that is not the last of a window is before its end or after it,
\* whether it is counted in full minutes or in halves.
LEMMA HalfMinutes ==
  ASSUME NEW t \in Nat, NEW a \in Nat
  PROVE  /\ 2 * a <= t <=> a <= t \div 2
         /\ t % 2 = 0 \/ a # t \div 2 => (t <= 2 * a <=> t \div 2 <= a)
  OBVIOUS

\* One value of a rule of Rego against the same rule of Python.
Follows(v, out) == /\ v = Null => out = Null
                   /\ v.decision = "allow" => out.decision = "allow"

\* A rule with a condition of its own has a value, and only blocks.
LEMMA EitherFollows ==
  ASSUME NEW b \in BOOLEAN, NEW r, NEW m, NEW out, ~b => out = Null
  PROVE  /\ Either(b, Block(r, m)) # {}
         /\ \A v \in Either(b, Block(r, m)) : Follows(v, out)
  BY Speech, Zenon DEF Either, Values, Follows

\* So does a rule over a list; it is silent only if nothing matches.
LEMMA BlocksFollow ==
  ASSUME NEW b \in BOOLEAN, NEW r, NEW M, NEW out, ~b \/ M = {} => out = Null
  PROVE  /\ Blocks(b, r, M) # {}
         /\ \A v \in Blocks(b, r, M) : Follows(v, out)
<1>1. Blocks(b, r, M) # {}
  BY DEF Blocks, Values
<1>2. \A v \in Blocks(b, r, M) : Follows(v, out)
  <2> TAKE v \in Blocks(b, r, M)
  <2>1. (v = Null /\ (~b \/ M = {})) \/ \E m \in M : v = Block(r, m)
    BY DEF Blocks, Values
  <2> QED
    BY <2>1, Speech DEF Follows
<1> QED
  BY <1>1, <1>2

\* An allow list allows if an entry of it matches, whichever Rego reports.
LEMMA AllowsFollow ==
  ASSUME NEW b \in BOOLEAN, NEW r, NEW M
  PROVE  /\ Allows(b, r, M) # {}
         /\ \A v \in Allows(b, r, M) : Follows(v, When(b, Pass(r, M)))
<1>1. Allows(b, r, M) # {}
  BY DEF Allows, Values
<1>2. \A v \in Allows(b, r, M) : Follows(v, When(b, Pass(r, M)))
  <2> TAKE v \in Allows(b, r, M)
  <2>1. (v = Null /\ (~b \/ M = {})) \/ (b /\ \E m \in M : v = Allow(r, m))
    BY DEF Allows, Values
  <2>2. CASE v = Null /\ (~b \/ M = {})
    <3>1. When(b, Pass(r, M)) = Null
      BY <2>2 DEF When, Pass
    <3> QED
      BY <2>2, <3>1, Speech DEF Follows
  <2>3. CASE b /\ \E m \in M : v = Allow(r, m)
    <3>1. When(b, Pass(r, M)) = Allow(r, OneOf(M))
      BY <2>3 DEF When, Pass
    <3> QED
      BY <2>3, <3>1, Speech DEF Follows
  <2> QED
    BY <2>1, <2>2, <2>3
<1> QED
  BY <1>1, <1>2

\* Every rule of Rego has a value, and follows its Python counterpart.
LEMMA RulesFollow ==
  ASSUME profile \in Profiles, rules \in Rules, request \in Requests, ReadAlike
  PROVE  \A i \in 1..13 : /\ RegoResults[i] # {}
                          /\ \A v \in RegoResults[i] : Follows(v, PythonResults[i])
<1> DEFINE Good(i) == /\ RegoResults[i] # {}
                      /\ \A v \in RegoResults[i] : Follows(v, PythonResults[i])
<1>0. /\ rules.domainRules \in BOOLEAN /\ rules.urlRules \in BOOLEAN
      /\ rules.enforce \in BOOLEAN /\ profile.enforce \in BOOLEAN
  BY DEF Rules, Profiles
<1>1. Good(1)
  <2> DEFINE shut == profile.schedule # {} /\ \A w \in profile.schedule : ~InWindow(w)
             regoShut == profile.schedule # {} /\ \A w \in profile.schedule : ~RegoInWindow(w)
  <2>1. \A w \in profile.schedule : InWindow(w) <=> RegoInWindow(w)
    <3> TAKE w \in profile.schedule
    <3>1. w.from \in Nat /\ w.to \in Nat /\ request.time \in Nat
      BY DEF Profiles, Windows, Requests
    <3>2. w.legal /\ (request.time % 2 = 0 \/ w.to # request.time \div 2)
      BY DEF ReadAlike
    <3> QED
      BY <3>1, <3>2, HalfMinutes DEF InWindow, RegoInWindow
  <2>2. /\ RegoResults[1] = Either(regoShut, Block("schedule", Nothing))
        /\ PythonResults[1] = When(shut, Block("schedule", Nothing))
    BY DEF RegoResults, PythonResults
  <2>3. regoShut \in BOOLEAN /\ (~regoShut => PythonResults[1] = Null)
    BY <2>1, <2>2 DEF When
  <2> HIDE DEF shut, regoShut
  <2> QED
    BY <2>2, <2>3, EitherFollows
<1>2. Good(2)
  <2> DEFINE reached == profile.quota > 0 /\ request.used >= profile.quota
  <2>1. profile.quota \in Int /\ profile.quota >= 0 /\ request.used \in Int
    BY DEF ReadAlike, Profiles, Requests
  <2>2. (profile.quota = 0 \/ request.used < profile.quota) = ~reached
    BY <2>1
  <2>3. RegoResults[2] = Either(reached, Block("quota", Nothing))
    BY <2>2 DEF RegoResults, Either
  <2>4. PythonResults[2] = When(reached, Block("quota", Nothing))
    BY DEF PythonResults, OverQuota
  <2>5. reached \in BOOLEAN /\ (~reached => PythonResults[2] = Null)
    BY <2>4 DEF When
  <2> HIDE DEF reached
  <2> QED
    BY <2>3, <2>5, EitherFollows
<1>3. Good(3) /\ Good(7)
  <2>1. /\ ~rules.domainRules \/ Matching(rules.deny) = {} => PythonResults[3] = Null
        /\ ~rules.domainRules \/ Matching(profile.deny) = {} => PythonResults[7] = Null
    BY DEF PythonResults, When, Hit
  <2>2. /\ RegoResults[3] = Blocks(rules.domainRules, "global_deny_domain", Matching(rules.deny))
        /\ RegoResults[7] = Blocks(rules.domainRules, "deny_domain", Matching(profile.deny))
    BY DEF RegoResults
  <2> QED
    BY <1>0, <2>1, <2>2, BlocksFollow
<1>4. Good(4) /\ Good(11)
  <2>1. /\ PythonResults[4] = When(rules.domainRules, Pass("global_allow_domain", Matching(rules.allow)))
        /\ PythonResults[11] = When(rules.domainRules, Pass("allow_domain", Matching(profile.allow)))
    BY DEF PythonResults
  <2>2. /\ RegoResults[4] = Allows(rules.domainRules, "global_allow_domain", Matching(rules.allow))
        /\ RegoResults[11] = Allows(rules.domainRules, "allow_domain", Matching(profile.allow))
    BY DEF RegoResults
  <2> QED
    BY <1>0, <2>1, <2>2, AllowsFollow
<1>5. Good(5) /\ Good(12)
  <2> DEFINE household == rules.domainRules /\ rules.enforce /\ rules.allow # {}
                            /\ Matching(rules.allow) = {}
             own == rules.domainRules /\ profile.enforce /\ profile.allow # {}
                      /\ Matching(profile.allow) = {}
             bare == IF request.host = NoHost THEN "" ELSE request.host
             name == IF request.host = NoHost THEN "unknown" ELSE request.host
  <2>1. /\ ~household => PythonResults[5] = Null
        /\ ~own => PythonResults[12] = Null
    BY DEF PythonResults, When, Outside
  <2>2. /\ RegoResults[5] = Either(household, Block("global_not_in_allowlist", bare))
        /\ RegoResults[12] = Either(own, Block("not_in_allowlist", name))
    BY DEF RegoResults
  <2>3. household \in BOOLEAN /\ own \in BOOLEAN
    BY <1>0
  <2> HIDE DEF household, own, bare, name
  <2>4. Good(5)
    BY <2>1, <2>2, <2>3, EitherFollows
  <2>5. Good(12)
    BY <2>1, <2>2, <2>3, EitherFollows
  <2> QED
    BY <2>4, <2>5
<1>6. Good(6) /\ Good(8)
  <2>1. \A ks : RegoKeywords(ks) = {} => ks \cap request.text = {}
    BY DEF RegoKeywords
  <2>2. /\ ~rules.urlRules \/ RegoKeywords(rules.keywords) = {} => PythonResults[6] = Null
        /\ ~rules.urlRules \/ RegoKeywords(profile.keywords) = {} => PythonResults[8] = Null
    BY <2>1 DEF PythonResults, When, Hit
  <2>3. /\ RegoResults[6] = Blocks(rules.urlRules, "global_deny_keyword", RegoKeywords(rules.keywords))
        /\ RegoResults[8] = Blocks(rules.urlRules, "deny_keyword", RegoKeywords(profile.keywords))
    BY DEF RegoResults
  <2> QED
    BY <1>0, <2>2, <2>3, BlocksFollow
<1>9. Good(9) /\ Good(10)
  <2> DEFINE denied == request.host \in YouTube /\ ChannelDenied
             unknown == request.host \in YouTube /\ ChannelUnknown
  <2>1. /\ ~denied => PythonResults[9] = Null
        /\ ~unknown => PythonResults[10] = Null
    BY DEF PythonResults, When
  <2>2. /\ RegoResults[9] = Either(denied, Block("deny_youtube_channel", Nothing))
        /\ RegoResults[10] = Either(unknown, Block("youtube_channel_not_allowed", Nothing))
    BY DEF RegoResults
  <2>3. denied \in BOOLEAN /\ unknown \in BOOLEAN
    BY DEF ChannelDenied, ChannelUnknown
  <2> HIDE DEF denied, unknown
  <2> QED
    BY <2>1, <2>2, <2>3, EitherFollows
<1>13. Good(13)
  <2>1. RegoFlagged = Flagged
    BY DEF RegoFlagged, Flagged, RegoLimit, Limit
  <2>2. RegoResults[13] = Blocks(TRUE, "classifier", Flagged)
    BY <2>1 DEF RegoResults
  <2>3. Flagged = {} => PythonResults[13] = Null
    BY DEF PythonResults, Hit, When
  <2> QED
    BY <2>2, <2>3, BlocksFollow
<1> QED
  <2>1. \A i \in 1..13 : i = 1 \/ i = 2 \/ i = 3 \/ i = 4 \/ i = 5 \/ i = 6 \/ i = 7
                      \/ i = 8 \/ i = 9 \/ i = 10 \/ i = 11 \/ i = 12 \/ i = 13
    OBVIOUS
  <2> HIDE DEF Good
  <2>2. \A i \in 1..13 : Good(i)
    BY <1>1, <1>2, <1>3, <1>4, <1>5, <1>6, <1>9, <1>13, <2>1
  <2> QED
    BY <2>2 DEF Good

\* So what OPA allows, policy.decide allows.
LEMMA RegoNeverLaxer ==
  ASSUME profile \in Profiles, rules \in Rules, request \in Requests, ReadAlike,
         RegoAnswer.decision = "allow"
  PROVE  PythonAnswer.decision = "allow"
<1> DEFINE odd == {i \in DOMAIN RegoResults : ~Single(RegoResults[i])}
           R == [i \in DOMAIN RegoResults |-> OneOf(RegoResults[i])]
<1>1. \A i \in 1..13 : RegoResults[i] # {}
  BY RulesFollow
<1>2. odd = {}
  <2> SUFFICES ASSUME odd # {}
               PROVE  FALSE
    OBVIOUS
  <2>1. odd \in SUBSET (1..13)
    BY ThirteenRules
  <2>2. \E i \in odd : \A j \in odd : i <= j
    BY <2>1, LeastRule
  <2>3. (CHOOSE i \in odd : \A j \in odd : i <= j) \in 1..13
    BY <2>1, <2>2
  <2>4. RegoAnswer = Unavailable
    BY <1>1, <2>3 DEF RegoAnswer
  <2> QED
    BY <2>4 DEF Unavailable, Say
<1>3. RegoAnswer = First(R)
  BY <1>2 DEF RegoAnswer
<1>4. DOMAIN R = 1..13 /\ \A i \in 1..13 : R[i] \in RegoResults[i]
  BY <1>1, ThirteenRules DEF OneOf
<1>5. \A i \in 1..13 : Follows(R[i], PythonResults[i])
  BY <1>4, RulesFollow
<1> HIDE DEF R, odd
<1>6. CASE \A i \in 1..13 : R[i] = Null
  <2>1. \A i \in 1..13 : PythonResults[i] = Null
    BY <1>5, <1>6 DEF Follows
  <2>2. PythonAnswer = Default
    BY <2>1, ThirteenRules, SomeRuleSpeaks DEF PythonAnswer
  <2> QED
    BY <2>2, Speech
<1>7. CASE \E i \in 1..13 : R[i] # Null
  <2>1. PICK i \in 1..13 : R[i] # Null /\ \A j \in 1..13 : j < i => R[j] = Null
    <3> DEFINE S == {i \in 1..13 : R[i] # Null}
    <3>1. S # {} /\ S \in SUBSET (1..13)
      BY <1>7
    <3>2. PICK i \in S : \A j \in S : i <= j
      BY <3>1, LeastRule
    <3> QED
      BY <3>2
  <2>2. R[i].decision = "allow"
    BY <1>3, <1>4, <2>1, FirstSpeaks
  <2>3. PythonResults[i].decision = "allow" /\ \A j \in 1..13 : j < i => PythonResults[j] = Null
    BY <1>5, <2>1, <2>2 DEF Follows
  <2>4. PythonResults[i] # Null
    BY <2>3, Speech
  <2>5. PythonAnswer = PythonResults[i]
    BY <2>3, <2>4, ThirteenRules, FirstSpeaks DEF PythonAnswer
  <2> QED
    BY <2>3, <2>5
<1> QED
  BY <1>6, <1>7

-----------------------------------------------------------------------------
(* The types, and the theorem about the engines.                           *)

Typed == profile \in Profiles /\ rules \in Rules /\ request \in Requests

PolicyInv == Typed /\ edits \in Nat /\ AnswerInv

\* Nothing is asked or answered yet.
LEMMA InitHolds == Init => PolicyInv
<1>1. Init => Typed
  BY PolicyAssumption DEF Init, Typed
<1> QED
  BY <1>1 DEF Init, PolicyInv, AnswerInv

\* An edited threshold is a threshold.
LEMMA LimitsTyped ==
  ASSUME NEW f \in Limits, NEW l \in Labels, NEW v \in Int
  PROVE  [f EXCEPT ![l] = v] \in Limits
  BY DEF Limits

\* Requests, edits and minutes keep the types.
LEMMA TypeSteps ==
  ASSUME Typed, edits \in Nat, [Next]_vars
  PROVE  Typed' /\ edits' \in Nat
<1>1. CASE UNCHANGED vars
  BY <1>1 DEF Typed, vars
<1>2. CASE \E e \in Engines : Decide(e)
  BY <1>2 DEF Decide, Typed
<1>3. CASE Forbid
  BY <1>3 DEF Forbid, EditProfile, EditRules, Edited, Typed, Profiles, Rules
<1>4. CASE Narrow
  <2>1. CASE EditProfile("enforce", TRUE) \/ EditRules("enforce", TRUE)
    <3>1. PICK v \in BOOLEAN : EditProfile("enforce", v) \/ EditRules("enforce", v)
      BY <2>1, Zenon
    <3> QED
      BY <3>1 DEF EditProfile, EditRules, Edited, Typed, Profiles, Rules
  <2>2. CASE \E p \in profile.allow : EditProfile("allow", profile.allow \ {p})
    BY <2>2 DEF EditProfile, Edited, Typed, Profiles
  <2>3. CASE \E p \in rules.allow : EditRules("allow", rules.allow \ {p})
    BY <2>3 DEF EditRules, Edited, Typed, Rules
  <2>4. CASE \E c \in profile.allowChannels :
               EditProfile("allowChannels", profile.allowChannels \ {c})
    BY <2>4 DEF EditProfile, Edited, Typed, Profiles
  <2> QED
    BY <1>4, <2>1, <2>2, <2>3, <2>4 DEF Narrow
<1>5. CASE Lower
  <2>1. PICK l \in Labels, v \in 0..3 :
          \/ EditProfile("limits", [profile.limits EXCEPT ![l] = v])
          \/ EditRules("limits", [rules.limits EXCEPT ![l] = v])
    BY <1>5 DEF Lower, SettingLimit
  <2>2. /\ [profile.limits EXCEPT ![l] = v] \in Limits
        /\ [rules.limits EXCEPT ![l] = v] \in Limits
    BY LimitsTyped DEF Typed, Profiles, Rules
  <2> QED
    BY <2>1, <2>2 DEF EditProfile, EditRules, Edited, Typed, Profiles, Rules
<1>6. CASE UseMinute
  BY <1>6 DEF UseMinute, Edited, Typed, Requests
<1>7. CASE Change
  <2>1. CASE \E l \in Labels : EditRules("limits", [rules.limits EXCEPT ![l] = NoLimit])
    BY <2>1 DEF EditRules, Edited, Typed, Rules, Limits
  <2>2. CASE ~\E l \in Labels : EditRules("limits", [rules.limits EXCEPT ![l] = NoLimit])
    BY <1>7, <2>2, PolicyAssumption
    DEF Change, EditProfile, EditRules, Edited, Typed, Profiles, Rules, SettingLimit
  <2> QED
    BY <2>1, <2>2
<1> QED
  BY <1>1, <1>2, <1>3, <1>4, <1>5, <1>6, <1>7 DEF Next, Tighten

\* post_decide: the last answer is the one its engine, up or down, gives to the
\* request as it stands, and profile, settings and request are of their types.
THEOREM PolicyInvariant == Spec => []PolicyInv
<1>1. PolicyInv /\ [Next]_vars => PolicyInv'
  BY TypeSteps, AnswerSteps DEF PolicyInv
<1> QED
  BY InitHolds, <1>1, PTL DEF Spec

\* What an engine answers when it allows without panic: Python decides, or OPA.
LEMMA WhoAllows ==
  ASSUME PolicyInv, ~request.panic, answer.said.decision = "allow"
  PROVE  \/ PythonAnswer.decision = "allow"
         \/ answer.engine # "python" /\ RegoAnswer.decision = "allow"
<1>1. answer # NoAnswer
  BY DEF NoAnswer, Null, Say
<1>2. PICK e \in Engines, up \in BOOLEAN :
        answer = [engine |-> e, up |-> up, said |-> Answer(e, up)]
  BY <1>1 DEF PolicyInv, AnswerInv
<1>3. Unavailable.decision = "error"
  BY DEF Unavailable, Say
<1>4. CASE e = "python"
  BY <1>2, <1>4 DEF Answer
<1>5. CASE e # "python"
  BY <1>2, <1>3, <1>5 DEF Answer, Engines
<1> QED
  BY <1>4, <1>5

\* What an engine lets through, policy.decide allows, if Python answered or both
\* engines read the profile alike.
LEMMA AllowedByPython ==
  ASSUME PolicyInv, ~request.panic, answer.said.decision = "allow",
         answer.engine = "python" \/ ReadAlike
  PROVE  PythonAnswer.decision = "allow"
  BY WhoAllows, RegoNeverLaxer DEF PolicyInv, Typed

\* What policy.decide blocks no engine lets through, whatever profile, settings
\* and request, where both read the quota, the windows and the minute alike.
THEOREM OpaNeverLaxerAlways == Spec => []OpaNeverLaxer
<1>1. PolicyInv => OpaNeverLaxer
  BY AllowedByPython DEF OpaNeverLaxer
<1> QED
  BY <1>1, PolicyInvariant, PTL

-----------------------------------------------------------------------------
(* Precedence: a rule that blocks wins over every rule behind it.          *)

\* A rule that blocks wins when no rule before it allows.
LEMMA BlockWins ==
  ASSUME NEW R, DOMAIN R = 1..13, NEW i \in 1..13, R[i].decision = "block",
         \A j \in 1..13 : j < i => R[j] = Null \/ R[j].decision = "block"
  PROVE  First(R).decision = "block"
<1> DEFINE S == {k \in DOMAIN R : R[k] # Null}
<1>1. i \in S /\ S \in SUBSET (1..13)
  BY Speech
<1>2. PICK k \in S : \A j \in S : k <= j
  BY <1>1, LeastRule
<1>3. First(R) = R[k]
  BY <1>1, <1>2, FirstSpeaks
<1>4. k <= i /\ k \in 1..13 /\ R[k] # Null
  BY <1>1, <1>2
<1> QED
  BY <1>3, <1>4

\* Which rules can only block.
BlockersInv ==
  \A i \in 1..13 : i = 4 \/ i = 11 \/ PythonResults[i] = Null
                                   \/ PythonResults[i].decision = "block"

\* Only the allow lists of the household and the profile can allow.
LEMMA Blockers == BlockersInv
<1>1. \A b, r, m : When(b, Block(r, m)) = Null \/ When(b, Block(r, m)).decision = "block"
  BY Speech DEF When
<1>2. \A b, r, M : When(b, Hit(r, M)) = Null \/ When(b, Hit(r, M)).decision = "block"
  BY <1>1 DEF Hit, When
<1>3. \A b, r, e, M : When(b, Outside(r, e, M)) = Null \/ When(b, Outside(r, e, M)).decision = "block"
  BY <1>1 DEF Outside, When
<1>4. \A i \in 1..13 : i = 1 \/ i = 2 \/ i = 3 \/ i = 4 \/ i = 5 \/ i = 6 \/ i = 7
                    \/ i = 8 \/ i = 9 \/ i = 10 \/ i = 11 \/ i = 12 \/ i = 13
  OBVIOUS
<1> DEFINE P(i) == PythonResults[i] = Null \/ PythonResults[i].decision = "block"
<1>5. P(1) /\ P(2) /\ P(9) /\ P(10)
  BY <1>1 DEF PythonResults
<1>6. P(3) /\ P(6) /\ P(7) /\ P(8)
  BY <1>2 DEF PythonResults
<1>7. P(5) /\ P(12)
  BY <1>3 DEF PythonResults
<1>8. P(13)
  BY <1>1 DEF PythonResults, Hit
<1> HIDE DEF P
<1>9. \A i \in 1..13 : i = 4 \/ i = 11 \/ P(i)
  BY <1>4, <1>5, <1>6, <1>7, <1>8
<1> QED
  BY <1>9 DEF P, BlockersInv

\* What must be denied is denied before anything can allow it.
LEMMA DenyFirst ==
  \/ Closed \/ OverQuota \/ Denies(rules.deny)
  \/ ~Denies(rules.allow) /\ (Word \/ Denies(profile.deny))
  => Blocked
<1>1. \A i \in 1..13 : i < 4 /\ PythonResults[i].decision = "block" => Blocked
  <2> SUFFICES ASSUME NEW i \in 1..13, i < 4, PythonResults[i].decision = "block"
               PROVE  Blocked
    OBVIOUS
  <2>1. \A j \in 1..13 : j < i => PythonResults[j] = Null \/ PythonResults[j].decision = "block"
    BY Blockers DEF BlockersInv
  <2> QED
    BY <2>1, BlockWins, ThirteenRules DEF Blocked, PythonAnswer
<1> DEFINE free == ~Denies(rules.allow)
<1>2. free => \A i \in 1..13 : i < 11 /\ PythonResults[i].decision = "block" => Blocked
  <2> HAVE free
  <2> TAKE i \in 1..13
  <2> HAVE i < 11 /\ PythonResults[i].decision = "block"
  <2>1. PythonResults[4] = Null
    BY DEF PythonResults, When, Pass, Denies
  <2>2. \A j \in 1..13 : j < i => PythonResults[j] = Null \/ PythonResults[j].decision = "block"
    BY <2>1, Blockers DEF BlockersInv
  <2> QED
    BY <2>2, BlockWins, ThirteenRules DEF Blocked, PythonAnswer
<1>3. CASE Closed
  <2>1. PythonResults[1].decision = "block"
    BY <1>3, Speech DEF PythonResults, When, Closed
  <2> QED
    BY <1>1, <2>1
<1>4. CASE OverQuota
  <2>1. PythonResults[2].decision = "block"
    BY <1>4, Speech DEF PythonResults, When
  <2> QED
    BY <1>1, <2>1
<1>5. CASE Denies(rules.deny)
  <2>1. PythonResults[3].decision = "block"
    BY <1>5, Speech DEF PythonResults, When, Hit, Denies
  <2> QED
    BY <1>1, <2>1
<1>6. CASE free /\ Word
  <2>1. CASE rules.keywords \cap request.text # {}
    <3>1. PythonResults[6].decision = "block"
      BY <1>6, <2>1, Speech DEF PythonResults, When, Hit, Word
    <3> QED
      BY <1>2, <1>6, <3>1
  <2>2. CASE profile.keywords \cap request.text # {}
    <3>1. PythonResults[8].decision = "block"
      BY <1>6, <2>2, Speech DEF PythonResults, When, Hit, Word
    <3> QED
      BY <1>2, <1>6, <3>1
  <2> QED
    BY <1>6, <2>1, <2>2 DEF Word
<1>7. CASE free /\ Denies(profile.deny)
  <2>1. PythonResults[7].decision = "block"
    BY <1>7, Speech DEF PythonResults, When, Hit, Denies
  <2> QED
    BY <1>2, <1>7, <2>1
<1> QED
  BY <1>3, <1>4, <1>5, <1>6, <1>7

\* No engine allows what the clock, the quota or the household forbids, nor what
\* the profile denies or a denied word names unless the household allows the host:
\* for every profile, household and request.
THEOREM DenyWinsAlways == Spec => []DenyWins
<1>1. PolicyInv => DenyWins
  <2> SUFFICES ASSUME PolicyInv, ~request.panic, answer.said.decision = "allow",
                      answer.engine = "python" \/ ReadAlike, Blocked
               PROVE  FALSE
    BY DenyFirst DEF DenyWins
  <2>1. PythonAnswer.decision = "allow"
    BY AllowedByPython
  <2> QED
    BY <2>1 DEF Blocked
<1> QED
  BY <1>1, PolicyInvariant, PTL

-----------------------------------------------------------------------------
(* Tightening.  No rule that blocked falls silent, and no rule that was    *)
(* silent begins to allow.                                                 *)

Tighter ==
  /\ profile'.schedule = profile.schedule /\ profile'.quota = profile.quota
  /\ request'.host = request.host /\ request'.text = request.text
  /\ request'.channel = request.channel
  /\ request'.day = request.day /\ request'.time = request.time
  /\ request'.used \in Int /\ request'.used >= request.used
  /\ rules'.domainRules = rules.domainRules /\ rules'.urlRules = rules.urlRules
  /\ profile.deny \subseteq profile'.deny /\ rules.deny \subseteq rules'.deny
  /\ profile.keywords \subseteq profile'.keywords /\ rules.keywords \subseteq rules'.keywords
  /\ profile.denyChannels \subseteq profile'.denyChannels
  /\ (profile.enforce => profile'.enforce) /\ (rules.enforce => rules'.enforce)
  /\ profile'.allow \subseteq profile.allow /\ (profile'.allow = {} => profile.allow = {})
  /\ rules'.allow \subseteq rules.allow /\ (rules'.allow = {} => rules.allow = {})
  /\ profile'.allowChannels \subseteq profile.allowChannels
  /\ profile'.allowChannels = {} => profile.allowChannels = {}
  /\ Flagged \subseteq Flagged'

\* Under the same limits the same scores are over them.
LEMMA SameLimits ==
  ASSUME profile'.limits = profile.limits, rules'.limits = rules.limits,
         request'.scores = request.scores
  PROVE  Flagged \subseteq Flagged'
<1>1. \A l : Limit(l)' = Limit(l)
  BY DEF Limit
<1> QED
  BY <1>1 DEF Flagged, Exceeds

\* Denying more, or searching for more keywords, is a tightening.
LEMMA ForbidTightens ==
  ASSUME Typed, Forbid
  PROVE  Tighter
<1>1. request' = request /\ request.used \in Int
  BY DEF Forbid, EditProfile, EditRules, Typed, Requests
<1>2. profile \in Profiles /\ rules \in Rules
  BY DEF Typed
<1>3. CASE \E S : profile' = [profile EXCEPT !["deny"] = profile.deny \cup S] /\ rules' = rules
  BY <1>1, <1>2, <1>3, SameLimits DEF Tighter, Profiles
<1>4. CASE \E S : rules' = [rules EXCEPT !["deny"] = rules.deny \cup S] /\ profile' = profile
  BY <1>1, <1>2, <1>4, SameLimits DEF Tighter, Rules
<1>5. CASE \E S : profile' = [profile EXCEPT !["keywords"] = profile.keywords \cup S] /\ rules' = rules
  BY <1>1, <1>2, <1>5, SameLimits DEF Tighter, Profiles
<1>6. CASE \E S : rules' = [rules EXCEPT !["keywords"] = rules.keywords \cup S] /\ profile' = profile
  BY <1>1, <1>2, <1>6, SameLimits DEF Tighter, Rules
<1>7. CASE \E S : profile' = [profile EXCEPT !["denyChannels"] = profile.denyChannels \cup S]
                  /\ rules' = rules
  BY <1>1, <1>2, <1>7, SameLimits DEF Tighter, Profiles
<1> QED
  BY <1>3, <1>4, <1>5, <1>6, <1>7 DEF Forbid, EditProfile, EditRules

\* So is enforcing an allow list or shortening it, but for its last entry,
LEMMA NarrowTightens ==
  ASSUME Typed, Narrow
  PROVE  Tighter
<1>1. request' = request /\ request.used \in Int
  BY DEF Narrow, EditProfile, EditRules, Typed, Requests
<1>2. profile \in Profiles /\ rules \in Rules
  BY DEF Typed
<1>3. CASE EditProfile("enforce", TRUE)
  BY <1>1, <1>2, <1>3, SameLimits DEF EditProfile, Tighter, Profiles
<1>4. CASE EditRules("enforce", TRUE)
  BY <1>1, <1>2, <1>4, SameLimits DEF EditRules, Tighter, Rules
<1>5. CASE \E p \in profile.allow : /\ profile.allow # {p}
                                    /\ EditProfile("allow", profile.allow \ {p})
  BY <1>1, <1>2, <1>5, SameLimits DEF EditProfile, Tighter, Profiles
<1>6. CASE \E p \in rules.allow : /\ rules.allow # {p}
                                  /\ EditRules("allow", rules.allow \ {p})
  BY <1>1, <1>2, <1>6, SameLimits DEF EditRules, Tighter, Rules
<1>7. CASE \E c \in profile.allowChannels :
             /\ profile.allowChannels # {c}
             /\ EditProfile("allowChannels", profile.allowChannels \ {c})
  BY <1>1, <1>2, <1>7, SameLimits DEF EditProfile, Tighter, Profiles
<1> QED
  BY <1>3, <1>4, <1>5, <1>6, <1>7 DEF Narrow

\* A threshold at or below the one in force, set at either level, flags no less.
LEMMA LowerTightens ==
  ASSUME Typed, Lower
  PROVE  Tighter
<1>1. profile \in Profiles /\ rules \in Rules /\ request \in Requests
  BY DEF Typed
<1>2. PICK l \in Labels, v \in 0..3 :
        /\ Limit(l) # NoLimit => v <= Limit(l)
        /\ \/ EditProfile("limits", [profile.limits EXCEPT ![l] = v])
           \/ EditRules("limits", [rules.limits EXCEPT ![l] = v])
  BY DEF Lower, SettingLimit
<1>3. request' = request /\ request.used \in Int
  BY <1>1, <1>2 DEF EditProfile, EditRules, Requests
<1>4. v # NoLimit /\ v \in Int
  BY PolicyAssumption
<1>5. profile.limits \in Limits /\ rules.limits \in Limits /\ ConfigLimits \in Limits
  BY <1>1, PolicyAssumption DEF Profiles, Rules
<1>6. \A k \in Labels : Limit(k) \in Int \cup {NoLimit}
  BY <1>5 DEF Limit, Limits
<1>7. \A k \in Labels : k # l => Limit(k)' = Limit(k)
  <2> TAKE k \in Labels
  <2> HAVE k # l
  <2>1. profile'.limits[k] = profile.limits[k]
    BY <1>1, <1>2, <1>5 DEF EditProfile, EditRules, Profiles, Limits
  <2>2. rules'.limits[k] = rules.limits[k]
    BY <1>1, <1>2, <1>5 DEF EditProfile, EditRules, Rules, Limits
  <2> QED
    BY <2>1, <2>2 DEF Limit
<1>8. Limit(l)' = v \/ Limit(l)' = Limit(l)
  <2>1. CASE EditProfile("limits", [profile.limits EXCEPT ![l] = v])
    <3>1. profile'.limits[l] = v
      BY <1>1, <1>5, <2>1 DEF EditProfile, Profiles, Limits
    <3> QED
      BY <1>4, <3>1 DEF Limit
  <2>2. CASE EditRules("limits", [rules.limits EXCEPT ![l] = v])
    <3>1. rules'.limits[l] = v /\ profile' = profile
      BY <1>1, <1>5, <2>2 DEF EditRules, Rules, Limits
    <3> QED
      BY <1>4, <3>1 DEF Limit
  <2> QED
    BY <1>2, <2>1, <2>2
<1>9. \A k \in Labels : Exceeds(k, Limit(k)) => Exceeds(k, Limit(k))'
  <2> TAKE k \in Labels
  <2>1. CASE k # l
    BY <1>3, <1>7, <2>1 DEF Exceeds
  <2>2. CASE k = l /\ Limit(l)' = Limit(l)
    BY <1>3, <2>2 DEF Exceeds
  <2>3. CASE k = l /\ Limit(l)' = v
    <3>1. Limit(l) # NoLimit => v <= Limit(l) /\ Limit(l) \in Int
      BY <1>2, <1>6
    <3>2. request.scores[l] # Nothing => request.scores[l] \in Int
      BY <1>1 DEF Requests
    <3> QED
      BY <1>3, <1>4, <2>3, <3>1, <3>2 DEF Exceeds
  <2> QED
    BY <1>8, <2>1, <2>2, <2>3
<1>10. Flagged \subseteq Flagged'
  BY <1>9 DEF Flagged
<1>11. CASE EditProfile("limits", [profile.limits EXCEPT ![l] = v])
  BY <1>1, <1>3, <1>10, <1>11 DEF EditProfile, Tighter, Profiles
<1>12. CASE EditRules("limits", [rules.limits EXCEPT ![l] = v])
  BY <1>1, <1>3, <1>10, <1>12 DEF EditRules, Tighter, Rules
<1> QED
  BY <1>2, <1>11, <1>12

\* and a minute of the quota that is used.
LEMMA MinuteTightens ==
  ASSUME Typed, UseMinute
  PROVE  Tighter
<1>1. profile' = profile /\ rules' = rules /\ request' = [request EXCEPT !.used = @ + 1]
  BY DEF UseMinute
<1>2. request \in Requests
  BY DEF Typed
<1>3. request'.scores = request.scores
  BY <1>1, <1>2 DEF Requests
<1>4. Flagged \subseteq Flagged'
  BY <1>1, <1>3, SameLimits
<1> QED
  BY <1>1, <1>2, <1>4 DEF Tighter, Requests

NotLooser(i) ==
  /\ PythonResults[i].decision = "block" => PythonResults'[i].decision = "block"
  /\ PythonResults[i] = Null => PythonResults'[i] = Null \/ PythonResults'[i].decision = "block"

\* A rule that can only block is not loosened when its condition stays true.
LEMMA ConditionStays ==
  /\ \A b, c \in BOOLEAN : \A r, m, s, n : (b => c) =>
       (When(b, Block(r, m)).decision = "block" => When(c, Block(s, n)).decision = "block")
  /\ \A b, c \in BOOLEAN : \A r, M, N : (b => c) /\ (M # {} => N # {}) =>
       (When(b, Hit(r, M)).decision = "block" => When(c, Hit(r, N)).decision = "block")
  /\ \A b, r, M : When(b, Pass(r, M)).decision # "block"
  /\ \A b \in BOOLEAN : \A r, M : When(b, Pass(r, M)) = Null <=> ~b \/ M = {}
  BY Speech DEF When, Hit, Pass

\* A tightening silences no rule that blocked and lets none allow that did not.
LEMMA RulesNotLooser ==
  ASSUME Typed, Tighter
  PROVE  \A i \in 1..13 : NotLooser(i)
<1> DEFINE Kept(i) == PythonResults[i].decision = "block" => PythonResults'[i].decision = "block"
<1>0. /\ rules.domainRules \in BOOLEAN /\ rules.urlRules \in BOOLEAN
      /\ rules'.domainRules = rules.domainRules /\ rules'.urlRules = rules.urlRules
      /\ profile.quota \in Int /\ request.used \in Int
  BY DEF Typed, Rules, Profiles, Requests, Tighter
<1>a. /\ \A S, T : S \subseteq T => Matching(S) \subseteq Matching(T)'
      /\ Matching(rules.allow)' \subseteq Matching(rules.allow)
      /\ Matching(profile.allow)' \subseteq Matching(profile.allow)
  BY DEF Matching, Tighter
<1>1. Kept(1)
  <2>1. \A w : InWindow(w)' = InWindow(w)
    BY DEF InWindow, Tighter
  <2>2. PythonResults'[1] = PythonResults[1]
    BY <2>1 DEF PythonResults, Tighter
  <2> QED
    BY <2>2
<1>2. Kept(2)
  <2>1. OverQuota => OverQuota'
    BY <1>0 DEF OverQuota, Tighter
  <2> QED
    BY <2>1, Speech DEF PythonResults, When
<1>3. Kept(3)
  <2>1. Matching(rules.deny) # {} => Matching(rules.deny)' # {}
    BY <1>a DEF Tighter
  <2> QED
    BY <1>0, <2>1, ConditionStays DEF PythonResults
<1>4. NotLooser(4) /\ NotLooser(11)
  BY <1>0, <1>a, ConditionStays DEF NotLooser, PythonResults
<1>6. Kept(6) /\ Kept(8)
  <2>1. /\ rules.keywords \cap request.text # {} => rules'.keywords \cap request'.text # {}
        /\ profile.keywords \cap request.text # {} => profile'.keywords \cap request'.text # {}
    BY DEF Tighter
  <2> QED
    BY <1>0, <2>1, ConditionStays DEF PythonResults
<1>7. Kept(7)
  <2>1. Matching(profile.deny) # {} => Matching(profile.deny)' # {}
    BY <1>a DEF Tighter
  <2> QED
    BY <1>0, <2>1, ConditionStays DEF PythonResults
<1>9. Kept(9) /\ Kept(10)
  <2>1. (ChannelDenied => ChannelDenied') /\ (ChannelUnknown => ChannelUnknown')
    BY DEF ChannelDenied, ChannelUnknown, Tighter
  <2>2. request'.host = request.host
    BY DEF Tighter
  <2> QED
    BY <1>0, <2>1, <2>2, Speech DEF PythonResults, When
<1>5. Kept(5) /\ Kept(12)
  <2>1. /\ rules.enforce /\ rules.allow # {} /\ Matching(rules.allow) = {}
             => rules'.enforce /\ rules'.allow # {} /\ Matching(rules.allow)' = {}
        /\ profile.enforce /\ profile.allow # {} /\ Matching(profile.allow) = {}
             => profile'.enforce /\ profile'.allow # {} /\ Matching(profile.allow)' = {}
    BY <1>a DEF Tighter
  <2> QED
    BY <1>0, <2>1, Speech DEF PythonResults, When, Outside
<1>13. Kept(13)
  <2>1. Flagged # {} => Flagged' # {}
    BY DEF Tighter
  <2> QED
    BY <2>1, Speech DEF PythonResults, When, Hit
<1> HIDE DEF Kept
<1>14. \A i \in 1..13 : i = 4 \/ i = 11 \/ Kept(i)
  <2>1. \A i \in 1..13 : i = 1 \/ i = 2 \/ i = 3 \/ i = 4 \/ i = 5 \/ i = 6 \/ i = 7
                      \/ i = 8 \/ i = 9 \/ i = 10 \/ i = 11 \/ i = 12 \/ i = 13
    OBVIOUS
  <2> QED
    BY <1>1, <1>2, <1>3, <1>5, <1>6, <1>7, <1>9, <1>13, <2>1
<1>15. \A i \in 1..13 : i = 4 \/ i = 11 \/ PythonResults'[i] = Null
                                        \/ PythonResults'[i].decision = "block"
  <2>1. BlockersInv'
    BY Blockers, PTL
  <2> QED
    BY <2>1 DEF BlockersInv
<1> QED
  BY <1>4, <1>14, <1>15 DEF NotLooser, Kept

\* What was blocked is blocked after a tightening.
LEMMA TighteningSteps ==
  ASSUME Typed, Tighten, Blocked
  PROVE  Blocked'
<1>1. Tighter
  BY ForbidTightens, NarrowTightens, LowerTightens, MinuteTightens DEF Tighten
<1>2. PICK i \in 1..13 : /\ First(PythonResults) = PythonResults[i]
                         /\ \A j \in 1..13 : j < i => PythonResults[j] = Null
  <2>1. First(PythonResults) # Default
    BY Speech DEF Blocked, PythonAnswer
  <2> QED
    BY <2>1, SomeRuleSpeaks, ThirteenRules
<1>3. PythonResults[i].decision = "block"
  BY <1>2 DEF Blocked, PythonAnswer
<1>4. /\ PythonResults'[i].decision = "block"
      /\ \A j \in 1..13 : j < i =>
           PythonResults'[j] = Null \/ PythonResults'[j].decision = "block"
  BY <1>1, <1>2, <1>3, RulesNotLooser DEF NotLooser
<1>5. DOMAIN PythonResults' = 1..13
  BY DEF PythonResults
<1>6. First(PythonResults').decision = "block"
  BY <1>4, <1>5, BlockWins
<1> QED
  BY <1>6 DEF Blocked, PythonAnswer

\* No denied entry, no used minute, no enforced or shortened allow list and no
\* lowered threshold ever lets through what was blocked.
THEOREM TighteningIsSafe == Spec => TightenNeverAllows
<1>1. PolicyInv /\ [Next]_vars => [Tighten => (Blocked => Blocked')]_vars
  BY TighteningSteps DEF PolicyInv
<1> QED
  BY <1>1, PolicyInvariant, PTL DEF Spec, TightenNeverAllows
=============================================================================
