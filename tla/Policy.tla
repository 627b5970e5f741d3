------------------------------- MODULE Policy -------------------------------
(***************************************************************************)
(* The policy engines: policy.decide (Python), seenoevil.rego (OPA) and    *)
(* the choice between them in post_decide.  Both engines are a list of     *)
(* rules in one order of precedence, the first that says something wins.   *)
(*                                                                         *)
(* Matching of patterns, keywords and channels is given by the data.  A    *)
(* list is a set: which of several matching entries the order of the list  *)
(* reports is left open.                                                   *)
(***************************************************************************)
EXTENDS Integers

CONSTANTS
  Hosts, NoHost,        \* hosts, and the host of a URL without one
  YouTube,              \* hosts that belong to YouTube
  Patterns, Covers,     \* domain patterns, and which hosts each matches
  Keywords,
  Channels, NoChannel,  \* YouTube channels, and a URL that names none
  Labels, Harmless,     \* classifier labels, and those that never block
  ConfigLimits,         \* thresholds of the configuration file
  NoLimit,              \* a label without a threshold
  Nothing,              \* a label without a score, a reason without a detail
  Starts,               \* instances: initial profile, rules and request
  MaxUsed,              \* bound: minutes used
  MaxEdits              \* bound: edits

\* A window whose two ends are numbers, in minutes of the day.  No schema keeps
\* "24:00" or "08:60" out: it is legal if both ends are times of day.
Windows == [days : SUBSET (0..6), from : Nat, to : Nat, legal : BOOLEAN]
Limits  == [Labels -> Int \cup {NoLimit}]

\* quota is quota_minutes_per_day, which no schema bounds.
Profiles == [schedule : SUBSET Windows, quota : Int, enforce : BOOLEAN,
             deny : SUBSET Patterns, allow : SUBSET Patterns, keywords : SUBSET Keywords,
             denyChannels : SUBSET Channels, allowChannels : SUBSET Channels,
             limits : Limits]

\* The runtime settings: GlobalRules.
Rules == [enforce : BOOLEAN, deny : SUBSET Patterns, allow : SUBSET Patterns,
          keywords : SUBSET Keywords, domainRules : BOOLEAN, urlRules : BOOLEAN,
          limits : Limits]

\* raw and text are the keywords the URL contains as it is written and after
\* decoding; time is in half minutes: an odd time is past its full minute.
Requests == [host : Hosts \cup {NoHost}, raw : SUBSET Keywords, text : SUBSET Keywords,
             channel : Channels \cup {NoChannel},
             scores : [Labels -> Int \cup {Nothing}],
             day : 0..6, time : Nat, used : Nat, panic : BOOLEAN]

ASSUME PolicyAssumption ==
  /\ NoHost \notin Hosts /\ YouTube \subseteq Hosts
  /\ Covers \subseteq Patterns \X Hosts
  /\ NoChannel \notin Channels
  /\ Harmless \subseteq Labels
  /\ NoLimit \notin Int /\ Nothing \notin Int
  /\ ConfigLimits \in Limits
  /\ Starts \subseteq Profiles \X Rules \X Requests
  /\ MaxUsed \in Nat /\ MaxEdits \in Nat

VARIABLES
  profile,    \* of the device
  rules,      \* runtime settings
  request,    \* what the proxy asks about
  answer,     \* the last answer to it
  edits       \* bound

vars == <<profile, rules, request, answer, edits>>

Engines == {"python", "opa", "auto"}

Say(d, r, m) == [decision |-> d, reason |-> r, detail |-> m]
Block(r, m)  == Say("block", r, m)
Allow(r, m)  == Say("allow", r, m)
Null         == Say("none", "none", Nothing)
Default      == Allow("default", Nothing)
Relaxed      == Allow("panic_relax", Nothing)
Unavailable  == Say("error", "503", Nothing)

When(c, out) == IF c THEN out ELSE Null
OneOf(S) == CHOOSE x \in S : TRUE

\* Mutant: any allowing rule beats the blocking ones before it.
FirstAllow(results) ==
  LET speaks == {i \in DOMAIN results : results[i].decision = "allow"}
  IN  IF speaks = {}
      THEN IF \E i \in DOMAIN results : results[i] # Null
           THEN results[CHOOSE i \in DOMAIN results : results[i] # Null] ELSE Default
      ELSE results[OneOf(speaks)]

\* The first rule that says something, or the default.
First(results) ==
  LET speaks == {i \in DOMAIN results : results[i] # Null}
  IN  IF speaks = {} THEN Default
      ELSE results[CHOOSE i \in speaks : \A j \in speaks : i <= j]

-----------------------------------------------------------------------------
(* What both engines look at.                                              *)

Matching(patterns) == {p \in patterns : <<p, request.host>> \in Covers}

Limit(l) == IF profile.limits[l] # NoLimit THEN profile.limits[l]
            ELSE IF rules.limits[l] # NoLimit THEN rules.limits[l] ELSE ConfigLimits[l]

\* A setting of zero is no threshold.
SettingLimit(v) == IF v > 0 THEN v ELSE NoLimit

Exceeds(l, limit) ==
  limit # NoLimit /\ request.scores[l] # Nothing /\ request.scores[l] >= limit

-----------------------------------------------------------------------------
(* policy.decide                                                           *)

\* An end that is no time of day raises ValueError, and the window is skipped.
InWindow(w) ==
  /\ w.legal /\ request.day \in w.days
  /\ IF w.from <= w.to
     THEN 2 * w.from <= request.time /\ request.time <= 2 * w.to
     ELSE request.time >= 2 * w.from \/ request.time <= 2 * w.to

\* Mutant: only the minute at which the quota is reached is blocked.
QuotaReached == profile.quota > 0 /\ request.used = profile.quota

OverQuota == profile.quota > 0 /\ request.used >= profile.quota

Flagged == {l \in Labels \ Harmless : Exceeds(l, Limit(l))}

ChannelDenied  == request.channel \in profile.denyChannels
ChannelUnknown == /\ profile.allowChannels # {}
                  /\ request.channel \notin profile.allowChannels

Hit(r, matches) == When(matches # {}, Block(r, OneOf(matches)))
Pass(r, matches) == When(matches # {}, Allow(r, OneOf(matches)))
Outside(r, enforce, allow) ==
  When(enforce /\ allow # {} /\ Matching(allow) = {},
       Block(r, IF request.host = NoHost THEN "unknown" ELSE request.host))

PythonResults ==
  LET dom == rules.domainRules
      url == rules.urlRules
      you == dom /\ request.host \in YouTube
  IN << When(profile.schedule # {} /\ \A w \in profile.schedule : ~InWindow(w),
             Block("schedule", Nothing)),
        When(OverQuota, Block("quota", Nothing)),
        When(dom, Hit("global_deny_domain", Matching(rules.deny))),
        When(dom, Pass("global_allow_domain", Matching(rules.allow))),
        When(dom, Outside("global_not_in_allowlist", rules.enforce, rules.allow)),
        When(url, Hit("global_deny_keyword", rules.keywords \cap request.text)),
        When(dom, Hit("deny_domain", Matching(profile.deny))),
        When(url, Hit("deny_keyword", profile.keywords \cap request.text)),
        When(you /\ ChannelDenied, Block("deny_youtube_channel", Nothing)),
        When(you /\ ChannelUnknown, Block("youtube_channel_not_allowed", Nothing)),
        When(dom, Pass("allow_domain", Matching(profile.allow))),
        When(dom, Outside("not_in_allowlist", profile.enforce, profile.allow)),
        Hit("classifier", Flagged) >>

PythonAnswer == First(PythonResults)

Blocked == PythonAnswer.decision = "block"

-----------------------------------------------------------------------------
(* seenoevil.rego.  A rule has the set of values its clauses derive: none  *)
(* leaves it undefined, and two are a conflict.                            *)

\* minutes_of looks at no range.
RegoInWindow(w) ==
  LET minute == request.time \div 2
  IN  /\ request.day \in w.days
      /\ IF w.from <= w.to THEN w.from <= minute /\ minute <= w.to
                           ELSE minute >= w.from \/ minute <= w.to

\* Mutant: the thresholds of the runtime settings are not looked up.
RegoLimitSkips(l) == IF profile.limits[l] # NoLimit THEN profile.limits[l] ELSE ConfigLimits[l]

RegoLimit(l) == IF profile.limits[l] # NoLimit THEN profile.limits[l]
                ELSE IF rules.limits[l] # NoLimit THEN rules.limits[l] ELSE ConfigLimits[l]

RegoFlagged == {l \in Labels \ Harmless : Exceeds(l, RegoLimit(l))}

\* The first keyword clause looks at the URL as written, the others decode it.
RegoKeywords(keywords) ==
  LET raw == keywords \cap request.raw
  IN  IF raw # {} THEN raw ELSE keywords \cap request.text

Values(c, outs, null) == (IF c THEN outs ELSE {}) \cup (IF null THEN {Null} ELSE {})
Either(c, out) == Values(c, {out}, ~c)
Blocks(c, r, matches) ==
  Values(c, {Block(r, m) : m \in matches}, ~c \/ matches = {})
Allows(c, r, matches) ==
  Values(c, {Allow(r, m) : m \in matches}, ~c \/ matches = {})

RegoResults ==
  LET dom == rules.domainRules
      url == rules.urlRules
      you == request.host \in YouTube
      outside(enforce, allow) == dom /\ enforce /\ allow # {} /\ Matching(allow) = {}
  IN << Either(profile.schedule # {} /\ \A w \in profile.schedule : ~RegoInWindow(w),
               Block("schedule", Nothing)),
        Values(profile.quota > 0 /\ request.used >= profile.quota,
               {Block("quota", Nothing)},
               profile.quota = 0 \/ request.used < profile.quota),
        Blocks(dom, "global_deny_domain", Matching(rules.deny)),
        Allows(dom, "global_allow_domain", Matching(rules.allow)),
        Either(outside(rules.enforce, rules.allow),
               Block("global_not_in_allowlist", IF request.host = NoHost THEN "" ELSE request.host)),
        Blocks(url, "global_deny_keyword", RegoKeywords(rules.keywords)),
        Blocks(dom, "deny_domain", Matching(profile.deny)),
        Blocks(url, "deny_keyword", RegoKeywords(profile.keywords)),
        Either(you /\ ChannelDenied, Block("deny_youtube_channel", Nothing)),
        Either(you /\ ChannelUnknown, Block("youtube_channel_not_allowed", Nothing)),
        Allows(dom, "allow_domain", Matching(profile.allow)),
        Either(outside(profile.enforce, profile.allow),
               Block("not_in_allowlist", IF request.host = NoHost THEN "unknown" ELSE request.host)),
        Blocks(TRUE, "classifier", RegoFlagged) >>

Single(S) == \E x \in S : S = {x}

\* ordered_results is one comprehension: an undefined rule leaves it empty, and
\* a conflict ends the evaluation; which of them, the first such rule decides.
RegoAnswer ==
  LET results == RegoResults
      odd == {i \in DOMAIN results : ~Single(results[i])}
  IN  IF odd = {} THEN First([i \in DOMAIN results |-> OneOf(results[i])])
      ELSE IF results[CHOOSE i \in odd : \A j \in odd : i <= j] = {} THEN Default
           ELSE Unavailable

-----------------------------------------------------------------------------
(* post_decide: the engine answers, or does not.                           *)

Answer(engine, reachable) ==
  LET opa == IF reachable THEN RegoAnswer ELSE Unavailable
  IN  CASE request.panic -> Relaxed
        [] ~request.panic /\ engine = "python" -> PythonAnswer
        [] ~request.panic /\ engine = "opa" -> opa
        [] OTHER -> IF opa = Unavailable THEN PythonAnswer ELSE opa

NoAnswer == [engine |-> "none", up |-> FALSE, said |-> Null]

Decide(engine) ==
  /\ \E up \in IF engine = "python" THEN {TRUE} ELSE BOOLEAN :
       answer' = [engine |-> engine, up |-> up, said |-> Answer(engine, up)]
  /\ UNCHANGED <<profile, rules, request, edits>>

-----------------------------------------------------------------------------
(* Edits: update_profile, patch_settings, a heartbeat.                     *)

Edited == edits < MaxEdits /\ edits' = edits + 1 /\ answer' = NoAnswer

EditProfile(f, v) == /\ Edited
                     /\ profile' = [profile EXCEPT ![f] = v]
                     /\ UNCHANGED <<rules, request>>
EditRules(f, v)   == /\ Edited
                     /\ rules' = [rules EXCEPT ![f] = v]
                     /\ UNCHANGED <<profile, request>>

UseMinute == /\ Edited
             /\ request.used < MaxUsed
             /\ request' = [request EXCEPT !.used = @ + 1]
             /\ UNCHANGED <<profile, rules>>

Forbid ==
  \/ \E p \in Patterns : \/ EditProfile("deny", profile.deny \cup {p})
                         \/ EditRules("deny", rules.deny \cup {p})
  \/ \E k \in Keywords : \/ EditProfile("keywords", profile.keywords \cup {k})
                         \/ EditRules("keywords", rules.keywords \cup {k})
  \/ \E c \in Channels : EditProfile("denyChannels", profile.denyChannels \cup {c})

\* An allow list is enforced, or loses an entry that is not its last.
Narrow ==
  \/ EditProfile("enforce", TRUE)
  \/ EditRules("enforce", TRUE)
  \/ \E p \in profile.allow : /\ profile.allow # {p}
                              /\ EditProfile("allow", profile.allow \ {p})
  \/ \E p \in rules.allow : /\ rules.allow # {p}
                            /\ EditRules("allow", rules.allow \ {p})
  \/ \E c \in profile.allowChannels : /\ profile.allowChannels # {c}
                                      /\ EditProfile("allowChannels", profile.allowChannels \ {c})

\* A threshold below the one that applies now.  The settings have thresholds of
\* the blocking labels only.
Lower ==
  \E l \in Labels, v \in 0..3 :
    /\ Limit(l) # NoLimit => v <= Limit(l)
    /\ \/ EditProfile("limits", [profile.limits EXCEPT ![l] = v])
       \/ /\ v > 0 /\ l \notin Harmless
          /\ EditRules("limits", [rules.limits EXCEPT ![l] = SettingLimit(v)])

Tighten == Forbid \/ Narrow \/ Lower \/ UseMinute

\* Edits that may go either way.
Change ==
  \/ \E p \in Patterns : \/ EditProfile("allow", profile.allow \cup {p})
                         \/ EditRules("allow", rules.allow \cup {p})
  \/ \E c \in Channels : EditProfile("allowChannels", profile.allowChannels \cup {c})
  \/ \E q \in -1..1 : EditProfile("quota", q)
  \/ \E l \in Labels \ Harmless : EditRules("limits", [rules.limits EXCEPT ![l] = SettingLimit(0)])
  \/ \E on \in BOOLEAN : EditRules("domainRules", on) \/ EditRules("urlRules", on)

Init ==
  /\ \E s \in Starts : profile = s[1] /\ rules = s[2] /\ request = s[3]
  /\ answer = NoAnswer
  /\ edits = 0

Next == Tighten \/ Change \/ \E e \in Engines : Decide(e)

Spec == Init /\ [][Next]_vars

-----------------------------------------------------------------------------
TypeOK ==
  /\ profile \in Profiles /\ rules \in Rules /\ request \in Requests
  /\ \/ answer = NoAnswer
     \/ /\ answer.engine \in Engines /\ answer.up \in BOOLEAN
        /\ answer.said.decision \in {"allow", "block", "error"}
  /\ edits \in Nat

\* What both engines read alike: a quota that is no negative number, windows with
\* times of day at both ends, and a time that is not within the last, full minute
\* of a window, which Rego still counts as inside.
ReadAlike ==
  /\ profile.quota >= 0
  /\ \A w \in profile.schedule : w.legal /\ (request.time % 2 = 0 \/ w.to # request.time \div 2)

\* "Python is canonical": what policy.decide blocks, no engine lets through, OPA
\* reached or not, through every order of rules, list with several matches, word
\* found before decoding only, missing host and switched-off rule set.  OPA may
\* block more (channels without the domain rules), or fail; then auto asks Python.
OpaNeverLaxer ==
  ReadAlike /\ ~request.panic /\ answer.said.decision = "allow"
    => PythonAnswer.decision = "allow"

\* Using up minutes, denying more, enforcing or shortening an allow list and
\* lowering a threshold (but to zero in the settings) never let through what was
\* blocked: no earlier rule can be made to allow by them.
TightenNeverAllows == [][Tighten => (Blocked => Blocked')]_vars

Closed == profile.schedule # {} /\ \A w \in profile.schedule : ~InWindow(w)
Denies(list) == rules.domainRules /\ Matching(list) # {}
Word == rules.urlRules /\ (rules.keywords \cup profile.keywords) \cap request.text # {}

\* Without panic no engine, reached or not, allows outside the schedule, over the
\* quota or on a host the household denies, whatever any allow list says.  What the
\* profile denies, and a denied word of either, give way to the household's allow
\* list only, never to the profile's.
DenyWins ==
  /\ answer.engine = "python" \/ ReadAlike
  /\ ~request.panic
  /\ \/ Closed \/ OverQuota \/ Denies(rules.deny)
     \/ ~Denies(rules.allow) /\ (Word \/ Denies(profile.deny))
  => answer.said.decision # "allow"
=============================================================================
