------------------------------ MODULE MCPolicy ------------------------------
EXTENDS Policy, TLC

CONSTANTS h, yt, p, q, k, c, d, porn, hentai, neutral

MCHosts == {h, yt}
MCCovers == {<<p, h>>, <<q, h>>, <<p, yt>>}
MCLabels == {porn, hentai, neutral}
NoLimits == [l \in MCLabels |-> NoLimit]
MCConfig == [NoLimits EXCEPT ![hentai] = 2, ![neutral] = 1]

OpenProfile == [schedule |-> {}, quota |-> 0, enforce |-> FALSE, deny |-> {}, allow |-> {},
                keywords |-> {}, denyChannels |-> {}, allowChannels |-> {},
                limits |-> NoLimits]
OpenRules == [enforce |-> FALSE, deny |-> {}, allow |-> {}, keywords |-> {},
              domainRules |-> TRUE, urlRules |-> TRUE, limits |-> NoLimits]
Plain == [host |-> h, raw |-> {}, text |-> {}, channel |-> NoChannel, scores |-> [l \in MCLabels |-> Nothing],
          day |-> 0, time |-> 4, used |-> 0, panic |-> FALSE]

Maybe(x) == {{}, {x}}
Window(days, a, b) == [days |-> days, from |-> a, to |-> b, legal |-> TRUE]

\* Its end is past the last time of day ("24:00").
LateWindow == [Window({0}, 2, 9) EXCEPT !.legal = FALSE]

\* The clock and the quota.
Clock ==
  {<<[OpenProfile EXCEPT !.schedule = s, !.quota = n], OpenRules,
     [Plain EXCEPT !.time = t, !.used = u, !.panic = f]>> :
     s \in {{}, {Window({0}, 1, 2)}, {Window({0}, 2, 1)}, {Window({1}, 0, 3)},
            {Window({0}, 0, 0), Window({0}, 2, 3)}, {LateWindow}},
     n \in -1..1, t \in 1..6, u \in 0..1, f \in BOOLEAN}

\* Domains and keywords, of the household and of the profile.  A word is in
\* neither list or in one, in the decoded URL or only in the URL as written.
Words == {<<{}, {}, {}, {}>>, <<{k}, {}, {k}, {k}>>, <<{}, {k}, {}, {k}>>, <<{k}, {}, {k}, {}>>}

Lists ==
  {<<[OpenProfile EXCEPT !.deny = pd, !.allow = pa, !.enforce = pe, !.keywords = w[1]],
     [OpenRules EXCEPT !.deny = gd, !.allow = ga, !.enforce = ge, !.domainRules = dom,
                       !.keywords = w[2]],
     [Plain EXCEPT !.raw = w[3], !.text = w[4]]>> :
     pd \in Maybe(p), pa \in {{}, {p}, {p, q}}, pe \in BOOLEAN, gd \in Maybe(q),
     ga \in Maybe(p), ge \in BOOLEAN, dom \in BOOLEAN, w \in Words}

\* A URL without a host.
Hostless ==
  {<<[OpenProfile EXCEPT !.allow = pa, !.enforce = pe],
     [OpenRules EXCEPT !.allow = ga, !.enforce = ge, !.domainRules = dom],
     [Plain EXCEPT !.host = NoHost]>> :
     pa \in Maybe(p), pe \in BOOLEAN, ga \in Maybe(p), ge \in BOOLEAN, dom \in BOOLEAN}

\* YouTube channels beside domains.
Tube ==
  {<<[OpenProfile EXCEPT !.denyChannels = dc, !.allowChannels = ac, !.deny = pd, !.allow = pa],
     [OpenRules EXCEPT !.domainRules = dom, !.allow = ga],
     [Plain EXCEPT !.host = x, !.channel = ch]>> :
     dc \in Maybe(c), ac \in {{}, {c}, {c, d}}, pd \in Maybe(p), pa \in Maybe(p),
     ga \in {{}, {p}, {p, q}}, dom \in BOOLEAN, x \in {h, yt}, ch \in {c, NoChannel}}

\* Classifier scores against the thresholds of three places.
Scores ==
  {<<[OpenProfile EXCEPT !.limits[porn] = lp, !.allow = pa],
     [OpenRules EXCEPT !.limits[porn] = lr, !.limits[hentai] = lh],
     [Plain EXCEPT !.scores = s]>> :
     lp \in {NoLimit, 1, 2}, lr \in {NoLimit, 1}, lh \in {NoLimit, 3}, pa \in Maybe(p),
     s \in [MCLabels -> {Nothing, 1, 2}]}

Everything == Clock \cup Lists \cup Hostless \cup Tube \cup Scores
=============================================================================
