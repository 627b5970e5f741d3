---------------------------- MODULE BackoffMonitor ----------------------------
(***************************************************************************)
(* The quota pipeline beside a monitor that knows nothing of the reporter's *)
(* deadlines: it counts, per client, the minutes since the flush began in  *)
(* which the client's last heartbeat failed.                               *)
(***************************************************************************)
EXTENDS QuotaReporter

VARIABLE since

\* More minutes than are ever promised.
MonitorLimit == 11

Failed(ip) == failCount'[ip] > failCount[ip]

Observe ==
  since' = [ip \in IPs |-> IF Failed(ip) THEN Minimum(age, MonitorLimit)
                           ELSE IF Minute THEN Minimum(since[ip] + 1, MonitorLimit)
                           ELSE since[ip]]

monitoredVars == <<vars, since>>
MonitoredInit == Init /\ since = [ip \in IPs |-> 0]
MonitoredNext == Next /\ Observe
MonitoredSpec == MonitoredInit /\ [][MonitoredNext]_monitoredVars
MonitoredFairSpec == MonitoredSpec /\ Fairness

\* "Exponential backoff with jitter: 1m, 2m, 4m, 8m up to 10m + jitter".
Promised(c) == IF c > 4 THEN 10 ELSE <<1, 2, 4, 8>>[c]

\* The last failure in a row after which the product of a minute does not wrap.
LastExact == 28

\* A client whose last heartbeats failed is posted again only when the minutes
\* promised for that many failures have passed, through flushes that start late,
\* ticks that are dropped and capped posts; but for the 29th failure in a row and
\* later ones, when 1<<(c-1) minutes wrap and may be no time at all
\* (reporter.go:129-136).
LeftAlone ==
  \A ip \in IPs :
    req.ip = ip /\ req.status = "sent" /\ failCount[ip] \in 1..LastExact
      => since[ip] >= Promised(failCount[ip])

\* What makes it so: the minutes gone and those to wait add up, and nobody is
\* posted, or to be posted, who has to wait.
MonitorInv ==
  /\ since \in [IPs -> 0..MonitorLimit]
  /\ \A ip \in IPs :
       /\ ip \in todo \/ (req.status # "none" /\ req.ip = ip) => wait[ip] = 0
       /\ failCount[ip] \in 1..LastExact => since[ip] + wait[ip] >= Promised(failCount[ip])
=============================================================================
