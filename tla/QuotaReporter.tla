--------------------------- MODULE QuotaReporter ---------------------------
(***************************************************************************)
(* The daily-quota pipeline: the proxy's quota.Reporter (request handlers  *)
(* note activity, one goroutine accumulates and flushes every minute), the *)
(* network between them, and the API's /v1/quota handlers.                 *)
(*                                                                         *)
(* Time is counted in ticks of the 60s ticker.  A tick finds the goroutine *)
(* waiting, or is kept in the ticker's one-place channel, or is dropped.   *)
(* Local steps take no time; only heartbeats that run into the 5s client   *)
(* timeout do, and SlowPosts of them last a minute (12 in the code).       *)
(***************************************************************************)
EXTENDS Integers, FiniteSets

CONSTANTS
  IPs,          \* client addresses
  Cap,          \* maxReportedMinutes, 1440 in the code
  SlowPosts,    \* timeouts that last one tick
  MaxMinutes,   \* bound: minutes one client may ever earn
  MaxFail,      \* bound: consecutive failures of one client
  MaxAmbiguous  \* bound: minutes per client in ambiguous, and in orphaned, heartbeats

ASSUME QuotaAssumption ==
  /\ Cap \in Nat \ {0}
  /\ SlowPosts \in Nat \ {0}
  /\ MaxMinutes \in Nat
  /\ MaxFail \in Nat
  /\ MaxAmbiguous \in Nat

VARIABLES
  active,       \* ips seen in the current window
  minutes,      \* accumulated, unflushed minutes (no entry is 0)
  failCount,    \* consecutive failed heartbeats (no entry is 0)
  wait,         \* ticks until backoff[ip] is over (no entry is 0)
  pc,           \* where the Run goroutine is
  need,         \* accumulate: the window swapped out
  todo,         \* flush: snapshot of ips still to post
  req,          \* the heartbeat being posted, or none
  due,          \* a tick is in the ticker's channel
  age,          \* ticks since this flush read the clock
  stalled,      \* timeouts since the last tick
  late,         \* heartbeats the client gave up on, still on their way
  registered,   \* ips some Device row carries
  usage,        \* minutes_used of today's row
  closed,       \* minutes in rows of other days, reset or deleted
  earned,       \* history: minutes accumulated and not lost by a restart
  settled,      \* history: minutes acknowledged to the reporter
  ambiguous,    \* history: minutes of unanswered heartbeats that were sent
  orphaned      \* history: minutes committed for a device deleted before the answer

reporterVars == <<active, minutes, failCount, wait, pc, need, todo, req, age>>
timeVars     == <<due, stalled>>
apiVars      == <<late, registered, usage, closed>>
historyVars  == <<earned, settled, ambiguous, orphaned>>
vars == <<reporterVars, timeVars, apiVars, historyVars>>

Minimum(a, b) == IF a <= b THEN a ELSE b

\* The heartbeat on its way; its row committed and not read back yet; that row
\* erased with the device; a 200, or an error, on its way back.
Unanswered == {"sent", "committed", "erased", "accepted"}
Statuses == Unanswered \cup {"refused"}
NoReq == [ip |-> "none", n |-> 0, status |-> "none"]
Requests == [ip : IPs, n : 1..Cap, status : Statuses]

Recorded(ip) == usage[ip] + closed[ip]
Committed(ip) ==
  IF req.ip = ip /\ req.status \in {"committed", "accepted"} THEN req.n ELSE 0

\* 1<<k minutes in nanoseconds is 29296875 * 2^(11 + k).  In 64 bits it is 0
\* from k = 53 on, and before that it is negative when bit 52-k of the odd
\* factor is set: then the deadline is not in the future.  (Up to k = 27 the
\* product does not reach bit 63.)
MinuteFactor == 29296875
Overflows(k) == \/ k >= 53
                \/ k >= 28 /\ MinuteFactor % (2^(53 - k)) >= 2^(52 - k)

\* Mutant: a minute is shifted once too often.
BackoffShiftsFar(c) == IF c < 4 THEN 2^c ELSE IF Overflows(c) THEN 0 ELSE 10

\* Minutes of back-off after the c-th consecutive failure.
BackoffMinutes(c) ==
  LET k == c - 1
  IN  IF k < 4 THEN <<1, 2, 4, 8>>[c] ELSE IF Overflows(k) THEN 0 ELSE 10

\* The +-10s jitter decides whether the tick at the end of the back-off is
\* still too early; the deadline counts from the start of the flush.
Deadline(b, early) ==
  LET ticks == IF b = 0 \/ early THEN b ELSE b + 1
  IN IF ticks <= age THEN 0 ELSE ticks - age

Init ==
  /\ active = {} /\ need = {} /\ todo = {}
  /\ minutes = [ip \in IPs |-> 0]
  /\ failCount = [ip \in IPs |-> 0]
  /\ wait = [ip \in IPs |-> 0]
  /\ pc = "idle" /\ req = NoReq
  /\ due = FALSE /\ age = 0 /\ stalled = 0
  /\ late = {}
  /\ registered \in SUBSET IPs
  /\ usage = [ip \in IPs |-> 0]
  /\ closed = [ip \in IPs |-> 0]
  /\ earned = [ip \in IPs |-> 0]
  /\ settled = [ip \in IPs |-> 0]
  /\ ambiguous = [ip \in IPs |-> 0]
  /\ orphaned = [ip \in IPs |-> 0]

-----------------------------------------------------------------------------
(* Request handlers and the clock.                                         *)

NoteActivity(ip) ==
  /\ ip \notin active
  /\ earned[ip] < MaxMinutes
  /\ active' = active \cup {ip}
  /\ UNCHANGED <<minutes, failCount, wait, pc, need, todo, req, age,
                 timeVars, apiVars, historyVars>>

Minute ==
  /\ \/ pc = "idle" /\ ~due
     \/ pc = "flush" /\ stalled >= SlowPosts
  /\ due' = TRUE
  /\ stalled' = 0
  /\ wait' = [ip \in IPs |-> IF wait[ip] > 0 THEN wait[ip] - 1 ELSE 0]
  /\ age' = IF pc = "flush" THEN age + 1 ELSE 0
  /\ UNCHANGED <<active, minutes, failCount, pc, need, todo, req,
                 apiVars, historyVars>>

-----------------------------------------------------------------------------
(* The Run goroutine: accumulate's two critical sections, then flush.      *)

Swap ==
  /\ pc = "idle" /\ due
  /\ due' = FALSE
  /\ need' = active
  /\ active' = {}
  /\ pc' = "credit"
  /\ UNCHANGED <<minutes, failCount, wait, todo, req, age, stalled,
                 apiVars, historyVars>>

Credit ==
  /\ pc = "credit"
  /\ minutes' = [ip \in IPs |-> IF ip \in need THEN minutes[ip] + 1 ELSE minutes[ip]]
  /\ earned' = [ip \in IPs |-> IF ip \in need THEN earned[ip] + 1 ELSE earned[ip]]
  /\ need' = {}
  /\ pc' = "snapshot"
  /\ UNCHANGED <<active, failCount, wait, todo, req, age, timeVars,
                 apiVars, settled, ambiguous, orphaned>>

\* Mutant: a client that failed once is left out until it succeeds.
SnapshotDropsFailed ==
  /\ pc = "snapshot"
  /\ todo' = {ip \in IPs : minutes[ip] > 0 /\ failCount[ip] = 0}
  /\ age' = 0 /\ stalled' = 0
  /\ pc' = "flush"
  /\ UNCHANGED <<active, minutes, failCount, wait, need, req, due,
                 apiVars, historyVars>>

Snapshot ==
  /\ pc = "snapshot"
  /\ todo' = {ip \in IPs : minutes[ip] > 0 /\ wait[ip] = 0}
  /\ age' = 0 /\ stalled' = 0
  /\ pc' = "flush"
  /\ UNCHANGED <<active, minutes, failCount, wait, need, req, due,
                 apiVars, historyVars>>

Post(ip) ==
  /\ pc = "flush" /\ req = NoReq /\ ip \in todo
  /\ todo' = todo \ {ip}
  /\ req' = [ip |-> ip, n |-> Minimum(minutes[ip], Cap), status |-> "sent"]
  /\ UNCHANGED <<active, minutes, failCount, wait, pc, need, age, timeVars,
                 apiVars, historyVars>>

FlushDone ==
  /\ pc = "flush" /\ req = NoReq /\ todo = {}
  /\ pc' = "idle"
  /\ UNCHANGED <<active, minutes, failCount, wait, need, todo, req, age,
                 timeVars, apiVars, historyVars>>

\* Mutant: the counter is deleted although the post was capped.
PostOKDeletesAll ==
  /\ req.status = "accepted"
  /\ failCount' = [failCount EXCEPT ![req.ip] = 0]
  /\ wait' = [wait EXCEPT ![req.ip] = 0]
  /\ minutes' = [minutes EXCEPT ![req.ip] = 0]
  /\ settled' = [settled EXCEPT ![req.ip] = @ + req.n]
  /\ req' = NoReq
  /\ UNCHANGED <<active, pc, need, todo, age, timeVars, apiVars, earned, ambiguous,
                 orphaned>>

\* The failure branch of flush: keep the counters and back off.
BackOff(ip) ==
  /\ failCount[ip] < MaxFail
  /\ failCount' = [failCount EXCEPT ![ip] = @ + 1]
  /\ \E early \in BOOLEAN :
       wait' = [wait EXCEPT ![ip] = Deadline(BackoffMinutes(failCount'[ip]), early)]
  /\ req' = NoReq
  /\ UNCHANGED <<active, minutes, pc, need, todo, age>>

\* Mutant: a 200 whose body does not decode is taken for a failure.
PostOKAsFailure ==
  /\ req.status = "accepted"
  /\ BackOff(req.ip)
  /\ UNCHANGED <<timeVars, apiVars, historyVars>>

\* post returned nil: the answer was 200.
PostOK ==
  /\ req.status = "accepted"
  /\ failCount' = [failCount EXCEPT ![req.ip] = 0]
  /\ wait' = [wait EXCEPT ![req.ip] = 0]
  /\ minutes' = [minutes EXCEPT ![req.ip] = IF @ <= req.n THEN 0 ELSE @ - req.n]
  /\ settled' = [settled EXCEPT ![req.ip] = @ + req.n]
  /\ req' = NoReq
  /\ UNCHANGED <<active, pc, need, todo, age, timeVars, apiVars, earned, ambiguous,
                 orphaned>>

\* Mutant: a refused heartbeat falls through to the success branch.
PostRefusedForgets ==
  /\ req.status = "refused"
  /\ minutes' = [minutes EXCEPT ![req.ip] = @ - req.n]
  /\ settled' = [settled EXCEPT ![req.ip] = @ + req.n]
  /\ req' = NoReq
  /\ UNCHANGED <<active, failCount, wait, pc, need, todo, age, timeVars, apiVars,
                 earned, ambiguous, orphaned>>

\* The API answered 404 (no such device) or 503 (database busy, or row gone).
PostRefused ==
  /\ req.status = "refused"
  /\ BackOff(req.ip)
  /\ UNCHANGED <<timeVars, apiVars, historyVars>>

\* What the reporter does not know of a heartbeat it gets no answer to: the
\* API may have committed it, may still commit it, or will never see it.
Abandon(stillSent) ==
  LET ip == req.ip
      counts == Committed(ip) > 0 \/ stillSent
  IN /\ stillSent => req.status = "sent" /\ [ip |-> ip, n |-> req.n] \notin late
     /\ counts => ambiguous[ip] + req.n <= MaxAmbiguous
     /\ late' = IF stillSent THEN late \cup {[ip |-> ip, n |-> req.n]} ELSE late
     /\ ambiguous' = IF counts THEN [ambiguous EXCEPT ![ip] = @ + req.n] ELSE ambiguous
     /\ UNCHANGED <<registered, usage, closed, orphaned>>

PostTimeout ==
  /\ req.status \in Unanswered
  /\ \E stillSent \in BOOLEAN : Abandon(stillSent)
  /\ BackOff(req.ip)
  /\ stalled' = Minimum(stalled + 1, SlowPosts)
  /\ UNCHANGED <<due, earned, settled>>

\* The proxy process dies and starts again with empty maps.
Restart ==
  /\ \/ /\ req.status \in Unanswered
        /\ \E stillSent \in BOOLEAN : Abandon(stillSent)
     \/ /\ req.status \in {"none", "refused"}
        /\ UNCHANGED <<apiVars, ambiguous, orphaned>>
  /\ active' = {} /\ need' = {} /\ todo' = {}
  /\ minutes' = [ip \in IPs |-> 0]
  /\ failCount' = [ip \in IPs |-> 0]
  /\ wait' = [ip \in IPs |-> 0]
  /\ pc' = "idle" /\ req' = NoReq
  /\ due' = FALSE /\ age' = 0 /\ stalled' = 0
  /\ earned' = settled
  /\ UNCHANGED settled

-----------------------------------------------------------------------------
(* The API.  A heartbeat resolves the device by ip, upserts today's row    *)
(* and commits, all in one transaction; then it reads the row back for the *)
(* answer, in another one.                                                 *)

\* Mutant: read, add, write back without the transaction: the row is replaced.
UpsertOverwrites(ip, n) == usage' = [usage EXCEPT ![ip] = n]

Upsert(ip, n) == usage' = [usage EXCEPT ![ip] = @ + n]

HeartbeatCommit ==
  /\ req.status = "sent" /\ req.ip \in registered
  /\ Upsert(req.ip, req.n)
  /\ req' = [req EXCEPT !.status = "committed"]
  /\ UNCHANGED <<active, minutes, failCount, wait, pc, need, todo, age,
                 timeVars, late, registered, closed, historyVars>>

\* The row is read back: still there, the answer is 200.
HeartbeatReread ==
  /\ req.status = "committed"
  /\ req' = [req EXCEPT !.status = "accepted"]
  /\ UNCHANGED <<active, minutes, failCount, wait, pc, need, todo, age,
                 timeVars, apiVars, historyVars>>

\* No device, no lock on the database, or no row to read back: an error.
HeartbeatRefused ==
  /\ req.status \in {"sent", "erased"} /\ failCount[req.ip] < MaxFail
  /\ req' = [req EXCEPT !.status = "refused"]
  /\ UNCHANGED <<active, minutes, failCount, wait, pc, need, todo, age,
                 timeVars, apiVars, historyVars>>

\* A heartbeat whose client is gone is still served, or is lost.
LateArrival(h) ==
  /\ h \in late
  /\ late' = late \ {h}
  /\ \/ h.ip \in registered /\ Upsert(h.ip, h.n)
     \/ UNCHANGED usage
  /\ UNCHANGED <<registered, closed, reporterVars, timeVars, historyVars>>

\* reset_quota sets today's row to 0, and leaves the row.
ResetQuota(ip) ==
  /\ ip \in registered
  /\ closed' = [closed EXCEPT ![ip] = @ + usage[ip]]
  /\ usage' = [usage EXCEPT ![ip] = 0]
  /\ UNCHANGED <<late, registered, reporterVars, timeVars, historyVars>>

\* Deleting the device cascades to its rows; a heartbeat that has committed and
\* not read its row back will not find it.
DeleteDevice(ip) ==
  /\ ip \in registered
  /\ registered' = registered \ {ip}
  /\ closed' = [closed EXCEPT ![ip] = @ + usage[ip]]
  /\ usage' = [usage EXCEPT ![ip] = 0]
  /\ IF req.ip = ip /\ req.status = "committed"
     THEN /\ failCount[ip] < MaxFail /\ orphaned[ip] + req.n <= MaxAmbiguous
          /\ req' = [req EXCEPT !.status = "erased"]
          /\ orphaned' = [orphaned EXCEPT ![ip] = @ + req.n]
     ELSE UNCHANGED <<req, orphaned>>
  /\ UNCHANGED <<late, active, minutes, failCount, wait, pc, need, todo, age,
                 timeVars, earned, settled, ambiguous>>

\* The scanner, an admin or /v1/decide creates the Device row.
RegisterDevice(ip) ==
  /\ ip \notin registered
  /\ registered' = registered \cup {ip}
  /\ UNCHANGED <<late, usage, closed, reporterVars, timeVars, historyVars>>

\* quota_day moves on: today's rows become yesterday's.
Midnight ==
  /\ closed' = [ip \in IPs |-> Recorded(ip)]
  /\ usage' = [ip \in IPs |-> 0]
  /\ UNCHANGED <<late, registered, reporterVars, timeVars, historyVars>>

Reporter == Swap \/ Credit \/ Snapshot \/ FlushDone \/ PostOK \/ PostRefused
            \/ PostTimeout \/ \E ip \in IPs : Post(ip)

Next ==
  \/ \E ip \in IPs : NoteActivity(ip) \/ ResetQuota(ip) \/ DeleteDevice(ip)
                     \/ RegisterDevice(ip)
  \/ Minute \/ Reporter \/ Restart
  \/ HeartbeatCommit \/ HeartbeatReread \/ HeartbeatRefused
  \/ \E h \in late : LateArrival(h)
  \/ Midnight

Spec == Init /\ [][Next]_vars

\* The goroutine is scheduled, the ticker ticks and the API serves what reaches
\* it; MaxFail says that not every heartbeat fails for ever.
Fairness == /\ WF_vars(Minute) /\ WF_vars(Reporter)
            /\ WF_vars(HeartbeatCommit) /\ WF_vars(HeartbeatReread)

FairSpec == Spec /\ Fairness

-----------------------------------------------------------------------------
TypeOK ==
  /\ active \in SUBSET IPs /\ need \in SUBSET IPs /\ todo \in SUBSET IPs
  /\ minutes \in [IPs -> Nat]
  /\ failCount \in [IPs -> Nat]
  /\ wait \in [IPs -> 0..11]
  /\ pc \in {"idle", "credit", "snapshot", "flush"}
  /\ req \in Requests \cup {NoReq}
  /\ due \in BOOLEAN /\ age \in Nat /\ stalled \in Nat
  /\ late \in SUBSET [ip : IPs, n : 1..Cap]
  /\ registered \in SUBSET IPs
  /\ usage \in [IPs -> Nat] /\ closed \in [IPs -> Nat]
  /\ earned \in [IPs -> Nat] /\ settled \in [IPs -> Nat]
  /\ ambiguous \in [IPs -> Nat] /\ orphaned \in [IPs -> Nat]

\* flush forgets exactly what it sent, also when the post was capped at
\* maxReportedMinutes: what was accumulated is either still counted or settled.
Conservation == \A ip \in IPs : earned[ip] = settled[ip] + minutes[ip]

\* A minute is forgotten by the reporter only after the API committed it, and
\* the commit a reporter has not heard of yet stands for minutes it still has.
SettledIsRecorded ==
  \A ip \in IPs : settled[ip] + Committed(ip) <= Recorded(ip)

\* The heartbeat in flight carries minutes the reporter still has, so has every
\* client still to be posted, and nothing is accumulated during a flush.
PostPending ==
  /\ req.status # "none" =>
       pc = "flush" /\ req.n <= minutes[req.ip] /\ req.ip \notin todo
  /\ pc = "flush" => \A ip \in todo : minutes[ip] > 0
  /\ pc # "credit" => need = {}

\* The strengthening that is inductive.
QuotaInv == TypeOK /\ Conservation /\ SettledIsRecorded /\ PostPending

\* Minutes the reporter has kept although the API has counted them, or may have.
Excused(ip) == ambiguous[ip] + orphaned[ip]

\* The API counts a minute twice only through a heartbeat that was sent and never
\* answered, or through one answered 503 after its commit because the device was
\* deleted before the row was read back: every other retry, and every other
\* refusal, is of a heartbeat that changed nothing.
OvercountIsAmbiguous ==
  \A ip \in IPs : Recorded(ip) <= settled[ip] + Committed(ip) + Excused(ip)

\* The minutes of client ip in a set of heartbeats.  One that is still on its way
\* is ambiguous and not recorded yet, which makes the invariant above inductive.
MinutesIn(L, ip) == {p \in L \X (1..Cap) : p[1].ip = ip /\ p[2] <= p[1].n}
OvercountInv ==
  /\ IsFiniteSet(late)
  /\ \A ip \in IPs : Recorded(ip) + Cardinality(MinutesIn(late, ip))
                       <= settled[ip] + Committed(ip) + Excused(ip)

\* Once the API knows the device, its counted minutes are reported, whatever
\* fails on the way.
EventuallyReported ==
  \A ip \in IPs :
    <>[](ip \in registered) => []<>(minutes[ip] = 0)

\* The pipeline is an at-least-once meter.
Meter == INSTANCE MinuteMeter
           WITH Amounts <- 1..Cap,
                owed <- minutes,
                recorded <- [ip \in IPs |-> Recorded(ip)]

MeterRefined == Meter!MeterSpec
=============================================================================
