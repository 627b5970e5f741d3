---------------------------- MODULE Proxy_proofs ----------------------------
(***************************************************************************)
(* Two components of the proxy, for every value of their constants.        *)
(*                                                                         *)
(* The quota pipeline conserves the minutes it accumulates, settles only   *)
(* what the API has recorded, counts a minute twice only when a heartbeat  *)
(* went unanswered or its device was deleted under it, and implements the  *)
(* at-least-once MinuteMeter.  A client whose heartbeats fail is left      *)
(* alone for as long as promised, until the shift overflows.               *)
(*                                                                         *)
(* The leaf cache serves the right host and never replaces a live leaf,    *)
(* for any goroutines, hosts and names; it keeps its bound until a client  *)
(* has asked for no name.                                                  *)
(***************************************************************************)
EXTENDS BackoffMonitor, LeafCache, FiniteSetTheorems, TLAPS

-----------------------------------------------------------------------------
(* The quota pipeline.                                                     *)

\* The back-off is never above ten minutes, whatever the overflow does.
LEMMA BackoffRange ==
  ASSUME NEW c \in Nat \ {0}
  PROVE  BackoffMinutes(c) \in {0, 1, 2, 4, 8, 10}
<1>1. CASE c - 1 < 4
  <2>1. c \in 1..4
    BY <1>1
  <2>2. BackoffMinutes(c) = <<1, 2, 4, 8>>[c]
    BY <1>1, Zenon DEF BackoffMinutes
  <2>3. QED
    BY <2>1, <2>2
<1>2. CASE ~ (c - 1 < 4)
  BY <1>2, Zenon DEF BackoffMinutes
<1>3. QED
  BY <1>1, <1>2, Zenon

\* A deadline is at most eleven ticks away, one of them begun.
LEMMA DeadlineRange ==
  ASSUME NEW c \in Nat \ {0}, NEW early \in BOOLEAN, age \in Nat
  PROVE  Deadline(BackoffMinutes(c), early) \in 0..11
<1> DEFINE b == BackoffMinutes(c)
<1>1. b \in {0, 1, 2, 4, 8, 10}
  BY BackoffRange
<1> HIDE DEF b
<1>2. Deadline(b, early) \in 0..11
  BY <1>1 DEF Deadline
<1>3. QED
  BY <1>2 DEF b

\* The failure branch keeps every counter and leaves a legal back-off.
LEMMA BackOffStep ==
  ASSUME TypeOK, NEW ip \in IPs, BackOff(ip)
  PROVE  /\ failCount' \in [IPs -> Nat]
         /\ wait' \in [IPs -> 0..11]
         /\ req' = NoReq
         /\ UNCHANGED <<active, minutes, pc, need, todo, age>>
<1>1. failCount' \in [IPs -> Nat] /\ failCount'[ip] \in Nat \ {0}
  BY DEF BackOff, TypeOK
<1>2. PICK early \in BOOLEAN :
        wait' = [wait EXCEPT ![ip] = Deadline(BackoffMinutes(failCount'[ip]), early)]
  BY DEF BackOff
<1>3. Deadline(BackoffMinutes(failCount'[ip]), early) \in 0..11
  BY <1>1, DeadlineRange DEF TypeOK
<1>4. wait' \in [IPs -> 0..11]
  BY <1>2, <1>3 DEF TypeOK
<1>5. QED
  BY <1>1, <1>4 DEF BackOff

\* A heartbeat in flight names a client and carries between 1 and Cap minutes.
LEMMA InFlight ==
  ASSUME TypeOK, req.status # "none"
  PROVE  /\ req \in Requests /\ req.ip \in IPs /\ req.n \in Nat /\ req.n \in 1..Cap
         /\ req.status \in Statuses
         /\ \A s \in Statuses :
              [req EXCEPT !.status = s] = [ip |-> req.ip, n |-> req.n, status |-> s]
<1>1. req \in Requests
  BY DEF TypeOK, NoReq
<1>2. QED
  BY <1>1, QuotaAssumption DEF Requests, Statuses, Unanswered

\* A reporter that has started, and no usage rows.
LEMMA InitQuotaInv == Init => QuotaInv
<1> SUFFICES ASSUME Init PROVE QuotaInv
  OBVIOUS
<1>1. TypeOK
  <2>1. /\ minutes \in [IPs -> Nat] /\ failCount \in [IPs -> Nat]
        /\ wait \in [IPs -> 0..11] /\ usage \in [IPs -> Nat] /\ closed \in [IPs -> Nat]
        /\ earned \in [IPs -> Nat] /\ settled \in [IPs -> Nat]
        /\ ambiguous \in [IPs -> Nat] /\ orphaned \in [IPs -> Nat]
    BY DEF Init
  <2>2. /\ active \in SUBSET IPs /\ need \in SUBSET IPs /\ todo \in SUBSET IPs
        /\ late \in SUBSET [ip : IPs, n : 1..Cap] /\ registered \in SUBSET IPs
        /\ req \in Requests \cup {NoReq}
    BY Zenon DEF Init
  <2>3. QED
    BY <2>1, <2>2 DEF Init, TypeOK
<1>2. Conservation
  BY DEF Init, Conservation
<1>3. SettledIsRecorded
  BY DEF Init, SettledIsRecorded, Recorded, Committed, NoReq
<1>4. PostPending
  BY DEF Init, PostPending, NoReq
<1>5. QED
  BY <1>1, <1>2, <1>3, <1>4 DEF QuotaInv

\* Giving up on a heartbeat changes the network's state only.
LEMMA AbandonStep ==
  ASSUME TypeOK, NEW stillSent \in BOOLEAN, Abandon(stillSent),
         req.ip \in IPs, req.n \in 1..Cap
  PROVE  late' \in SUBSET [ip : IPs, n : 1..Cap] /\ ambiguous' \in [IPs -> Nat]
<1>1. [ip |-> req.ip, n |-> req.n] \in [ip : IPs, n : 1..Cap]
  OBVIOUS
<1>2. late' \in SUBSET [ip : IPs, n : 1..Cap]
  BY <1>1 DEF Abandon, TypeOK
<1>3. ambiguous' \in [IPs -> Nat]
  BY QuotaAssumption DEF Abandon, TypeOK
<1>4. QED
  BY <1>2, <1>3

\* A deletion turns the minutes of a heartbeat between its commit and its answer
\* from committed into orphaned ones.
LEMMA DeleteStep ==
  ASSUME TypeOK, NEW ip \in IPs, DeleteDevice(ip)
  PROVE  /\ req' \in Requests \cup {NoReq} /\ req'.ip = req.ip /\ req'.n = req.n
         /\ req'.status # "none" => req.status # "none"
         /\ orphaned' \in [IPs -> Nat]
         /\ \A i \in IPs :
              /\ Committed(i)' <= Committed(i) /\ Committed(i)' \in Nat
              /\ Committed(i)' + orphaned'[i] = Committed(i) + orphaned[i]
<1>1. CASE req.ip = ip /\ req.status = "committed"
  <2>1. /\ req \in Requests /\ req.n \in Nat /\ req.n \in 1..Cap
        /\ req' = [ip |-> req.ip, n |-> req.n, status |-> "erased"]
        /\ orphaned' = [orphaned EXCEPT ![ip] = @ + req.n]
    BY <1>1, InFlight DEF DeleteDevice, Statuses, Unanswered
  <2>2. req' \in Requests
    BY <1>1, <2>1 DEF Requests, Statuses, Unanswered
  <2>3. \A i \in IPs : Committed(i)' = 0 /\ Committed(i) = IF i = ip THEN req.n ELSE 0
    BY <1>1, <2>1 DEF Committed
  <2>4. orphaned \in [IPs -> Nat] /\ orphaned' \in [IPs -> Nat]
    BY <2>1 DEF TypeOK
  <2>5. \A i \in IPs : orphaned'[i] = orphaned[i] + (IF i = ip THEN req.n ELSE 0)
    BY <2>1, <2>4
  <2>6. ASSUME NEW i \in IPs
        PROVE  /\ Committed(i)' <= Committed(i) /\ Committed(i)' \in Nat
               /\ Committed(i)' + orphaned'[i] = Committed(i) + orphaned[i]
    BY <2>1, <2>3, <2>4, <2>5
  <2>7. req'.ip = req.ip /\ req'.n = req.n /\ req.status # "none"
    BY <1>1, <2>1
  <2>8. QED
    BY <2>2, <2>4, <2>6, <2>7
<1>2. CASE ~(req.ip = ip /\ req.status = "committed")
  <2>1. req' = req /\ orphaned' = orphaned
    BY <1>2 DEF DeleteDevice
  <2>2. \A i \in IPs : Committed(i)' = Committed(i) /\ Committed(i) \in Nat /\ orphaned[i] \in Nat
    BY <2>1, InFlight DEF Committed, TypeOK
  <2>3. QED
    BY <2>1, <2>2 DEF TypeOK
<1>3. QED
  BY <1>1, <1>2

\* Every step of the reporter, the network and the API.
LEMMA StepQuotaInv == QuotaInv /\ [Next]_vars => QuotaInv'
<1> SUFFICES ASSUME QuotaInv, [Next]_vars PROVE QuotaInv'
  OBVIOUS
<1> USE QuotaAssumption DEF QuotaInv
<1>1. ASSUME NEW ip \in IPs, NoteActivity(ip) PROVE QuotaInv'
  <2>1. TypeOK'
    BY <1>1 DEF NoteActivity, TypeOK, Requests, reporterVars, timeVars, apiVars, historyVars
  <2>2. Conservation'
    BY <1>1 DEF NoteActivity, TypeOK, Conservation, reporterVars, timeVars, apiVars, historyVars, PostPending
  <2>3. SettledIsRecorded'
    BY <1>1 DEF NoteActivity, TypeOK, SettledIsRecorded, Recorded, Committed, Requests, NoReq, reporterVars, timeVars, apiVars, historyVars, PostPending
  <2>4. PostPending'
    BY <1>1 DEF NoteActivity, TypeOK, PostPending, Requests, NoReq, reporterVars, timeVars, apiVars, historyVars
  <2>5. QED
    BY <2>1, <2>2, <2>3, <2>4
<1>2. ASSUME Minute PROVE QuotaInv'
  <2>1. TypeOK'
    BY <1>2 DEF Minute, TypeOK, Requests, reporterVars, timeVars, apiVars, historyVars
  <2>2. Conservation'
    BY <1>2 DEF Minute, TypeOK, Conservation, reporterVars, timeVars, apiVars, historyVars, PostPending
  <2>3. SettledIsRecorded'
    BY <1>2 DEF Minute, TypeOK, SettledIsRecorded, Recorded, Committed, Requests, NoReq, reporterVars, timeVars, apiVars, historyVars, PostPending
  <2>4. PostPending'
    BY <1>2 DEF Minute, TypeOK, PostPending, Requests, NoReq, reporterVars, timeVars, apiVars, historyVars
  <2>5. QED
    BY <2>1, <2>2, <2>3, <2>4
<1>3. ASSUME Swap PROVE QuotaInv'
  <2>1. TypeOK'
    BY <1>3 DEF Swap, TypeOK, Requests, reporterVars, timeVars, apiVars, historyVars
  <2>2. Conservation'
    BY <1>3 DEF Swap, TypeOK, Conservation, reporterVars, timeVars, apiVars, historyVars, PostPending
  <2>3. SettledIsRecorded'
    BY <1>3 DEF Swap, TypeOK, SettledIsRecorded, Recorded, Committed, Requests, NoReq, reporterVars, timeVars, apiVars, historyVars, PostPending
  <2>4. PostPending'
    BY <1>3 DEF Swap, TypeOK, PostPending, Requests, NoReq, reporterVars, timeVars, apiVars, historyVars
  <2>5. QED
    BY <2>1, <2>2, <2>3, <2>4
<1>4. ASSUME Credit PROVE QuotaInv'
  <2>1. TypeOK'
    BY <1>4 DEF Credit, TypeOK, Requests, reporterVars, timeVars, apiVars, historyVars
  <2>2. Conservation'
    BY <1>4 DEF Credit, TypeOK, Conservation, reporterVars, timeVars, apiVars, historyVars, PostPending
  <2>3. SettledIsRecorded'
    BY <1>4 DEF Credit, TypeOK, SettledIsRecorded, Recorded, Committed, Requests, NoReq, reporterVars, timeVars, apiVars, historyVars, PostPending
  <2>4. PostPending'
    BY <1>4 DEF Credit, TypeOK, PostPending, Requests, NoReq, reporterVars, timeVars, apiVars, historyVars
  <2>5. QED
    BY <2>1, <2>2, <2>3, <2>4
<1>5. ASSUME Snapshot PROVE QuotaInv'
  <2>1. TypeOK'
    BY <1>5 DEF Snapshot, TypeOK, Requests, reporterVars, timeVars, apiVars, historyVars
  <2>2. Conservation'
    BY <1>5 DEF Snapshot, TypeOK, Conservation, reporterVars, timeVars, apiVars, historyVars, PostPending
  <2>3. SettledIsRecorded'
    BY <1>5 DEF Snapshot, TypeOK, SettledIsRecorded, Recorded, Committed, Requests, NoReq, reporterVars, timeVars, apiVars, historyVars, PostPending
  <2>4. PostPending'
    BY <1>5 DEF Snapshot, TypeOK, PostPending, Requests, NoReq, reporterVars, timeVars, apiVars, historyVars
  <2>5. QED
    BY <2>1, <2>2, <2>3, <2>4
<1>6. ASSUME NEW ip \in IPs, Post(ip) PROVE QuotaInv'
  <2>1. req' \in Requests /\ req'.status = "sent" /\ req'.n <= minutes[ip] /\ req'.ip = ip
    <3>1. ip \in todo /\ ip \in IPs /\ minutes[ip] \in Nat \ {0}
      BY <1>6 DEF Post, TypeOK, PostPending
    <3>2. Minimum(minutes[ip], Cap) \in 1..Cap /\ Minimum(minutes[ip], Cap) <= minutes[ip]
      BY <3>1 DEF Minimum
    <3>3. QED
      BY <1>6, <3>1, <3>2 DEF Post, Requests, Statuses, Unanswered
  <2>2. TypeOK'
    BY <1>6, <2>1 DEF Post, TypeOK, timeVars, apiVars, historyVars
  <2>3. Conservation'
    BY <1>6 DEF Post, Conservation, historyVars
  <2>4. SettledIsRecorded'
    BY <1>6, <2>1 DEF Post, TypeOK, SettledIsRecorded, Recorded, Committed, NoReq, apiVars, historyVars
  <2>5. PostPending'
    BY <1>6, <2>1 DEF Post, PostPending
  <2>6. QED
    BY <2>2, <2>3, <2>4, <2>5
<1>7. ASSUME FlushDone PROVE QuotaInv'
  <2>1. TypeOK'
    BY <1>7 DEF FlushDone, TypeOK, Requests, reporterVars, timeVars, apiVars, historyVars
  <2>2. Conservation'
    BY <1>7 DEF FlushDone, TypeOK, Conservation, reporterVars, timeVars, apiVars, historyVars, PostPending
  <2>3. SettledIsRecorded'
    BY <1>7 DEF FlushDone, TypeOK, SettledIsRecorded, Recorded, Committed, Requests, NoReq, reporterVars, timeVars, apiVars, historyVars, PostPending
  <2>4. PostPending'
    BY <1>7 DEF FlushDone, TypeOK, PostPending, Requests, NoReq, reporterVars, timeVars, apiVars, historyVars
  <2>5. QED
    BY <2>1, <2>2, <2>3, <2>4
<1>8. ASSUME PostOK PROVE QuotaInv'
  <2>1. /\ req.ip \in IPs /\ req.n \in Nat /\ req.n <= minutes[req.ip] /\ pc = "flush"
        /\ minutes[req.ip] \in Nat
    BY <1>8, InFlight DEF PostOK, PostPending, TypeOK
  <2>2. minutes' = [minutes EXCEPT ![req.ip] = @ - req.n]
    <3>1. (IF minutes[req.ip] <= req.n THEN 0 ELSE minutes[req.ip] - req.n)
            = minutes[req.ip] - req.n
      BY <2>1
    <3>2. QED
      BY <1>8, <3>1, Zenon DEF PostOK
  <2>3. TypeOK'
    <3>1. minutes' \in [IPs -> Nat]
      BY <2>1, <2>2 DEF TypeOK
    <3>2. settled' \in [IPs -> Nat] /\ wait' \in [IPs -> 0..11] /\ failCount' \in [IPs -> Nat]
      BY <1>8, <2>1 DEF PostOK, TypeOK
    <3>3. QED
      BY <1>8, <3>1, <3>2 DEF PostOK, TypeOK, timeVars, apiVars
  <2>4. Conservation'
    BY <1>8, <2>1, <2>2 DEF PostOK, TypeOK, Conservation
  <2>5. SettledIsRecorded'
    <3>1. \A ip \in IPs : Committed(ip)' = 0 /\ Recorded(ip)' = Recorded(ip)
      BY <1>8 DEF PostOK, Committed, NoReq, Recorded, apiVars
    <3>2. \A ip \in IPs : settled'[ip] = settled[ip] + Committed(ip)
      BY <1>8, <2>1 DEF PostOK, Committed, TypeOK
    <3>3. \A ip \in IPs : settled'[ip] \in Nat
      BY <2>3 DEF TypeOK
    <3>4. QED
      BY <3>1, <3>2, <3>3 DEF SettledIsRecorded
  <2>6. PostPending'
    BY <1>8, <2>1 DEF PostOK, PostPending, NoReq
  <2>7. QED
    BY <2>3, <2>4, <2>5, <2>6
<1>9. ASSUME PostRefused PROVE QuotaInv'
  <2>1. /\ req.ip \in IPs /\ req.n \in 1..Cap /\ BackOff(req.ip) /\ pc = "flush"
    BY <1>9, InFlight DEF PostRefused, PostPending
  <2>2. /\ failCount' \in [IPs -> Nat] /\ wait' \in [IPs -> 0..11] /\ req' = NoReq
        /\ UNCHANGED <<active, minutes, pc, need, todo, age>>
    BY <2>1, BackOffStep
  <2>3. UNCHANGED <<timeVars, apiVars, historyVars>>
    BY <1>9 DEF PostRefused
  <2>4. TypeOK'
    BY <1>9, <2>2, <2>3 DEF PostRefused, TypeOK, timeVars, apiVars, historyVars
  <2>5. Conservation'
    BY <1>9, <2>2 DEF PostRefused, Conservation, historyVars
  <2>6. SettledIsRecorded'
    <3>1. \A ip \in IPs : /\ Committed(ip)' = 0 /\ Recorded(ip)' = Recorded(ip)
                           /\ settled'[ip] = settled[ip] /\ settled[ip] \in Nat
                           /\ Committed(ip) \in Nat /\ Recorded(ip) \in Nat
      BY <1>9, <2>1, <2>2, <2>3 DEF PostRefused, TypeOK, Committed, NoReq, Recorded, apiVars, historyVars
    <3>2. QED
      BY <3>1 DEF SettledIsRecorded
  <2>7. PostPending'
    BY <2>1, <2>2 DEF PostPending, NoReq
  <2>8. QED
    BY <2>4, <2>5, <2>6, <2>7
<1>10. ASSUME PostTimeout PROVE QuotaInv'
  <2>1. /\ req.ip \in IPs /\ req.n \in 1..Cap /\ BackOff(req.ip) /\ pc = "flush"
    BY <1>10, InFlight DEF PostTimeout, PostPending, Unanswered
  <2>2. /\ failCount' \in [IPs -> Nat] /\ wait' \in [IPs -> 0..11] /\ req' = NoReq
        /\ UNCHANGED <<active, minutes, pc, need, todo, age>>
    BY <2>1, BackOffStep
  <2>3. /\ late' \in SUBSET [ip : IPs, n : 1..Cap] /\ ambiguous' \in [IPs -> Nat]
        /\ UNCHANGED <<registered, usage, closed, due, earned, settled, orphaned>>
        /\ stalled' \in Nat
    <3>1. PICK stillSent \in BOOLEAN : Abandon(stillSent)
      BY <1>10 DEF PostTimeout
    <3>2. late' \in SUBSET [ip : IPs, n : 1..Cap] /\ ambiguous' \in [IPs -> Nat]
      BY <2>1, <3>1, AbandonStep
    <3>3. QED
      BY <1>10, <3>1, <3>2 DEF PostTimeout, Abandon, Minimum, TypeOK
  <2>4. TypeOK'
    BY <1>10, <2>2, <2>3 DEF PostTimeout, TypeOK, timeVars, apiVars, historyVars
  <2>5. Conservation'
    BY <1>10, <2>2 DEF PostTimeout, Conservation, historyVars
  <2>6. SettledIsRecorded'
    <3>1. \A ip \in IPs : /\ Committed(ip)' = 0 /\ Recorded(ip)' = Recorded(ip)
                           /\ settled'[ip] = settled[ip] /\ settled[ip] \in Nat
                           /\ Committed(ip) \in Nat /\ Recorded(ip) \in Nat
      BY <1>10, <2>1, <2>2, <2>3 DEF PostTimeout, TypeOK, Committed, NoReq, Recorded, apiVars, historyVars
    <3>2. QED
      BY <3>1 DEF SettledIsRecorded
  <2>7. PostPending'
    BY <2>1, <2>2 DEF PostPending, NoReq
  <2>8. QED
    BY <2>4, <2>5, <2>6, <2>7
<1>11. ASSUME Restart PROVE QuotaInv'
  <2>1. /\ late' \in SUBSET [ip : IPs, n : 1..Cap] /\ ambiguous' \in [IPs -> Nat]
        /\ UNCHANGED <<registered, usage, closed, orphaned>>
    <3>1. CASE req.status \in Unanswered /\ \E stillSent \in BOOLEAN : Abandon(stillSent)
      <4>1. PICK stillSent \in BOOLEAN : Abandon(stillSent)
        BY <3>1
      <4>2. QED
        BY <3>1, <4>1, InFlight, AbandonStep DEF Abandon, Unanswered
    <3>2. CASE UNCHANGED <<apiVars, ambiguous, orphaned>>
      BY <3>2 DEF apiVars, TypeOK
    <3>3. QED
      BY <1>11, <3>1, <3>2 DEF Restart
  <2>2. TypeOK'
    <3>1. /\ minutes' \in [IPs -> Nat] /\ failCount' \in [IPs -> Nat]
          /\ wait' \in [IPs -> 0..11] /\ earned' \in [IPs -> Nat] /\ settled' \in [IPs -> Nat]
      BY <1>11 DEF Restart, TypeOK
    <3>2. QED
      BY <1>11, <2>1, <3>1 DEF Restart, TypeOK
  <2>3. Conservation'
    BY <1>11 DEF Restart, TypeOK, Conservation
  <2>4. SettledIsRecorded'
    <3>1. \A ip \in IPs : /\ Committed(ip)' = 0 /\ Recorded(ip)' = Recorded(ip)
                           /\ settled'[ip] = settled[ip] /\ settled[ip] \in Nat
                           /\ Recorded(ip) \in Nat /\ Committed(ip) \in Nat
      BY <1>11, <2>1, InFlight DEF Restart, Committed, NoReq, Recorded, TypeOK
    <3>2. QED
      BY <3>1 DEF SettledIsRecorded
  <2>5. PostPending'
    BY <1>11 DEF Restart, PostPending, NoReq
  <2>6. QED
    BY <2>2, <2>3, <2>4, <2>5
<1>12. ASSUME HeartbeatCommit PROVE QuotaInv'
  <2>1. /\ req.ip \in IPs /\ req.n \in Nat
        /\ req' = [ip |-> req.ip, n |-> req.n, status |-> "committed"]
        /\ req' \in Requests
    BY <1>12, InFlight DEF HeartbeatCommit, Requests, Statuses, Unanswered
  <2>2. TypeOK'
    <3>1. usage' \in [IPs -> Nat]
      BY <1>12, <2>1 DEF HeartbeatCommit, Upsert, TypeOK
    <3>2. QED
      BY <1>12, <2>1, <3>1 DEF HeartbeatCommit, TypeOK, timeVars, historyVars
  <2>3. Conservation'
    BY <1>12 DEF HeartbeatCommit, Conservation, historyVars
  <2>4. SettledIsRecorded'
    <3>1. \A ip \in IPs : Committed(ip) = 0
      BY <1>12 DEF HeartbeatCommit, Committed
    <3>2. \A ip \in IPs : Recorded(ip)' = Recorded(ip) + Committed(ip)'
      BY <1>12, <2>1 DEF HeartbeatCommit, Upsert, Recorded, Committed, TypeOK
    <3>3. \A ip \in IPs : Recorded(ip) \in Nat /\ settled[ip] \in Nat /\ Committed(ip)' \in Nat
      BY <2>1 DEF Recorded, Committed, TypeOK
    <3>4. UNCHANGED settled
      BY <1>12 DEF HeartbeatCommit, historyVars
    <3>5. QED
      BY <3>1, <3>2, <3>3, <3>4 DEF SettledIsRecorded
  <2>5. PostPending'
    BY <1>12, <2>1 DEF HeartbeatCommit, PostPending
  <2>6. QED
    BY <2>2, <2>3, <2>4, <2>5
<1>13. ASSUME HeartbeatRefused PROVE QuotaInv'
  <2>1. /\ req.ip \in IPs /\ req.n \in Nat
        /\ req' = [ip |-> req.ip, n |-> req.n, status |-> "refused"]
        /\ req' \in Requests
    BY <1>13, InFlight DEF HeartbeatRefused, Requests, Statuses, Unanswered
  <2>2. TypeOK'
    BY <1>13, <2>1 DEF HeartbeatRefused, TypeOK, timeVars, apiVars, historyVars
  <2>3. Conservation'
    BY <1>13 DEF HeartbeatRefused, Conservation, historyVars
  <2>4. SettledIsRecorded'
    BY <1>13, <2>1 DEF HeartbeatRefused, TypeOK, SettledIsRecorded, Recorded, Committed, apiVars, historyVars
  <2>5. PostPending'
    BY <1>13, <2>1 DEF HeartbeatRefused, PostPending
  <2>6. QED
    BY <2>2, <2>3, <2>4, <2>5
<1>14. ASSUME NEW h \in late, LateArrival(h) PROVE QuotaInv'
  <2>1. TypeOK'
    BY <1>14 DEF LateArrival, TypeOK, Requests, reporterVars, timeVars, apiVars, historyVars, Upsert, Recorded
  <2>2. Conservation'
    BY <1>14 DEF LateArrival, TypeOK, Conservation, reporterVars, timeVars, apiVars, historyVars, PostPending
  <2>3. SettledIsRecorded'
    BY <1>14 DEF LateArrival, TypeOK, SettledIsRecorded, Recorded, Committed, Requests, NoReq, reporterVars, timeVars, apiVars, historyVars, PostPending, Upsert
  <2>4. PostPending'
    BY <1>14 DEF LateArrival, TypeOK, PostPending, Requests, NoReq, reporterVars, timeVars, apiVars, historyVars
  <2>5. QED
    BY <2>1, <2>2, <2>3, <2>4
<1>15. ASSUME NEW ip \in IPs, ResetQuota(ip) PROVE QuotaInv'
  <2>1. TypeOK'
    BY <1>15 DEF ResetQuota, TypeOK, Requests, reporterVars, timeVars, apiVars, historyVars
  <2>2. Conservation'
    BY <1>15 DEF ResetQuota, TypeOK, Conservation, reporterVars, timeVars, apiVars, historyVars, PostPending
  <2>3. SettledIsRecorded'
    BY <1>15 DEF ResetQuota, TypeOK, SettledIsRecorded, Recorded, Committed, Requests, NoReq, reporterVars, timeVars, apiVars, historyVars, PostPending
  <2>4. PostPending'
    BY <1>15 DEF ResetQuota, TypeOK, PostPending, Requests, NoReq, reporterVars, timeVars, apiVars, historyVars
  <2>5. QED
    BY <2>1, <2>2, <2>3, <2>4
<1>16. ASSUME NEW ip \in IPs, DeleteDevice(ip) PROVE QuotaInv'
  <2>1. /\ req' \in Requests \cup {NoReq} /\ req'.ip = req.ip /\ req'.n = req.n
        /\ req'.status # "none" => req.status # "none"
        /\ orphaned' \in [IPs -> Nat]
        /\ \A i \in IPs : Committed(i)' <= Committed(i) /\ Committed(i)' \in Nat
    BY <1>16, DeleteStep DEF TypeOK
  <2>2. \A i \in IPs : Recorded(i)' = Recorded(i)
    BY <1>16 DEF DeleteDevice, Recorded, TypeOK
  <2>3. UNCHANGED <<late, active, minutes, failCount, wait, pc, need, todo, age,
                    timeVars, earned, settled, ambiguous>>
    BY <1>16 DEF DeleteDevice
  <2>4. TypeOK'
    <3>1. usage' \in [IPs -> Nat] /\ closed' \in [IPs -> Nat] /\ registered' \in SUBSET IPs
      BY <1>16 DEF DeleteDevice, TypeOK
    <3>2. QED
      BY <2>1, <2>3, <3>1 DEF TypeOK, timeVars
  <2>5. Conservation'
    BY <2>3 DEF Conservation
  <2>6. SettledIsRecorded'
    <3>1. \A i \in IPs : Recorded(i) \in Nat /\ settled[i] \in Nat /\ Committed(i) \in Nat
      BY InFlight DEF TypeOK, Recorded, Committed
    <3>2. QED
      BY <2>1, <2>2, <2>3, <3>1 DEF SettledIsRecorded
  <2>7. PostPending'
    BY <2>1, <2>3 DEF PostPending
  <2>8. QED
    BY <2>4, <2>5, <2>6, <2>7
<1>17. ASSUME NEW ip \in IPs, RegisterDevice(ip) PROVE QuotaInv'
  <2>1. TypeOK'
    BY <1>17 DEF RegisterDevice, TypeOK, Requests, reporterVars, timeVars, apiVars, historyVars
  <2>2. Conservation'
    BY <1>17 DEF RegisterDevice, TypeOK, Conservation, reporterVars, timeVars, apiVars, historyVars, PostPending
  <2>3. SettledIsRecorded'
    BY <1>17 DEF RegisterDevice, TypeOK, SettledIsRecorded, Recorded, Committed, Requests, NoReq, reporterVars, timeVars, apiVars, historyVars, PostPending
  <2>4. PostPending'
    BY <1>17 DEF RegisterDevice, TypeOK, PostPending, Requests, NoReq, reporterVars, timeVars, apiVars, historyVars
  <2>5. QED
    BY <2>1, <2>2, <2>3, <2>4
<1>18. ASSUME Midnight PROVE QuotaInv'
  <2>1. TypeOK'
    BY <1>18 DEF Midnight, TypeOK, Requests, reporterVars, timeVars, apiVars, historyVars, Upsert, Recorded
  <2>2. Conservation'
    BY <1>18 DEF Midnight, TypeOK, Conservation, reporterVars, timeVars, apiVars, historyVars, PostPending
  <2>3. SettledIsRecorded'
    BY <1>18 DEF Midnight, TypeOK, SettledIsRecorded, Recorded, Committed, Requests, NoReq, reporterVars, timeVars, apiVars, historyVars, PostPending, Upsert
  <2>4. PostPending'
    BY <1>18 DEF Midnight, TypeOK, PostPending, Requests, NoReq, reporterVars, timeVars, apiVars, historyVars
  <2>5. QED
    BY <2>1, <2>2, <2>3, <2>4
<1>19. ASSUME UNCHANGED vars PROVE QuotaInv'
  BY <1>19 DEF vars, reporterVars, timeVars, apiVars, historyVars, TypeOK, Conservation, SettledIsRecorded, PostPending, Recorded, Committed
<1>20. ASSUME HeartbeatReread PROVE QuotaInv'
  <2>1. /\ req.ip \in IPs /\ req.n \in Nat
        /\ req' = [ip |-> req.ip, n |-> req.n, status |-> "accepted"]
        /\ req' \in Requests
    BY <1>20, InFlight DEF HeartbeatReread, Requests, Statuses, Unanswered
  <2>2. TypeOK'
    BY <1>20, <2>1 DEF HeartbeatReread, TypeOK, timeVars, apiVars, historyVars
  <2>3. Conservation'
    BY <1>20 DEF HeartbeatReread, Conservation, historyVars
  <2>4. SettledIsRecorded'
    <3>1. \A ip \in IPs : Committed(ip)' = Committed(ip) /\ Recorded(ip)' = Recorded(ip)
      BY <1>20, <2>1 DEF HeartbeatReread, Committed, Recorded, apiVars
    <3>2. QED
      BY <1>20, <3>1 DEF HeartbeatReread, SettledIsRecorded, historyVars
  <2>5. PostPending'
    BY <1>20, <2>1 DEF HeartbeatReread, PostPending
  <2>6. QED
    BY <2>2, <2>3, <2>4, <2>5
<1>21. QED
  BY <1>1, <1>2, <1>3, <1>4, <1>5, <1>6, <1>7, <1>8, <1>9, <1>10, <1>11, <1>12, <1>13, <1>14, <1>15, <1>16, <1>17, <1>18, <1>19, <1>20 DEF Next, Reporter

\* The type invariant and the two accounting invariants hold for every number
\* of clients, every cap and every bound.
THEOREM QuotaSafe == Spec => []QuotaInv
<1>1. Init => QuotaInv
  BY InitQuotaInv
<1>2. QuotaInv /\ [Next]_vars => QuotaInv'
  BY StepQuotaInv
<1>3. QED
  BY <1>1, <1>2, PTL DEF Spec

\* What the API has recorded is never behind what the reporter has forgotten.
THEOREM SettledIsRecordedAlways == Spec => []SettledIsRecorded
  BY QuotaSafe, PTL DEF QuotaInv

\* Capping a post at maxReportedMinutes or a failed post loses no minute.
THEOREM ConservationAlways == Spec => []Conservation
  BY QuotaSafe, PTL DEF QuotaInv

-----------------------------------------------------------------------------
(* Refinement.                                                             *)

\* Steps that touch neither the counters nor the rows are stutters.
LEMMA Unrecorded ==
  ASSUME UNCHANGED <<minutes, usage, closed, settled>>
  PROVE  UNCHANGED Meter!meterVars
  BY DEF Meter!meterVars, Recorded

\* Rows that leave today or are erased still count as recorded.
LEMMA RowsMove ==
  ASSUME TypeOK, NEW S \in SUBSET IPs, UNCHANGED <<minutes, settled>>,
         closed' = [ip \in IPs |-> IF ip \in S THEN closed[ip] + usage[ip] ELSE closed[ip]],
         usage' = [ip \in IPs |-> IF ip \in S THEN 0 ELSE usage[ip]]
  PROVE  UNCHANGED Meter!meterVars
<1>1. \A ip \in IPs : Recorded(ip)' = Recorded(ip)
  BY DEF Recorded, TypeOK
<1>2. QED
  BY <1>1 DEF Meter!meterVars

\* An upsert is the meter's Record step.
LEMMA UpsertRecords ==
  ASSUME TypeOK, NEW ip \in IPs, NEW n \in 1..Cap, Upsert(ip, n),
         UNCHANGED <<minutes, closed, settled>>
  PROVE  Meter!Record(ip, n)
<1>1. \A i \in IPs : Recorded(i)' = IF i = ip THEN Recorded(i) + n ELSE Recorded(i)
  BY QuotaAssumption DEF Upsert, Recorded, TypeOK
<1>2. QED
  BY <1>1 DEF Meter!Record

\* The initial states are those of the meter.
LEMMA InitMeter == Init => Meter!MeterInit
  BY DEF Init, Meter!MeterInit, Recorded

\* Every step is one of the meter, or none.
LEMMA StepMeter == QuotaInv /\ [Next]_vars => [Meter!MeterNext]_Meter!meterVars
<1> SUFFICES ASSUME QuotaInv, [Next]_vars PROVE [Meter!MeterNext]_Meter!meterVars
  OBVIOUS
<1> USE DEF QuotaInv
<1>1. CASE Credit
  <2>1. Meter!Earn(need)
    BY <1>1 DEF Credit, Meter!Earn, apiVars, Recorded
  <2>2. QED
    BY <2>1 DEF Meter!MeterNext, TypeOK
<1>2. CASE HeartbeatCommit
  <2>1. req.ip \in IPs /\ req.n \in 1..Cap
    BY <1>2, InFlight DEF HeartbeatCommit
  <2>2. Meter!Record(req.ip, req.n)
    BY <1>2, <2>1, UpsertRecords DEF HeartbeatCommit, historyVars
  <2>3. QED
    BY <2>1, <2>2 DEF Meter!MeterNext
<1>3. ASSUME NEW h \in late, LateArrival(h)
      PROVE [Meter!MeterNext]_Meter!meterVars
  <2>1. h.ip \in IPs /\ h.n \in 1..Cap
    BY DEF TypeOK
  <2>2. CASE Upsert(h.ip, h.n)
    <3>1. Meter!Record(h.ip, h.n)
      BY <1>3, <2>1, <2>2, UpsertRecords DEF LateArrival, reporterVars, historyVars
    <3>2. QED
      BY <2>1, <3>1 DEF Meter!MeterNext
  <2>3. CASE UNCHANGED usage
    BY <1>3, <2>3, Unrecorded DEF LateArrival, reporterVars, historyVars
  <2>4. QED
    BY <1>3, <2>2, <2>3 DEF LateArrival
<1>4. CASE PostOK
  <2>1. /\ req.ip \in IPs /\ req.n \in 1..Cap /\ req.n \in Nat /\ req.n <= minutes[req.ip]
        /\ minutes[req.ip] \in Nat
    BY <1>4, InFlight DEF PostOK, PostPending, TypeOK
  <2>2. settled[req.ip] + req.n <= Recorded(req.ip)
    BY <1>4, <2>1 DEF PostOK, SettledIsRecorded, Committed
  <2>3. minutes' = [minutes EXCEPT ![req.ip] = @ - req.n]
    <3>1. (IF minutes[req.ip] <= req.n THEN 0 ELSE minutes[req.ip] - req.n)
            = minutes[req.ip] - req.n
      BY <2>1
    <3>2. QED
      BY <1>4, <3>1, Zenon DEF PostOK
  <2>4. Meter!Settle(req.ip, req.n)
    BY <1>4, <2>1, <2>2, <2>3 DEF PostOK, Meter!Settle, apiVars, Recorded
  <2>5. QED
    BY <2>1, <2>4 DEF Meter!MeterNext
<1>5. CASE Restart
  <2>1. UNCHANGED <<usage, closed>>
    BY <1>5 DEF Restart, Abandon, apiVars
  <2>2. Meter!Forget
    BY <1>5, <2>1 DEF Restart, Meter!Forget, Recorded
  <2>3. QED
    BY <2>2 DEF Meter!MeterNext
<1>6. ASSUME NEW ip \in IPs, ResetQuota(ip) \/ DeleteDevice(ip)
      PROVE [Meter!MeterNext]_Meter!meterVars
  <2>1. UNCHANGED <<minutes, settled>>
    BY <1>6 DEF ResetQuota, DeleteDevice, reporterVars, historyVars
  <2>2. /\ closed' = [i \in IPs |-> IF i \in {ip} THEN closed[i] + usage[i] ELSE closed[i]]
        /\ usage' = [i \in IPs |-> IF i \in {ip} THEN 0 ELSE usage[i]]
    BY <1>6 DEF ResetQuota, DeleteDevice, TypeOK
  <2>3. QED
    BY <2>1, <2>2, RowsMove
<1>7. CASE Midnight
  <2>1. /\ closed' = [i \in IPs |-> IF i \in IPs THEN closed[i] + usage[i] ELSE closed[i]]
        /\ usage' = [i \in IPs |-> IF i \in IPs THEN 0 ELSE usage[i]]
    BY <1>7 DEF Midnight, Recorded, TypeOK
  <2>2. QED
    BY <1>7, <2>1, RowsMove DEF Midnight, reporterVars, historyVars
<1>8. CASE PostRefused \/ PostTimeout
  BY <1>8, Unrecorded DEF PostRefused, PostTimeout, BackOff, Abandon, apiVars, historyVars
<1>9. CASE Minute \/ Swap \/ Snapshot \/ FlushDone \/ HeartbeatReread \/ HeartbeatRefused
  BY <1>9, Unrecorded
  DEF Minute, Swap, Snapshot, FlushDone, HeartbeatReread, HeartbeatRefused, apiVars, historyVars
<1>10. ASSUME NEW ip \in IPs, NoteActivity(ip) \/ RegisterDevice(ip) \/ Post(ip)
       PROVE [Meter!MeterNext]_Meter!meterVars
  BY <1>10, Unrecorded
  DEF NoteActivity, RegisterDevice, Post, apiVars, historyVars, reporterVars
<1>11. CASE UNCHANGED vars
  BY <1>11, Unrecorded DEF vars, reporterVars, apiVars, historyVars
<1>12. QED
  BY <1>1, <1>2, <1>3, <1>4, <1>5, <1>6, <1>7, <1>8, <1>9, <1>10, <1>11
  DEF Next, Reporter

\* The quota pipeline delivers every minute it settles, at least once.
THEOREM QuotaImplementsMeter == Spec => MeterRefined
<1>1. Init => Meter!MeterInit
  BY InitMeter
<1>2. QuotaInv /\ [Next]_vars => [Meter!MeterNext]_Meter!meterVars
  BY StepMeter
<1>3. QED
  BY <1>1, <1>2, QuotaSafe, PTL DEF Spec, MeterRefined, Meter!MeterSpec

\* The reporter's maps and the request in flight stay well formed, the back-off
\* of tickHandler between 0 and 11 ticks.
THEOREM QuotaTypesAlways == Spec => []TypeOK
  BY QuotaSafe, PTL DEF QuotaInv

-----------------------------------------------------------------------------
(* Overcounting.                                                           *)

Late == [ip : IPs, n : 1..Cap]

\* The minutes of finitely many heartbeats are finitely many.
LEMMA MinutesFinite ==
  ASSUME NEW L, IsFiniteSet(L), NEW ip
  PROVE  IsFiniteSet(MinutesIn(L, ip)) /\ Cardinality(MinutesIn(L, ip)) \in Nat
<1>1. IsFiniteSet(L \X (1..Cap))
  <2>1. 1 \in Int /\ Cap \in Int
    BY QuotaAssumption
  <2>2. IsFiniteSet(1..Cap)
    BY <2>1, FS_Interval
  <2>3. QED
    BY <2>2, FS_Product
<1>2. MinutesIn(L, ip) \in SUBSET (L \X (1..Cap))
  BY DEF MinutesIn
<1>3. IsFiniteSet(MinutesIn(L, ip))
  BY <1>1, <1>2, FS_Subset
<1>4. QED
  BY <1>3, FS_CardinalityType

\* One more heartbeat on its way carries its minutes, for its own client.
LEMMA MinutesAdd ==
  ASSUME NEW L \in SUBSET Late, IsFiniteSet(L), NEW h \in Late, h \notin L, NEW ip \in IPs
  PROVE  Cardinality(MinutesIn(L \cup {h}, ip))
           = Cardinality(MinutesIn(L, ip)) + (IF h.ip = ip THEN h.n ELSE 0)
<1> DEFINE S == MinutesIn(L, ip)
           T == {h} \X (1..h.n)
<1>1. IsFiniteSet(S) /\ Cardinality(S) \in Nat
  BY MinutesFinite
<1>2. h.n \in Nat /\ h.n \in 1..Cap /\ h.n <= Cap /\ h.n >= 1 /\ Cap \in Nat
  BY QuotaAssumption DEF Late
<1>3. CASE h.ip = ip
  <2>1. IsFiniteSet(T) /\ Cardinality(T) = h.n
    <3>1. IsFiniteSet(1..h.n) /\ Cardinality(1..h.n) = h.n
      BY <1>2, FS_Interval
    <3>2. IsFiniteSet({h}) /\ Cardinality({h}) = 1
      BY FS_Singleton
    <3>3. IsFiniteSet(T) /\ Cardinality(T) = 1 * h.n
      BY <3>1, <3>2, FS_Product
    <3>4. QED
      BY <1>2, <3>3
  <2>2. MinutesIn(L \cup {h}, ip) = S \cup T
    <3>1. \A k : k \in 1..h.n <=> k \in 1..Cap /\ k <= h.n
      BY <1>2
    <3>2. ASSUME NEW p PROVE p \in MinutesIn(L \cup {h}, ip) <=> p \in S \cup T
      BY <1>3, <3>1 DEF MinutesIn
    <3>3. QED
      BY <3>2
  <2>3. S \cap T = {}
    BY DEF MinutesIn
  <2>4. Cardinality(S \cup T) = Cardinality(S) + Cardinality(T) - Cardinality(S \cap T)
    BY <1>1, <2>1, FS_Union
  <2>5. QED
    <3>1. Cardinality(S \cap T) = 0
      BY <2>3, FS_EmptySet
    <3> HIDE DEF S, T
    <3>2. Cardinality(S \cup T) = Cardinality(S) + h.n
      BY <1>1, <1>2, <2>1, <2>4, <3>1
    <3>3. QED
      BY <1>3, <2>2, <3>2 DEF S
<1>4. CASE h.ip # ip
  <2>1. MinutesIn(L \cup {h}, ip) = S
    BY <1>4 DEF MinutesIn
  <2>2. QED
    BY <1>1, <1>4, <2>1
<1>5. QED
  BY <1>3, <1>4

\* One heartbeat less on its way.
LEMMA MinutesRemove ==
  ASSUME NEW L \in SUBSET Late, IsFiniteSet(L), NEW h \in L, NEW ip \in IPs
  PROVE  Cardinality(MinutesIn(L, ip))
           = Cardinality(MinutesIn(L \ {h}, ip)) + (IF h.ip = ip THEN h.n ELSE 0)
<1>1. IsFiniteSet(L \ {h}) /\ L = (L \ {h}) \cup {h} /\ h \in Late /\ h \notin L \ {h}
  BY FS_RemoveElement
<1>2. L \ {h} \in SUBSET Late
  OBVIOUS
<1>3. Cardinality(MinutesIn((L \ {h}) \cup {h}, ip))
        = Cardinality(MinutesIn(L \ {h}, ip)) + (IF h.ip = ip THEN h.n ELSE 0)
  BY <1>1, <1>2, MinutesAdd
<1>4. QED
  BY <1>1, <1>3

\* Giving up on a heartbeat: its minutes are ambiguous once the API has them, or
\* may still get them.
LEMMA AbandonCounts ==
  ASSUME TypeOK, OvercountInv, NEW stillSent \in BOOLEAN, Abandon(stillSent),
         req.status \in Unanswered
  PROVE  /\ IsFiniteSet(late')
         /\ \A ip \in IPs :
              Recorded(ip) + Cardinality(MinutesIn(late', ip)) <= settled[ip] + Excused(ip)'
<1>1. req.ip \in IPs /\ req.n \in 1..Cap /\ req.n \in Nat
  BY InFlight DEF Unanswered
<1> DEFINE h == [ip |-> req.ip, n |-> req.n]
<1>2. h \in Late /\ h.ip = req.ip /\ h.n = req.n /\ late \in SUBSET Late
  BY <1>1 DEF Late, TypeOK
<1>3. \A ip \in IPs : /\ Recorded(ip) \in Nat /\ settled[ip] \in Nat /\ Excused(ip) \in Nat
                      /\ Cardinality(MinutesIn(late, ip)) \in Nat
                      /\ Committed(ip) \in Nat
                      /\ ip # req.ip => Committed(ip) = 0
                      /\ Committed(ip) # 0 => Committed(ip) = req.n
  BY <1>1, MinutesFinite DEF TypeOK, Recorded, Committed, Excused, OvercountInv
<1>4. CASE stillSent
  <2>1. h \notin late /\ late' = late \cup {h} /\ req.status = "sent"
    BY <1>4 DEF Abandon
  <2>2. ambiguous' = [ambiguous EXCEPT ![req.ip] = @ + req.n]
    BY <1>4 DEF Abandon
  <2>3. IsFiniteSet(late')
    BY <2>1, FS_AddElement DEF OvercountInv
  <2>4. ASSUME NEW ip \in IPs
        PROVE Recorded(ip) + Cardinality(MinutesIn(late', ip)) <= settled[ip] + Excused(ip)'
    <3>1. Cardinality(MinutesIn(late', ip))
            = Cardinality(MinutesIn(late, ip)) + (IF req.ip = ip THEN req.n ELSE 0)
      BY <1>2, <2>1, MinutesAdd DEF OvercountInv
    <3>2. Excused(ip)' = Excused(ip) + (IF req.ip = ip THEN req.n ELSE 0)
      <4>1. orphaned' = orphaned
        BY DEF Abandon
      <4>2. QED
        BY <1>1, <2>2, <4>1 DEF TypeOK, Excused
    <3>3. Recorded(ip) + Cardinality(MinutesIn(late, ip)) <= settled[ip] + Excused(ip)
      <4>1. Committed(ip) = 0
        BY <2>1 DEF Committed
      <4>2. QED
        BY <1>3, <4>1 DEF OvercountInv
    <3>4. QED
      BY <1>1, <1>3, <3>1, <3>2, <3>3
  <2>5. QED
    BY <2>3, <2>4
<1>5. CASE ~stillSent
  <2>1. late' = late
    BY <1>5 DEF Abandon
  <2>2. /\ orphaned' = orphaned
        /\ ambiguous' = IF Committed(req.ip) > 0
                        THEN [ambiguous EXCEPT ![req.ip] = @ + req.n] ELSE ambiguous
    BY <1>5 DEF Abandon
  <2>3. \A ip \in IPs : Excused(ip)' = Excused(ip) + Committed(ip)
    <3>1. CASE Committed(req.ip) > 0
      BY <1>1, <1>3, <2>2, <3>1 DEF TypeOK, Excused
    <3>2. CASE ~(Committed(req.ip) > 0)
      <4>1. \A ip \in IPs : Committed(ip) = 0
        BY <1>1, <1>3, <3>2
      <4>2. QED
        BY <1>3, <2>2, <3>2, <4>1 DEF Excused
    <3>3. QED
      BY <3>1, <3>2
  <2>4. IsFiniteSet(late')
    BY <2>1 DEF OvercountInv
  <2>5. \A ip \in IPs : Recorded(ip) + Cardinality(MinutesIn(late, ip))
                          <= settled[ip] + Committed(ip) + Excused(ip)
    BY DEF OvercountInv
  <2>6. \A ip \in IPs : Committed(ip) \in Nat
    BY <1>1, <1>3
  <2>7. \A ip \in IPs : Recorded(ip) + Cardinality(MinutesIn(late, ip))
                          <= settled[ip] + Excused(ip)'
    BY <1>3, <2>3, <2>5, <2>6
  <2>8. QED
    BY <2>1, <2>4, <2>7
<1>6. QED
  BY <1>4, <1>5

\* Steps that leave the heartbeats on their way, and record no more than they
\* settle, keep the invariant.
LEMMA SameLate ==
  ASSUME QuotaInv, OvercountInv, QuotaInv', late' = late,
         \A ip \in IPs : Recorded(ip)' + settled[ip] + Committed(ip) + Excused(ip)
                           <= Recorded(ip) + settled'[ip] + Committed(ip)' + Excused(ip)'
  PROVE  OvercountInv'
<1>1. ASSUME NEW ip \in IPs
      PROVE  /\ Recorded(ip) \in Nat /\ settled[ip] \in Nat /\ Excused(ip) \in Nat
             /\ Committed(ip) \in Nat /\ Cardinality(MinutesIn(late, ip)) \in Nat
  BY InFlight, MinutesFinite
  DEF QuotaInv, TypeOK, Recorded, Committed, Excused, OvercountInv, NoReq
<1>2. ASSUME NEW ip \in IPs
      PROVE  /\ Recorded(ip)' \in Nat /\ settled'[ip] \in Nat /\ Excused(ip)' \in Nat
             /\ Committed(ip)' \in Nat
  BY QuotaAssumption DEF QuotaInv, TypeOK, Recorded, Committed, Excused, NoReq, Requests
<1>3. QED
  BY <1>1, <1>2 DEF OvercountInv

\* A heartbeat on its way is counted as ambiguous before it is recorded.
LEMMA StepOvercount == QuotaInv /\ OvercountInv /\ [Next]_vars => OvercountInv'
<1> SUFFICES ASSUME QuotaInv, OvercountInv, [Next]_vars PROVE OvercountInv'
  OBVIOUS
<1>1. QuotaInv'
  BY StepQuotaInv
<1> USE QuotaAssumption
<1>2. TypeOK
  BY DEF QuotaInv
<1>3. \A ip \in IPs : /\ Recorded(ip) \in Nat /\ settled[ip] \in Nat /\ Excused(ip) \in Nat
                      /\ Committed(ip) \in Nat
  BY <1>2, InFlight DEF TypeOK, Recorded, Committed, Excused, NoReq
\* Steps that change none of the amounts.
<1>4. CASE /\ UNCHANGED <<late, settled, ambiguous, orphaned>>
           /\ \A ip \in IPs : Recorded(ip)' = Recorded(ip) /\ Committed(ip)' = Committed(ip)
  BY <1>1, <1>3, <1>4, SameLate DEF Excused
<1>5. CASE UNCHANGED <<apiVars, req, settled, ambiguous, orphaned>>
  BY <1>4, <1>5 DEF apiVars, Recorded, Committed
<1>6. ASSUME NEW ip \in IPs, NoteActivity(ip) \/ RegisterDevice(ip) PROVE OvercountInv'
  BY <1>4, <1>6 DEF NoteActivity, RegisterDevice, apiVars, historyVars, reporterVars, Recorded, Committed
<1>7. CASE Minute \/ Swap \/ Credit \/ Snapshot \/ FlushDone
  BY <1>5, <1>7 DEF Minute, Swap, Credit, Snapshot, FlushDone, historyVars
<1>8. ASSUME NEW ip \in IPs, Post(ip) PROVE OvercountInv'
  BY <1>4, <1>8 DEF Post, apiVars, historyVars, Recorded, Committed, NoReq
<1>9. CASE PostOK
  <2>1. req.ip \in IPs /\ req.n \in Nat
    BY <1>2, <1>9, InFlight DEF PostOK
  <2>2. \A ip \in IPs : /\ Recorded(ip)' = Recorded(ip) /\ Committed(ip)' = 0
                         /\ settled'[ip] = settled[ip] + Committed(ip)
    BY <1>2, <1>9, <2>1 DEF PostOK, apiVars, Recorded, Committed, NoReq, TypeOK
  <2>3. late' = late /\ ambiguous' = ambiguous /\ orphaned' = orphaned
    BY <1>9 DEF PostOK, apiVars
  <2>4. QED
    BY <1>1, <1>3, <2>2, <2>3, SameLate DEF Excused
<1>10. CASE PostRefused
  <2>1. req' = NoReq /\ \A ip \in IPs : Committed(ip) = 0
    BY <1>10 DEF PostRefused, BackOff, Committed
  <2>2. \A ip \in IPs : Committed(ip)' = 0 /\ Recorded(ip)' = Recorded(ip)
    BY <1>10, <2>1 DEF PostRefused, apiVars, Committed, Recorded, NoReq
  <2>3. QED
    BY <1>4, <1>10, <2>1, <2>2 DEF PostRefused, apiVars, historyVars
<1>11. ASSUME NEW stillSent \in BOOLEAN, Abandon(stillSent), req' = NoReq, settled' = settled,
              req.status \in Unanswered
       PROVE  OvercountInv'
  <2>1. /\ IsFiniteSet(late')
        /\ \A ip \in IPs :
             Recorded(ip) + Cardinality(MinutesIn(late', ip)) <= settled[ip] + Excused(ip)'
    BY <1>2, <1>11, AbandonCounts
  <2>2. \A ip \in IPs : Committed(ip)' = 0 /\ Recorded(ip)' = Recorded(ip) /\ Excused(ip)' \in Nat
    BY <1>1, <1>11 DEF Abandon, Committed, Recorded, Excused, NoReq, QuotaInv, TypeOK
  <2>3. \A ip \in IPs : settled'[ip] + Committed(ip)' + Excused(ip)' = settled[ip] + Excused(ip)'
    BY <1>3, <1>11, <2>2
  <2>4. QED
    BY <2>1, <2>2, <2>3 DEF OvercountInv
<1>12. CASE PostTimeout
  <2>1. req' = NoReq /\ settled' = settled
    BY <1>12 DEF PostTimeout, BackOff
  <2>2. QED
    BY <1>11, <1>12, <2>1 DEF PostTimeout
<1>13. CASE Restart
  <2>1. CASE req.status \in Unanswered /\ \E stillSent \in BOOLEAN : Abandon(stillSent)
    BY <1>11, <1>13, <2>1 DEF Restart
  <2>2. CASE req.status \in {"none", "refused"} /\ UNCHANGED <<apiVars, ambiguous, orphaned>>
    <3>1. \A ip \in IPs : Committed(ip)' = Committed(ip) /\ Recorded(ip)' = Recorded(ip)
      BY <1>13, <2>2 DEF Restart, apiVars, Committed, Recorded, NoReq
    <3>2. QED
      BY <1>4, <1>13, <2>2, <3>1 DEF Restart, apiVars
  <2>3. QED
    BY <1>13, <2>1, <2>2 DEF Restart
<1>14. CASE HeartbeatCommit
  <2>1. /\ req.ip \in IPs /\ req.n \in Nat
        /\ req' = [ip |-> req.ip, n |-> req.n, status |-> "committed"]
    BY <1>2, <1>14, InFlight DEF HeartbeatCommit
  <2>2. \A ip \in IPs : /\ Committed(ip) = 0
                        /\ Recorded(ip)' = Recorded(ip) + Committed(ip)'
    BY <1>2, <1>14, <2>1 DEF HeartbeatCommit, Upsert, Recorded, Committed, TypeOK
  <2>3. \A ip \in IPs : Committed(ip)' \in Nat
    BY <2>1 DEF Committed
  <2>4. late' = late /\ UNCHANGED <<settled, ambiguous, orphaned>>
    BY <1>14 DEF HeartbeatCommit, historyVars
  <2>5. QED
    BY <1>1, <1>3, <2>2, <2>3, <2>4, SameLate DEF Excused
<1>15. CASE HeartbeatRefused
  <2>1. \A ip \in IPs : Committed(ip) = 0 /\ Committed(ip)' = 0
    BY <1>2, <1>15, InFlight DEF HeartbeatRefused, Committed
  <2>2. QED
    BY <1>4, <1>15, <2>1 DEF HeartbeatRefused, apiVars, historyVars, Recorded
<1>16. ASSUME NEW h \in late, LateArrival(h) PROVE OvercountInv'
  <2>1. late \in SUBSET Late /\ h.ip \in IPs /\ h.n \in 1..Cap /\ h.n \in Nat /\ IsFiniteSet(late)
    BY <1>2 DEF TypeOK, Late, OvercountInv
  <2>2. late' = late \ {h} /\ IsFiniteSet(late')
    BY <1>16, <2>1, FS_RemoveElement DEF LateArrival
  <2>3. ASSUME NEW ip \in IPs
        PROVE  /\ Recorded(ip)' <= Recorded(ip) + (IF h.ip = ip THEN h.n ELSE 0)
               /\ Recorded(ip)' \in Nat
    BY <1>2, <1>3, <1>16, <2>1 DEF LateArrival, Upsert, Recorded, TypeOK
  <2>4. ASSUME NEW ip \in IPs
        PROVE  /\ Cardinality(MinutesIn(late, ip))
                    = Cardinality(MinutesIn(late', ip)) + (IF h.ip = ip THEN h.n ELSE 0)
               /\ Cardinality(MinutesIn(late', ip)) \in Nat
    BY <2>1, <2>2, MinutesRemove, MinutesFinite
  <2>5. settled' = settled /\ \A ip \in IPs : /\ Committed(ip)' = Committed(ip)
                                                /\ Excused(ip)' = Excused(ip)
    BY <1>16 DEF LateArrival, reporterVars, historyVars, Committed, Excused
  <2>6. ASSUME NEW ip \in IPs
        PROVE  Recorded(ip)' + Cardinality(MinutesIn(late', ip))
                 <= settled'[ip] + Committed(ip)' + Excused(ip)'
    <3>1. Recorded(ip) + Cardinality(MinutesIn(late, ip))
            <= settled[ip] + Committed(ip) + Excused(ip)
      BY DEF OvercountInv
    <3>2. Recorded(ip)' + Cardinality(MinutesIn(late', ip))
            <= Recorded(ip) + Cardinality(MinutesIn(late, ip))
      BY <1>3, <2>1, <2>3, <2>4
    <3>3. QED
      BY <1>3, <2>1, <2>3, <2>4, <2>5, <3>1, <3>2
  <2>7. QED
    BY <2>2, <2>6 DEF OvercountInv
<1>17. ASSUME NEW ip \in IPs, ResetQuota(ip) PROVE OvercountInv'
  <2>1. \A i \in IPs : Recorded(i)' = Recorded(i) /\ Committed(i)' = Committed(i)
    BY <1>2, <1>17 DEF ResetQuota, reporterVars, Recorded, Committed, TypeOK
  <2>2. QED
    BY <1>4, <1>17, <2>1 DEF ResetQuota, historyVars
<1>18. CASE Midnight
  <2>1. \A i \in IPs : Recorded(i)' = Recorded(i) /\ Committed(i)' = Committed(i)
    BY <1>2, <1>18 DEF Midnight, reporterVars, Recorded, Committed, TypeOK
  <2>2. QED
    BY <1>4, <1>18, <2>1 DEF Midnight, historyVars
<1>19. CASE UNCHANGED vars
  BY <1>5, <1>19 DEF vars, reporterVars, historyVars
<1>20. CASE HeartbeatReread
  <2>1. \A ip \in IPs : Committed(ip)' = Committed(ip)
    BY <1>2, <1>20, InFlight DEF HeartbeatReread, Committed, Statuses, Unanswered
  <2>2. QED
    BY <1>4, <1>20, <2>1 DEF HeartbeatReread, apiVars, historyVars, Recorded
<1>21. ASSUME NEW ip \in IPs, DeleteDevice(ip) PROVE OvercountInv'
  <2>1. \A i \in IPs : /\ Committed(i)' \in Nat /\ orphaned'[i] \in Nat
                        /\ Committed(i)' + orphaned'[i] = Committed(i) + orphaned[i]
    BY <1>2, <1>21, DeleteStep
  <2>2. \A i \in IPs : Recorded(i)' = Recorded(i)
    BY <1>2, <1>21 DEF DeleteDevice, Recorded, TypeOK
  <2>3. UNCHANGED <<late, settled, ambiguous>>
    BY <1>21 DEF DeleteDevice
  <2>4. \A i \in IPs : ambiguous[i] \in Nat /\ orphaned[i] \in Nat
    BY <1>2 DEF TypeOK
  <2>5. QED
    BY <1>1, <1>3, <2>1, <2>2, <2>3, <2>4, SameLate DEF Excused
<1>22. QED
  BY <1>6, <1>7, <1>8, <1>9, <1>10, <1>12, <1>13, <1>14, <1>15, <1>16, <1>17, <1>18, <1>19,
     <1>20, <1>21
  DEF Next, Reporter

\* Nothing is on its way at first.
LEMMA InitOvercount == Init => OvercountInv
<1> SUFFICES ASSUME Init PROVE OvercountInv
  OBVIOUS
<1>1. IsFiniteSet(late) /\ \A ip \in IPs : MinutesIn(late, ip) = {}
  BY FS_EmptySet DEF Init, MinutesIn
<1>2. \A ip \in IPs : Cardinality(MinutesIn(late, ip)) = 0
  BY <1>1, FS_EmptySet
<1>3. \A ip \in IPs : /\ Recorded(ip) = 0 /\ Committed(ip) = 0
                      /\ settled[ip] = 0 /\ Excused(ip) = 0
  BY DEF Init, Recorded, Committed, Excused, NoReq
<1>4. QED
  BY <1>1, <1>2, <1>3 DEF OvercountInv

\* The heartbeat handler adds what it is sent, without a key that would show a
\* repetition: for any clients and failures a minute is counted twice only by a
\* heartbeat that was sent and never answered, or by one refused after its commit
\* because its device was deleted in between.
THEOREM OvercountIsAmbiguousAlways == Spec => []OvercountIsAmbiguous
<1>1. QuotaInv /\ OvercountInv => OvercountIsAmbiguous
  <2> SUFFICES ASSUME QuotaInv, OvercountInv, NEW ip \in IPs
               PROVE  Recorded(ip) <= settled[ip] + Committed(ip) + Excused(ip)
    BY DEF OvercountIsAmbiguous
  <2>1. Cardinality(MinutesIn(late, ip)) \in Nat
    BY MinutesFinite DEF OvercountInv
  <2>2. /\ Recorded(ip) \in Nat /\ settled[ip] \in Nat /\ Excused(ip) \in Nat
        /\ Committed(ip) \in Nat
    BY InFlight DEF QuotaInv, TypeOK, Recorded, Committed, Excused, NoReq
  <2>3. QED
    BY <2>1, <2>2 DEF OvercountInv
<1>2. QuotaInv /\ OvercountInv /\ [Next]_vars => OvercountInv'
  BY StepOvercount
<1>3. QED
  BY <1>1, <1>2, InitOvercount, QuotaSafe, PTL DEF Spec

-----------------------------------------------------------------------------
(* The back-off.                                                           *)

\* The table of the doc comment, up to the failure whose shift overflows.
LEMMA BackoffTable ==
  ASSUME NEW c \in 1..LastExact
  PROVE  BackoffMinutes(c) = Promised(c) /\ Promised(c) \in {1, 2, 4, 8, 10}
<1> USE DEF LastExact
<1>1. CASE c \in 1..4
  <2>1. c - 1 < 4 /\ ~(c > 4)
    BY <1>1
  <2>2. BackoffMinutes(c) = <<1, 2, 4, 8>>[c]
    BY <2>1, Zenon DEF BackoffMinutes
  <2>3. Promised(c) = <<1, 2, 4, 8>>[c]
    BY <2>1, Zenon DEF Promised
  <2>4. QED
    BY <1>1, <2>2, <2>3
<1>2. CASE c \in 5..28
  <2>1. c > 4 /\ ~(c - 1 < 4) /\ ~(c - 1 >= 28) /\ ~(c - 1 >= 53)
    BY <1>2
  <2>2. ~Overflows(c - 1)
    BY <2>1, Zenon DEF Overflows
  <2>3. BackoffMinutes(c) = 10
    BY <2>1, <2>2, Zenon DEF BackoffMinutes
  <2>4. QED
    BY <2>1, <2>3 DEF Promised
<1>3. QED
  BY <1>1, <1>2

\* What is left of a back-off, counted from the start of the flush.
LEMMA DeadlineCovers ==
  ASSUME NEW b \in {1, 2, 4, 8, 10}, NEW early \in BOOLEAN, age \in Nat
  PROVE  Deadline(b, early) + age >= b
  BY DEF Deadline

\* A step that adds to the failures of a client is the failure of its heartbeat;
\* any other resets them, or lets the client's deadline come nearer with the clock.
LEMMA FailureIsBackOff ==
  ASSUME TypeOK, [Next]_vars, NEW ip \in IPs
  PROVE  \/ Failed(ip) /\ BackOff(ip) /\ req.ip = ip
         \/ ~Failed(ip) /\ failCount'[ip] = 0
         \/ ~Failed(ip) /\ failCount'[ip] = failCount[ip] /\ wait'[ip] = wait[ip]
         \/ Minute /\ ~Failed(ip) /\ failCount'[ip] = failCount[ip]
<1>1. failCount[ip] \in Nat /\ failCount \in [IPs -> Nat] /\ wait \in [IPs -> 0..11]
  BY DEF TypeOK
<1>2. CASE PostRefused \/ PostTimeout
  <2>1. BackOff(req.ip)
    BY <1>2 DEF PostRefused, PostTimeout
  <2>2. CASE ip = req.ip
    <3>1. BackOff(ip)
      BY <2>1, <2>2
    <3>2. failCount'[ip] = failCount[ip] + 1
      BY <1>1, <3>1 DEF BackOff
    <3>3. QED
      BY <1>1, <2>2, <3>1, <3>2 DEF Failed
  <2>3. CASE ip # req.ip
    <3>1. failCount'[ip] = failCount[ip]
      BY <1>1, <2>1, <2>3 DEF BackOff
    <3>2. wait'[ip] = wait[ip]
      BY <1>1, <2>1, <2>3 DEF BackOff
    <3>3. QED
      BY <1>1, <3>1, <3>2 DEF Failed
  <2>4. QED
    BY <2>2, <2>3
<1>3. CASE PostOK \/ Restart
  BY <1>1, <1>3 DEF PostOK, Restart, Failed
<1>4. CASE Minute
  BY <1>1, <1>4 DEF Minute, Failed
<1>5. CASE UNCHANGED <<failCount, wait>>
  BY <1>1, <1>5 DEF Failed
<1>6. QED
  BY <1>2, <1>3, <1>4, <1>5
  DEF Next, Reporter, vars, reporterVars, NoteActivity, ResetQuota, DeleteDevice,
      RegisterDevice, Swap, Credit, Snapshot, FlushDone, Post, HeartbeatCommit,
      HeartbeatReread, HeartbeatRefused, LateArrival, Midnight

\* Nobody is posted, or to be posted, who has to wait.
LEMMA PostedInTime ==
  ASSUME QuotaInv, MonitorInv, [Next]_vars, NEW ip \in IPs,
         ip \in todo' \/ (req'.status # "none" /\ req'.ip = ip)
  PROVE  wait'[ip] = 0
<1>1. /\ wait \in [IPs -> 0..11] /\ todo \in SUBSET IPs /\ req \in Requests \cup {NoReq}
      /\ ip \in todo \/ (req.status # "none" /\ req.ip = ip) => wait[ip] = 0
  BY DEF QuotaInv, TypeOK, MonitorInv
<1>2. req.status # "none" => req.ip \notin todo /\ pc = "flush" /\ req \in Requests
  BY <1>1 DEF QuotaInv, PostPending, NoReq
<1>3. CASE PostRefused \/ PostTimeout
  <2>1. BackOff(req.ip) /\ req.status # "none"
    BY <1>3 DEF PostRefused, PostTimeout, Unanswered
  <2>2. req' = NoReq /\ todo' = todo
    BY <2>1 DEF BackOff
  <2>3. ip \in todo /\ ip # req.ip
    BY <1>2, <2>1, <2>2 DEF NoReq
  <2>4. wait'[ip] = wait[ip]
    BY <1>1, <2>1, <2>3 DEF BackOff
  <2>5. QED
    BY <1>1, <2>3, <2>4
<1>4. CASE PostOK
  <2>1. req' = NoReq /\ todo' = todo /\ wait' = [wait EXCEPT ![req.ip] = 0]
    BY <1>4 DEF PostOK
  <2>2. QED
    BY <1>1, <2>1 DEF NoReq
<1>5. CASE Restart
  BY <1>5 DEF Restart
<1>6. CASE Minute
  <2>1. wait'[ip] = (IF wait[ip] > 0 THEN wait[ip] - 1 ELSE 0) /\ UNCHANGED <<todo, req>>
    BY <1>6 DEF Minute
  <2>2. QED
    BY <1>1, <2>1
<1>7. CASE Snapshot
  <2>1. req' = req /\ req.status = "none" /\ wait' = wait
    BY <1>2, <1>7 DEF Snapshot
  <2>2. QED
    BY <1>7, <2>1 DEF Snapshot
<1>8. ASSUME NEW i \in IPs, Post(i) PROVE wait'[ip] = 0
  <2>1. i \in todo /\ req'.ip = i /\ todo' \subseteq todo /\ wait' = wait
    BY <1>8 DEF Post
  <2>2. QED
    BY <1>1, <2>1
<1>9. CASE UNCHANGED <<wait, todo, req>>
  BY <1>1, <1>9
<1>10. CASE HeartbeatCommit \/ HeartbeatReread \/ HeartbeatRefused
  <2>1. req.status # "none"
    BY <1>10 DEF HeartbeatCommit, HeartbeatReread, HeartbeatRefused
  <2>2. req'.ip = req.ip /\ UNCHANGED <<wait, todo>>
    BY <1>2, <1>10, <2>1 DEF HeartbeatCommit, HeartbeatReread, HeartbeatRefused, Requests
  <2>3. QED
    BY <1>1, <2>1, <2>2
<1>11. ASSUME NEW i \in IPs, DeleteDevice(i) PROVE wait'[ip] = 0
  <2>1. UNCHANGED <<wait, todo>>
    BY <1>11 DEF DeleteDevice
  <2>2. CASE req' = req
    BY <1>1, <2>1, <2>2
  <2>3. CASE req' # req
    <3>1. req.status = "committed" /\ req' = [req EXCEPT !.status = "erased"]
      BY <1>11, <2>3 DEF DeleteDevice
    <3>2. req'.ip = req.ip
      BY <1>2, <3>1 DEF Requests
    <3>3. QED
      BY <1>1, <2>1, <3>1, <3>2
  <2>4. QED
    BY <2>2, <2>3
<1>12. QED
  BY <1>3, <1>4, <1>5, <1>6, <1>7, <1>8, <1>9, <1>10, <1>11
  DEF Next, Reporter, vars, reporterVars, NoteActivity, ResetQuota,
      RegisterDevice, Swap, Credit, FlushDone, LateArrival, Midnight

\* The minutes gone and those to wait add up to what was promised.
LEMMA WaitAddsUp ==
  ASSUME QuotaInv, QuotaInv', MonitorInv, [Next]_vars, Observe, NEW ip \in IPs,
         failCount'[ip] \in 1..LastExact
  PROVE  since'[ip] + wait'[ip] >= Promised(failCount'[ip])
<1> DEFINE c == failCount'[ip]
<1>1. /\ TypeOK /\ since[ip] \in 0..11 /\ age \in Nat
      /\ wait[ip] \in 0..11 /\ wait'[ip] \in 0..11
  BY DEF QuotaInv, TypeOK, MonitorInv, MonitorLimit
<1>2. Promised(c) \in {1, 2, 4, 8, 10} /\ BackoffMinutes(c) = Promised(c)
  BY BackoffTable
<1>3. /\ failCount[ip] = c => since[ip] + wait[ip] >= Promised(c)
      /\ c # 0
  BY DEF MonitorInv
<1>4. CASE Failed(ip) /\ BackOff(ip)
  <2>1. since'[ip] = Minimum(age, 11)
    BY <1>4 DEF Observe, MonitorLimit
  <2>2. PICK early \in BOOLEAN : wait' = [wait EXCEPT ![ip] = Deadline(BackoffMinutes(c), early)]
    BY <1>4 DEF BackOff
  <2>3. wait'[ip] = Deadline(Promised(c), early)
    BY <1>1, <1>2, <2>2 DEF TypeOK
  <2> HIDE DEF c
  <2>4. wait'[ip] + age >= Promised(c)
    BY <1>1, <1>2, <2>3, DeadlineCovers
  <2>5. since'[ip] + wait'[ip] >= Promised(c)
    BY <1>1, <1>2, <2>1, <2>4 DEF Minimum
  <2>6. QED
    BY <2>5 DEF c
<1>5. CASE ~Failed(ip) /\ c = failCount[ip] /\ wait'[ip] = wait[ip]
  <2>1. since'[ip] = since[ip] \/ since'[ip] = Minimum(since[ip] + 1, 11)
    BY <1>5 DEF Observe, MonitorLimit
  <2> HIDE DEF c
  <2>2. since'[ip] >= since[ip] /\ since'[ip] \in 0..11
    BY <1>1, <2>1 DEF Minimum
  <2>3. since'[ip] + wait'[ip] >= Promised(c)
    BY <1>1, <1>2, <1>3, <1>5, <2>2
  <2>4. QED
    BY <2>3 DEF c
<1>6. CASE Minute /\ ~Failed(ip) /\ c = failCount[ip]
  <2>1. since'[ip] = Minimum(since[ip] + 1, 11)
    BY <1>6 DEF Observe, MonitorLimit
  <2>2. wait'[ip] = IF wait[ip] > 0 THEN wait[ip] - 1 ELSE 0
    BY <1>6 DEF Minute
  <2> HIDE DEF c
  <2>3. since'[ip] + wait'[ip] >= Promised(c)
    BY <1>1, <1>2, <1>3, <1>6, <2>1, <2>2 DEF Minimum
  <2>4. QED
    BY <2>3 DEF c
<1>7. QED
  BY <1>1, <1>3, <1>4, <1>5, <1>6, FailureIsBackOff

\* Whatever the reporter, the network and the API do.
LEMMA StepMonitorInv ==
  QuotaInv /\ QuotaInv' /\ MonitorInv /\ [MonitoredNext]_monitoredVars => MonitorInv'
<1> SUFFICES ASSUME QuotaInv, QuotaInv', MonitorInv, [MonitoredNext]_monitoredVars
             PROVE  MonitorInv'
  OBVIOUS
<1>1. CASE UNCHANGED monitoredVars
  BY <1>1 DEF monitoredVars, vars, reporterVars, MonitorInv
<1>2. CASE MonitoredNext
  <2>1. since' \in [IPs -> 0..MonitorLimit]
    BY <1>2 DEF MonitoredNext, Observe, MonitorInv, MonitorLimit, Minimum, QuotaInv, TypeOK
  <2>2. [Next]_vars /\ Observe
    BY <1>2 DEF MonitoredNext
  <2>3. QED
    BY <2>1, <2>2, PostedInTime, WaitAddsUp DEF MonitorInv
<1>3. QED
  BY <1>1, <1>2

\* "1m, 2m, 4m, 8m up to 10m": for any clients, caps and bounds a client whose
\* heartbeats fail is posted again only after the minutes promised, as long as the
\* shift does not overflow.  (reporter.go, flush)
THEOREM LeftAloneAlways == MonitoredSpec => []LeftAlone
<1>1. MonitoredInit => QuotaInv /\ MonitorInv
  <2> SUFFICES ASSUME MonitoredInit PROVE QuotaInv /\ MonitorInv
    OBVIOUS
  <2>1. QuotaInv
    BY InitQuotaInv DEF MonitoredInit
  <2>2. MonitorInv
    BY DEF MonitoredInit, Init, MonitorInv, MonitorLimit, LastExact, NoReq
  <2>3. QED
    BY <2>1, <2>2
<1>2. QuotaInv /\ MonitorInv /\ [MonitoredNext]_monitoredVars => QuotaInv' /\ MonitorInv'
  <2> SUFFICES ASSUME QuotaInv, MonitorInv, [MonitoredNext]_monitoredVars
               PROVE  QuotaInv' /\ MonitorInv'
    OBVIOUS
  <2>1. [Next]_vars
    BY DEF MonitoredNext, monitoredVars
  <2>2. QuotaInv'
    BY <2>1, StepQuotaInv
  <2>3. QED
    BY <2>2, StepMonitorInv
<1>3. QuotaInv /\ MonitorInv => LeftAlone
  <2> SUFFICES ASSUME QuotaInv, MonitorInv, NEW ip \in IPs,
                      req.ip = ip, req.status = "sent", failCount[ip] \in 1..LastExact
               PROVE  since[ip] >= Promised(failCount[ip])
    BY DEF LeftAlone
  <2>1. wait[ip] = 0 /\ since[ip] \in 0..11
    BY DEF MonitorInv, MonitorLimit
  <2>2. since[ip] + wait[ip] >= Promised(failCount[ip])
    BY DEF MonitorInv
  <2>3. QED
    BY <2>1, <2>2
<1>4. QED
  BY <1>1, <1>2, <1>3, PTL DEF MonitoredSpec

-----------------------------------------------------------------------------
(* The leaf cache.                                                         *)

\* The inductive invariant of the bound: the cache is also finite.
SizeInv == HostInv /\ BoundedWhileNamed /\ IsFiniteSet(Cached)

\* The scan evicts entries of the cache only, or nothing.
LEMMA VictimsAreCached == ASSUME NEW gone \in Victims PROVE gone \subseteq Cached
<1> DEFINE others == Cached \ {EmptyHost}
           after(P) == IF \A g \in P : lastUsed[EmptyHost] < lastUsed[g]
                       THEN others \ P ELSE others
<1>1. CASE EmptyHost \notin Cached
  BY <1>1 DEF Victims, Oldest
<1>2. CASE EmptyHost \in Cached
  <2>1. PICK P \in SUBSET others :
          gone \in IF after(P) = {} THEN {{}} ELSE {{h} : h \in Oldest(after(P))}
    BY <1>2 DEF Victims
  <2>2. after(P) \subseteq Cached
    OBVIOUS
  <2>3. QED
    BY <2>1, <2>2 DEF Oldest
<1>3. QED
  BY <1>1, <1>2

\* Without the empty key in the cache the scan finds exactly one victim.
LEMMA VictimIsOne ==
  ASSUME EmptyHost \notin Cached, NEW gone \in Victims
  PROVE  \E v \in Cached : gone = {v}
<1>1. gone \in {{h} : h \in Oldest(Cached)}
  BY DEF Victims
<1>2. QED
  BY <1>1 DEF Oldest

\* The empty key itself is never a victim.
LEMMA EmptyKeyStays == ASSUME NEW gone \in Victims PROVE EmptyHost \notin gone
<1> DEFINE others == Cached \ {EmptyHost}
           after(P) == IF \A g \in P : lastUsed[EmptyHost] < lastUsed[g]
                       THEN others \ P ELSE others
<1>1. CASE EmptyHost \notin Cached
  BY <1>1 DEF Victims, Oldest
<1>2. CASE EmptyHost \in Cached
  <2>1. PICK P \in SUBSET others :
          gone \in IF after(P) = {} THEN {{}} ELSE {{h} : h \in Oldest(after(P))}
    BY <1>2 DEF Victims
  <2>2. EmptyHost \notin after(P)
    OBVIOUS
  <2>3. QED
    BY <2>1, <2>2 DEF Oldest
<1>3. QED
  BY <1>1, <1>2

\* A second lookup that misses: the leaf goes in, with or without an eviction.
LEMMA InsertStep ==
  ASSUME NEW t \in Threads, Insert(t), Canon[name[t]] \notin Cached
  PROVE  \E gone \in SUBSET Cached :
           /\ Add(t, Canon[name[t]], gone)
           /\ UNCHANGED <<clock, cfg, name>>
           /\ at' = [at EXCEPT ![t] = "serve"]
           /\ IF Cardinality(Cached) >= MaxEntries THEN gone \in Victims ELSE gone = {}
<1>1. /\ UNCHANGED <<clock, cfg, name>>
      /\ at' = [at EXCEPT ![t] = "serve"]
      /\ IF Cardinality(Cached) >= MaxEntries
         THEN \E gone \in Victims : Add(t, Canon[name[t]], gone)
         ELSE Add(t, Canon[name[t]], {})
  BY DEF Insert, Hit
<1>2. CASE Cardinality(Cached) >= MaxEntries
  BY <1>1, <1>2, VictimsAreCached
<1>3. CASE ~ (Cardinality(Cached) >= MaxEntries)
  BY <1>1, <1>3
<1>4. QED
  BY <1>2, <1>3

\* What an insertion leaves in the cache.
LEMMA AddStep ==
  ASSUME CacheTypeOK, NEW t \in Threads, NEW h \in Hosts, NEW gone \in SUBSET Cached,
         Add(t, h, gone)
  PROVE  /\ Cached' = (Cached \ gone) \cup {h}
         /\ \A g \in Cached \ (gone \cup {h}) : leaf'[g] = leaf[g]
  BY DEF Add, Cached, CacheTypeOK

\* An empty cache.
LEMMA CacheInitInv == CacheInit => SizeInv
<1> SUFFICES ASSUME CacheInit PROVE SizeInv
  OBVIOUS
<1>1. Cached = {}
  BY DEF CacheInit, Cached
<1>2. BoundedWhileNamed /\ IsFiniteSet(Cached)
  BY <1>1, FS_EmptySet, LeafCacheAssumption DEF Bounded, BoundedWhileNamed
<1>3. CacheTypeOK
  BY DEF CacheInit, CacheTypeOK
<1>4. RightHost /\ Holding
  BY <1>1 DEF CacheInit, RightHost, Holding
<1>5. QED
  BY <1>2, <1>3, <1>4 DEF SizeInv, HostInv

\* A hit changes when the entry was used last, and nothing else of the cache.
LEMMA HitStep ==
  ASSUME CacheTypeOK, NEW t \in Threads, NEW h \in Hosts, Hit(t, h)
  PROVE  /\ Cached' = Cached /\ leaf' = leaf /\ clock' = clock
         /\ lastUsed' \in [Hosts -> Nat]
         /\ cfg' = [cfg EXCEPT ![t] = leaf[h]]
         /\ at' = [at EXCEPT ![t] = "serve"]
         /\ h \in Cached
  BY DEF Hit, Cached, CacheTypeOK

\* A hit on the host of the goroutine's name keeps the invariant.
LEMMA HitKeeps ==
  ASSUME HostInv, NEW t \in Threads, NEW n \in Names, Hit(t, Canon[n]),
         name' = [name EXCEPT ![t] = n]
  PROVE  HostInv'
<1> USE LeafCacheAssumption DEF HostInv
<1>1. Canon[n] \in Hosts
  OBVIOUS
<1>2. /\ Cached' = Cached /\ leaf' = leaf /\ clock' = clock
      /\ lastUsed' \in [Hosts -> Nat]
      /\ cfg' = [cfg EXCEPT ![t] = leaf[Canon[n]]]
      /\ at' = [at EXCEPT ![t] = "serve"]
      /\ Canon[n] \in Cached
  BY <1>1, HitStep
<1>3. CacheTypeOK'
  BY <1>1, <1>2 DEF CacheTypeOK
<1>4. RightHost'
  BY <1>1, <1>2 DEF RightHost, CacheTypeOK
<1>5. Holding'
  BY <1>2 DEF Holding, CacheTypeOK
<1>6. QED
  BY <1>3, <1>4, <1>5

\* Every other step leaves the cache and its leaves as they are.
LEMMA OtherSteps ==
  ASSUME HostInv, [CacheNext]_cacheVars
  PROVE  \/ \E t \in Threads : Insert(t) /\ Canon[name[t]] \notin Cached
         \/ Cached' = Cached /\ leaf' = leaf
<1> USE LeafCacheAssumption DEF HostInv
<1>1. ASSUME NEW t \in Threads,
             \/ Mint(t) \/ MintFails(t) \/ Serve(t) \/ Lookup(t)
             \/ Insert(t) /\ Canon[name[t]] \in Cached
      PROVE  Cached' = Cached /\ leaf' = leaf
  <2>1. CASE \E h \in Hosts : Hit(t, h)
    BY <2>1, HitStep
  <2>2. CASE UNCHANGED <<lastUsed, leaf>>
    BY <2>2 DEF Cached
  <2>3. Canon[name[t]] \in Hosts /\ \A n \in Names : Canon[n] \in Hosts
    BY DEF CacheTypeOK
  <2>4. QED
    BY <1>1, <2>1, <2>2, <2>3 DEF Mint, MintFails, Serve, Lookup, Insert
<1>2. CASE Tick \/ UNCHANGED cacheVars
  BY <1>2 DEF Tick, cacheVars, Cached
<1>3. QED
  BY <1>1, <1>2 DEF CacheNext

\* Hits, mints, insertions and handshakes; an eviction may take anything.
LEMMA StepHostInv == HostInv /\ [CacheNext]_cacheVars => HostInv'
<1> SUFFICES ASSUME HostInv, [CacheNext]_cacheVars PROVE HostInv'
  OBVIOUS
<1> USE LeafCacheAssumption DEF HostInv
<1>1. ASSUME NEW t \in Threads, Lookup(t) PROVE HostInv'
  <2>1. PICK n \in Names :
          /\ name' = [name EXCEPT ![t] = n]
          /\ \/ Hit(t, Canon[n])
             \/ /\ Canon[n] \notin Cached
                /\ at' = [at EXCEPT ![t] = "mint"]
                /\ UNCHANGED <<clock, lastUsed, leaf, cfg>>
    BY <1>1 DEF Lookup
  <2>2. CASE Hit(t, Canon[n])
    BY <2>1, <2>2, HitKeeps
  <2>3. CASE at' = [at EXCEPT ![t] = "mint"] /\ UNCHANGED <<clock, lastUsed, leaf, cfg>>
    <3>1. cfg[t] = NoCert
      BY <1>1 DEF Lookup, Holding
    <3>2. CacheTypeOK'
      BY <2>1, <2>3 DEF CacheTypeOK
    <3>3. RightHost' /\ Holding'
      BY <2>1, <2>3, <3>1 DEF CacheTypeOK, RightHost, Holding, Cached
    <3>4. QED
      BY <3>2, <3>3
  <2>4. QED
    BY <2>1, <2>2, <2>3
<1>2. ASSUME NEW t \in Threads, Mint(t) PROVE HostInv'
  <2>1. [host |-> Canon[name[t]], by |-> t, until |-> clock + Lifetime] \in Certs
    BY DEF CacheTypeOK, Certs
  <2>2. CacheTypeOK'
    BY <1>2, <2>1 DEF Mint, CacheTypeOK
  <2>3. RightHost' /\ Holding'
    BY <1>2, <2>1 DEF Mint, RightHost, Holding, CacheTypeOK, Cached
  <2>4. QED
    BY <2>2, <2>3
<1>3. ASSUME NEW t \in Threads, Insert(t) PROVE HostInv'
  <2> DEFINE h == Canon[name[t]]
  <2>1. name[t] \in Names /\ h \in Hosts
    BY DEF CacheTypeOK
  <2>2. CASE h \in Cached
    <3>1. Hit(t, h) /\ name' = [name EXCEPT ![t] = name[t]]
      BY <1>3, <2>2 DEF Insert, CacheTypeOK
    <3>2. QED
      BY <2>1, <3>1, HitKeeps
  <2>3. CASE h \notin Cached
    <3>1. PICK gone \in SUBSET Cached :
            /\ Add(t, h, gone)
            /\ UNCHANGED <<clock, cfg, name>>
            /\ at' = [at EXCEPT ![t] = "serve"]
      BY <1>3, <2>3, InsertStep
    <3>2. cfg[t] \in Certs /\ cfg[t] # NoCert /\ cfg[t].host = h
      BY <1>3 DEF Insert, Holding, CacheTypeOK, RightHost
    <3>3. CacheTypeOK'
      BY <2>1, <3>1, <3>2 DEF Add, CacheTypeOK
    <3>4. Cached' = (Cached \ gone) \cup {h}
      BY <2>1, <3>1, AddStep
    <3>5. RightHost' /\ Holding'
      BY <2>1, <3>1, <3>2, <3>4 DEF Add, RightHost, Holding, CacheTypeOK
    <3>6. QED
      BY <3>3, <3>5
  <2>4. QED
    BY <2>2, <2>3
<1>4. ASSUME NEW t \in Threads, MintFails(t) \/ Serve(t) PROVE HostInv'
  <2>1. CacheTypeOK'
    BY <1>4 DEF MintFails, Serve, CacheTypeOK
  <2>2. RightHost' /\ Holding'
    BY <1>4 DEF MintFails, Serve, RightHost, Holding, CacheTypeOK, Cached
  <2>3. QED
    BY <2>1, <2>2
<1>5. CASE Tick \/ UNCHANGED cacheVars
  BY <1>5 DEF Tick, cacheVars, CacheTypeOK, RightHost, Holding, Cached
<1>6. QED
  BY <1>1, <1>2, <1>3, <1>4, <1>5 DEF CacheNext

\* TLSConfig hands every client a certificate of the host it asked for, and keeps
\* leaves under their own hosts: for any goroutines and names, the empty one too.
THEOREM RightHostAlways == CacheSpec => [](CacheTypeOK /\ RightHost)
<1>1. CacheInit => HostInv
  BY CacheInitInv DEF SizeInv
<1>2. HostInv /\ [CacheNext]_cacheVars => HostInv'
  BY StepHostInv
<1>3. HostInv => CacheTypeOK /\ RightHost
  BY DEF HostInv
<1>4. QED
  BY <1>1, <1>2, <1>3, PTL DEF CacheSpec

\* The second lookup under the lock: of goroutines that mint the same host one
\* wins, and the leaf of a live entry is never replaced.
THEOREM LeafStableAlways == CacheSpec => LeafStable
<1>1. HostInv /\ [CacheNext]_cacheVars =>
        [\A h \in Cached : h \in Cached' => leaf'[h] = leaf[h]]_cacheVars
  <2> SUFFICES ASSUME HostInv, CacheNext
               PROVE  \A h \in Cached : h \in Cached' => leaf'[h] = leaf[h]
    BY DEF cacheVars
  <2>1. ASSUME NEW t \in Threads, Insert(t), Canon[name[t]] \notin Cached
        PROVE  \A h \in Cached : h \in Cached' => leaf'[h] = leaf[h]
    <3>1. Canon[name[t]] \in Hosts
      BY LeafCacheAssumption DEF HostInv, CacheTypeOK
    <3>2. PICK gone \in SUBSET Cached : Add(t, Canon[name[t]], gone)
      BY <2>1, InsertStep
    <3>3. QED
      BY <2>1, <3>1, <3>2, AddStep DEF HostInv
  <2>2. QED
    BY <2>1, OtherSteps
<1>2. CacheInit => HostInv
  BY CacheInitInv DEF SizeInv
<1>3. QED
  BY <1>1, <1>2, StepHostInv, PTL DEF CacheSpec, LeafStable

\* While the empty key is not in it, an insertion into a full cache finds a victim.
LEMMA StepSizeInv == SizeInv /\ [CacheNext]_cacheVars => SizeInv'
<1> SUFFICES ASSUME SizeInv, [CacheNext]_cacheVars PROVE SizeInv'
  OBVIOUS
<1>1. HostInv'
  BY StepHostInv DEF SizeInv
<1>2. ASSUME NEW t \in Threads, Insert(t), Canon[name[t]] \notin Cached
      PROVE  /\ IsFiniteSet(Cached')
             /\ EmptyHost \notin Cached' => Cardinality(Cached') <= MaxEntries
  <2> DEFINE h == Canon[name[t]]
  <2>1. h \in Hosts /\ CacheTypeOK
    BY LeafCacheAssumption DEF SizeInv, HostInv, CacheTypeOK
  <2>2. PICK gone \in SUBSET Cached :
          /\ Add(t, h, gone)
          /\ IF Cardinality(Cached) >= MaxEntries THEN gone \in Victims ELSE gone = {}
    BY <1>2, InsertStep
  <2>3. Cached' = (Cached \ gone) \cup {h}
    BY <2>1, <2>2, AddStep
  <2>4. IsFiniteSet(Cached) /\ Cardinality(Cached) \in Nat /\ MaxEntries \in Nat
    BY FS_CardinalityType, LeafCacheAssumption DEF SizeInv
  <2>5. ASSUME Cardinality(Cached) >= MaxEntries, EmptyHost \notin Cached
        PROVE  IsFiniteSet(Cached') /\ Cardinality(Cached') <= MaxEntries
    <3>1. PICK v \in Cached : gone = {v}
      BY <2>2, <2>5, VictimIsOne
    <3>2. IsFiniteSet(Cached \ {v}) /\ Cardinality(Cached \ {v}) = Cardinality(Cached) - 1
      BY <2>4, FS_RemoveElement
    <3>3. Cached' = (Cached \ {v}) \cup {h} /\ h \notin Cached \ {v}
      BY <1>2, <2>3, <3>1
    <3>4. IsFiniteSet(Cached') /\ Cardinality(Cached') = Cardinality(Cached \ {v}) + 1
      BY <3>2, <3>3, FS_AddElement
    <3>5. QED
      BY <2>4, <2>5, <3>2, <3>4 DEF SizeInv, Bounded, BoundedWhileNamed
  <2>6. CASE ~ (Cardinality(Cached) >= MaxEntries)
    <3>1. Cached' = Cached \cup {h}
      BY <2>2, <2>3, <2>6
    <3>2. IsFiniteSet(Cached') /\ Cardinality(Cached') = Cardinality(Cached) + 1
      BY <1>2, <2>4, <3>1, FS_AddElement
    <3>3. QED
      BY <2>4, <2>6, <3>2
  <2>7. ASSUME Cardinality(Cached) >= MaxEntries, EmptyHost \in Cached
        PROVE  IsFiniteSet(Cached') /\ EmptyHost \in Cached'
    <3>1. gone \in Victims /\ EmptyHost \notin gone
      BY <2>2, <2>7, EmptyKeyStays
    <3>2. IsFiniteSet(Cached \ gone)
      BY <2>4, FS_Difference
    <3>3. IsFiniteSet((Cached \ gone) \cup {h})
      BY <3>2, FS_AddElement
    <3>4. QED
      BY <2>3, <2>7, <3>1, <3>3
  <2>8. QED
    BY <2>5, <2>6, <2>7
<1>3. BoundedWhileNamed' /\ IsFiniteSet(Cached')
  BY <1>2, OtherSteps DEF SizeInv, Bounded, BoundedWhileNamed
<1>4. QED
  BY <1>1, <1>3 DEF SizeInv

\* Insertion makes room first, under the lock: for any goroutines, hosts and
\* names the cache holds no more than leafCacheMaxEntries leaves for as long as no
\* client has been served for the key "", which stays once it is in.
THEOREM BoundedWhileNamedAlways == CacheSpec => []BoundedWhileNamed
<1>1. SizeInv => BoundedWhileNamed
  BY DEF SizeInv
<1>2. QED
  BY <1>1, StepSizeInv, CacheInitInv, PTL DEF CacheSpec
=============================================================================
