---------------------------- MODULE MinuteMeter ----------------------------
(***************************************************************************)
(* What the quota pipeline promises, whatever the network and the restarts *)
(* do: a client earns minutes, the API records them, and the proxy settles *)
(* (forgets) a minute only once the API has recorded it.  Recording may    *)
(* happen more than once for the same minute: delivery is at least once.   *)
(***************************************************************************)
EXTENDS Naturals

CONSTANTS
  IPs,                \* client addresses the proxy attributes traffic to
  Amounts             \* minutes one heartbeat may carry

VARIABLES
  owed,               \* minutes earned and not settled yet
  recorded,           \* minutes ever added to a quota row
  settled             \* minutes the proxy has forgotten

meterVars == <<owed, recorded, settled>>

MeterInit ==
  /\ owed     = [ip \in IPs |-> 0]
  /\ recorded = [ip \in IPs |-> 0]
  /\ settled  = [ip \in IPs |-> 0]

\* The minute windows of a set of clients close: each earns one minute.
Earn(S) ==
  /\ owed' = [ip \in IPs |-> IF ip \in S THEN owed[ip] + 1 ELSE owed[ip]]
  /\ UNCHANGED <<recorded, settled>>

\* The API adds minutes to a quota row.
Record(ip, n) ==
  /\ recorded' = [recorded EXCEPT ![ip] = @ + n]
  /\ UNCHANGED <<owed, settled>>

\* The proxy forgets minutes, none of which may still be unrecorded.
Settle(ip, n) ==
  /\ n <= owed[ip]
  /\ settled[ip] + n <= recorded[ip]
  /\ owed'    = [owed EXCEPT ![ip] = @ - n]
  /\ settled' = [settled EXCEPT ![ip] = @ + n]
  /\ UNCHANGED recorded

\* The proxy restarts: what it had in memory is gone.
Forget ==
  /\ owed' = [ip \in IPs |-> 0]
  /\ UNCHANGED <<recorded, settled>>

MeterNext ==
  \/ \E S \in SUBSET IPs : Earn(S)
  \/ \E ip \in IPs, n \in Amounts : Record(ip, n) \/ Settle(ip, n)
  \/ Forget

MeterSpec == MeterInit /\ [][MeterNext]_meterVars
=============================================================================
