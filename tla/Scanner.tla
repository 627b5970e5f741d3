------------------------------ MODULE Scanner ------------------------------
(***************************************************************************)
(* The scanner and the API it reports to.  The main loop sweeps the LAN    *)
(* from time to time, a request to the control plane does so at once, in a *)
(* thread of its own; a lock lets one sweep run.  What a sweep has found   *)
(* is posted to the API, which works on while the scanner has given up.    *)
(*                                                                         *)
(* Sweeps run with -n, so no device comes with a host name.  Of a device's *)
(* row only the profile is kept here: the address, the vendor and the time *)
(* of a sighting are refreshed by each report, and the last one wins.      *)
(***************************************************************************)
CONSTANTS
  Callers,      \* threads of the control plane
  Loop,         \* the main thread
  Macs,         \* devices on the LAN
  Profiles,     \* profiles an admin may assign
  Default,      \* devices.default_profile
  Absent,       \* no row
  Free,         \* the lock is held by nobody
  Enabled       \* scanner.enabled

Threads == Callers \cup {Loop}

ASSUME ScannerAssumption ==
  /\ Loop \notin Callers /\ Free \notin Threads
  /\ Default \in Profiles /\ Absent \notin Profiles
  /\ Enabled \in BOOLEAN

VARIABLES
  up, running,  \* the process; _running, which a signal clears
  lock,         \* _scan_lock
  pc,           \* perform_scan: "idle", "sweep", "report", "wait"
  found,        \* devices parsed from nmap's output
  ok,           \* result of a thread's last scan
  served,       \* the API's handler of a thread's report
  body,         \* the devices in that report
  loaded,       \* the rows its session has loaded
  devices,      \* profile of each device, or Absent
  removed       \* history: devices an admin has deleted since they were reported

scanVars == <<up, running, lock, pc, found, ok>>
apiVars  == <<served, body, loaded, devices, removed>>
vars == <<scanVars, apiVars>>

NoRows == [m \in Macs |-> Absent]

Init ==
  /\ up = TRUE /\ running = TRUE /\ lock = Free
  /\ pc = [t \in Threads |-> "idle"] /\ found = [t \in Threads |-> {}]
  /\ ok = [t \in Threads |-> FALSE]
  /\ served = [t \in Threads |-> "none"] /\ body = [t \in Threads |-> {}]
  /\ loaded = [t \in Threads |-> NoRows]
  /\ devices = NoRows /\ removed = {}

-----------------------------------------------------------------------------
(* perform_scan                                                            *)

Goes(t, l) == pc' = [pc EXCEPT ![t] = l]

\* What the thread answers, and of which devices.
Tells(t, b, S) == ok' = [ok EXCEPT ![t] = b] /\ found' = [found EXCEPT ![t] = S]

\* The lock is tried, not waited for: "scan busy" is the answer.
Begin(t) ==
  IF lock = Free
  THEN lock' = t /\ Goes(t, "sweep")
  ELSE UNCHANGED <<lock, pc>>

\* Both the loop's turn and a request find the thread idle.
Scan(t) ==
  /\ up /\ pc[t] = "idle" /\ Begin(t) /\ Tells(t, FALSE, {})
  /\ UNCHANGED <<up, running, apiVars>>

Periodic == Enabled /\ running /\ Scan(Loop)

\* POST /scan with the token.
OnDemand(c) == Scan(c)

\* Without it, or with none configured; the API's trigger_scan sends none, and
\* makes a 502 of the 401.
Unauthorised(c) ==
  /\ up /\ pc[c] = "idle" /\ Tells(c, FALSE, {})
  /\ UNCHANGED <<up, running, lock, pc, apiVars>>

\* The result is returned, and in any case the lock released.
Ends(t) == Goes(t, "idle") /\ lock' = Free

Fails(t) == Ends(t) /\ Tells(t, FALSE, {})

\* nmap's output names any of the devices; of those that do not answer, or when
\* it fails, none.  Nothing found is nothing to report.
Sweep(t, S) ==
  /\ pc[t] = "sweep"
  /\ Tells(t, S = {}, S)
  /\ IF S = {} THEN Ends(t) ELSE Goes(t, "report") /\ UNCHANGED lock
  /\ UNCHANGED <<up, running, apiVars>>

\* nmap takes more than 300 seconds, or cannot be run.
SweepFails(t) ==
  /\ pc[t] = "sweep" /\ Fails(t)
  /\ UNCHANGED <<up, running, apiVars>>

\* The API has the report.  Bound: at most one of a thread's is under way.
Post(t) ==
  /\ pc[t] = "report" /\ served[t] = "none"
  /\ Goes(t, "wait")
  /\ served' = [served EXCEPT ![t] = "received"] /\ body' = [body EXCEPT ![t] = found[t]]
  /\ UNCHANGED <<up, running, lock, found, ok, loaded, devices, removed>>

\* It cannot be reached.
PostFails(t) ==
  /\ pc[t] = "report" /\ Fails(t)
  /\ UNCHANGED <<up, running, apiVars>>

\* Mutant: without raise_for_status.
Unchecked(s) == TRUE

Succeeded(s) == s = "200"

Hear(t) ==
  /\ pc[t] = "wait" /\ served[t] \in {"200", "500"}
  /\ Ends(t)
  /\ IF Succeeded(served[t]) THEN Tells(t, TRUE, found[t]) ELSE Tells(t, FALSE, {})
  /\ served' = [served EXCEPT ![t] = "none"]
  /\ UNCHANGED <<up, running, body, loaded, devices, removed>>

\* Nobody waits for the answers to the reports of these threads any more.
Abandon(T) ==
  served' = [t \in Threads |->
               IF t \in T /\ served[t] \in {"200", "500"} THEN "none" ELSE served[t]]

\* The client waits 30 seconds; the API works on, or its answer is lost.
GiveUp(t) ==
  /\ pc[t] = "wait"
  /\ Fails(t) /\ Abandon({t})
  /\ UNCHANGED <<up, running, body, loaded, devices, removed>>

\* Mutant: the client has no timeout.
ProceedsPatiently(t) ==
  (\E S \in SUBSET Macs : Sweep(t, S)) \/ SweepFails(t) \/ Post(t) \/ PostFails(t) \/ Hear(t)

Proceeds(t) ==
  (\E S \in SUBSET Macs : Sweep(t, S)) \/ SweepFails(t) \/ Post(t) \/ PostFails(t)
  \/ Hear(t) \/ GiveUp(t)

-----------------------------------------------------------------------------
(* The process.                                                            *)

\* SIGTERM: "exiting after current scan".
Signal ==
  /\ up /\ running /\ running' = FALSE
  /\ UNCHANGED <<up, lock, pc, found, ok, apiVars>>

\* All threads are daemons: what they are about is lost with them.
Gone ==
  /\ up' = FALSE /\ running' = FALSE /\ lock' = Free
  /\ pc' = [t \in Threads |-> "idle"] /\ found' = [t \in Threads |-> {}]
  /\ ok' = [t \in Threads |-> FALSE]
  /\ Abandon(Threads)
  /\ UNCHANGED <<body, loaded, devices, removed>>

\* Mutant: it is left only when no thread scans.
ExitWaits == up /\ ~running /\ lock = Free /\ Gone

\* The loop is left after its own scan; without one, within a minute.
Exit == up /\ ~running /\ pc[Loop] = "idle" /\ Gone

Killed == up /\ Gone

Starts ==
  /\ ~up /\ up' = TRUE /\ running' = TRUE
  /\ UNCHANGED <<lock, pc, found, ok, apiVars>>

-----------------------------------------------------------------------------
(* POST /v1/devices/discover, and an admin at the devices meanwhile.       *)

\* The handler ends; an answer only matters to a thread that still waits.
Serves(t, a) ==
  /\ served' = [served EXCEPT ![t] = IF pc[t] = "wait" THEN a ELSE "none"]
  /\ body' = [body EXCEPT ![t] = {}] /\ loaded' = [loaded EXCEPT ![t] = NoRows]

\* No valid token, no default profile, or the API goes down.
Refuses(t) ==
  /\ served[t] \in {"received", "loaded"} /\ Serves(t, "500")
  /\ UNCHANGED <<scanVars, devices, removed>>

\* The session loads the rows there are.
Loads(t) ==
  /\ served[t] = "received"
  /\ served' = [served EXCEPT ![t] = "loaded"]
  /\ loaded' = [loaded EXCEPT ![t] = [m \in Macs |-> IF m \in body[t] THEN devices[m] ELSE Absent]]
  /\ UNCHANGED <<scanVars, body, devices, removed>>

\* Mutant: the whole row is written back.
RefreshedWhole(old, row) == old

\* Only columns that were assigned are written; the profile is not one.
Refreshed(old, row) == row

Created == Default

New(t) == {m \in body[t] : loaded[t][m] = Absent}

\* All or nothing: a device that another report has created in the meantime, or
\* an admin deleted, fails the commit.
Commits(t) ==
  /\ served[t] = "loaded"
  /\ IF \A m \in body[t] : (devices[m] = Absent) <=> (m \in New(t))
     THEN /\ devices' = [m \in Macs |->
                IF m \notin body[t] THEN devices[m]
                ELSE IF m \in New(t) THEN Created ELSE Refreshed(loaded[t][m], devices[m])]
          /\ removed' = removed \ body[t]
          /\ Serves(t, "200")
     ELSE Serves(t, "500") /\ UNCHANGED <<devices, removed>>
  /\ UNCHANGED scanVars

Assign(m, p) ==
  /\ devices[m] \notin {Absent, p} /\ devices' = [devices EXCEPT ![m] = p]
  /\ UNCHANGED <<scanVars, served, body, loaded, removed>>

Delete(m) ==
  /\ devices[m] # Absent /\ devices' = [devices EXCEPT ![m] = Absent]
  /\ removed' = removed \cup {m}
  /\ UNCHANGED <<scanVars, served, body, loaded>>

Discover == \E t \in Threads : Refuses(t) \/ Loads(t) \/ Commits(t)

-----------------------------------------------------------------------------
Next ==
  \/ Periodic \/ Signal \/ Exit \/ Killed \/ Starts
  \/ \E c \in Callers : OnDemand(c) \/ Unauthorised(c)
  \/ \E t \in Threads : Proceeds(t)
  \/ Discover
  \/ \E m \in Macs : Delete(m) \/ \E p \in Profiles : Assign(m, p)

Spec == Init /\ [][Next]_vars

\* Threads run; nothing is assumed of the API.
FairSpec == Spec /\ WF_vars(Exit) /\ \A t \in Threads : WF_vars(Proceeds(t))

-----------------------------------------------------------------------------
TypeOK ==
  /\ up \in BOOLEAN /\ running \in BOOLEAN /\ lock \in Threads \cup {Free}
  /\ pc \in [Threads -> {"idle", "sweep", "report", "wait"}]
  /\ found \in [Threads -> SUBSET Macs]
  /\ ok \in [Threads -> BOOLEAN]
  /\ served \in [Threads -> {"none", "received", "loaded", "200", "500"}]
  /\ body \in [Threads -> SUBSET Macs]
  /\ loaded \in [Threads -> [Macs -> Profiles \cup {Absent}]]
  /\ devices \in [Macs -> Profiles \cup {Absent}] /\ removed \in SUBSET Macs

\* The lock is held by the one thread that scans, whichever way its scan ends and
\* whichever threads are refused in the meantime.
LockIsScan == \A t \in Threads : pc[t] # "idle" <=> lock = t

Listed(m) == devices[m] # Absent \/ m \in removed

\* A scan that is answered "ok" has brought every device it found into the
\* inventory, even if another report or an admin was at the same devices.
OkMeansListed == \A t \in Threads : ok[t] => \A m \in found[t] : Listed(m)

\* What a thread waits for is the answer to its own report, and no late one.
OwnAnswer ==
  \A t \in Threads :
    /\ served[t] \in {"200", "500"} => pc[t] = "wait"
    /\ pc[t] = "wait" /\ served[t] \in {"received", "loaded"} => body[t] = found[t]
    /\ served[t] = "200" => \A m \in found[t] : Listed(m)

\* The inductive invariant.
ScanInv == TypeOK /\ LockIsScan /\ OkMeansListed /\ OwnAnswer

\* "Profile assignment is never overwritten by the scanner": not by a report that
\* loaded the device before the admin assigned it, nor by one given up long ago.
AssignmentStays ==
  [][Discover => \A m \in Macs : devices[m] # Absent => devices'[m] = devices[m]]_vars

\* However long the API takes, each scan gives the lock back.
LockComesBack == \A t \in Threads : lock = t ~> lock # t

\* After a signal the process ends, however many scans are asked for meanwhile.
SignalEnds == up /\ ~running ~> ~up
=============================================================================
