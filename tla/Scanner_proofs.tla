--------------------------- MODULE Scanner_proofs ---------------------------
(***************************************************************************)
(* For every number of threads and devices: the lock belongs to the one    *)
(* scan there is, a scan that is answered "ok" has reported what it found, *)
(* and no report disturbs the profile of a device.                         *)
(***************************************************************************)
EXTENDS Scanner, TLAPS

\* A scanner that has started, and an empty inventory.
LEMMA InitScanInv == Init => ScanInv
BY ScannerAssumption
   DEF Init, ScanInv, TypeOK, LockIsScan, OkMeansListed, OwnAnswer, NoRows, Threads

\* Whatever a thread does but the commit of its report leaves the inventory alone.
LEMMA ListedStays ==
  ASSUME UNCHANGED <<devices, removed>>, NEW m
  PROVE  Listed(m)' <=> Listed(m)
BY DEF Listed

-----------------------------------------------------------------------------
(* perform_scan                                                            *)

\* A thread takes the lock, or finds it taken.
LEMMA ScanStep ==
  ASSUME ScanInv, NEW t \in Threads, Scan(t)
  PROVE  ScanInv'
<1> USE DEF ScanInv, Scan, Tells, Goes, apiVars
<1>1. TypeOK'
  BY DEF TypeOK, Begin
<1>2. LockIsScan'
  BY ScannerAssumption DEF TypeOK, Begin, LockIsScan
<1>3. OkMeansListed'
  BY DEF TypeOK, OkMeansListed, Listed
<1>4. OwnAnswer'
  BY DEF TypeOK, Begin, OwnAnswer, Listed
<1> QED BY <1>1, <1>2, <1>3, <1>4

\* The control plane refuses a request without its token.
LEMMA UnauthorisedStep ==
  ASSUME ScanInv, NEW t \in Threads, Unauthorised(t)
  PROVE  ScanInv'
<1> USE DEF ScanInv, Unauthorised, Tells, apiVars
<1>1. TypeOK'
  BY DEF TypeOK
<1>2. LockIsScan' /\ OkMeansListed' /\ OwnAnswer'
  BY DEF TypeOK, LockIsScan, OkMeansListed, OwnAnswer, Listed
<1> QED BY <1>1, <1>2

\* A sweep ends with the devices it found.
LEMMA SweepStep ==
  ASSUME ScanInv, NEW t \in Threads, NEW S \in SUBSET Macs, Sweep(t, S)
  PROVE  ScanInv'
<1> USE DEF ScanInv, Sweep, Ends, Tells, Goes, apiVars
<1>1. TypeOK'
  BY DEF TypeOK
<1>2. LockIsScan'
  BY ScannerAssumption DEF TypeOK, LockIsScan
<1>3. OkMeansListed'
  BY DEF TypeOK, OkMeansListed, Listed
<1>4. OwnAnswer'
  BY DEF TypeOK, OwnAnswer, Listed
<1> QED BY <1>1, <1>2, <1>3, <1>4

\* A scan that fails away from the API.
LEMMA FailStep ==
  ASSUME ScanInv, NEW t \in Threads, SweepFails(t) \/ PostFails(t)
  PROVE  ScanInv'
<1> USE DEF ScanInv, SweepFails, PostFails, Fails, Ends, Tells, Goes, apiVars
<1>1. TypeOK'
  BY DEF TypeOK
<1>2. LockIsScan'
  BY ScannerAssumption DEF TypeOK, LockIsScan
<1>3. OkMeansListed'
  BY DEF TypeOK, OkMeansListed, Listed
<1>4. OwnAnswer'
  BY DEF TypeOK, OwnAnswer, Listed
<1> QED BY <1>1, <1>2, <1>3, <1>4

\* The report goes to the API.
LEMMA PostStep ==
  ASSUME ScanInv, NEW t \in Threads, Post(t)
  PROVE  ScanInv'
<1> USE DEF ScanInv, Post, Goes
<1>1. TypeOK'
  BY DEF TypeOK
<1>2. LockIsScan'
  BY DEF TypeOK, LockIsScan
<1>3. OkMeansListed'
  BY DEF TypeOK, OkMeansListed, Listed
<1>4. OwnAnswer'
  BY DEF TypeOK, OwnAnswer, Listed
<1> QED BY <1>1, <1>2, <1>3, <1>4

\* The thread hears the answer to its own report.
LEMMA HearStep ==
  ASSUME ScanInv, NEW t \in Threads, Hear(t)
  PROVE  ScanInv'
<1> USE DEF ScanInv, Hear, Ends, Tells, Goes
<1>1. TypeOK'
  BY DEF TypeOK
<1>2. LockIsScan'
  BY ScannerAssumption DEF TypeOK, LockIsScan
<1>3. OkMeansListed'
  BY DEF TypeOK, OkMeansListed, OwnAnswer, Listed, Succeeded
<1>4. OwnAnswer'
  BY DEF TypeOK, OwnAnswer, Listed
<1> QED BY <1>1, <1>2, <1>3, <1>4

\* The report times out; the handler may still serve it.
LEMMA GiveUpStep ==
  ASSUME ScanInv, NEW t \in Threads, GiveUp(t)
  PROVE  ScanInv'
<1> USE DEF ScanInv, GiveUp, Fails, Ends, Tells, Goes, Abandon
<1>1. TypeOK'
  BY DEF TypeOK
<1>2. LockIsScan'
  BY ScannerAssumption DEF TypeOK, LockIsScan
<1>3. OkMeansListed'
  BY DEF TypeOK, OkMeansListed, Listed
<1>4. OwnAnswer'
  BY DEF TypeOK, OwnAnswer, Listed
<1> QED BY <1>1, <1>2, <1>3, <1>4

\* Every step of a thread.
LEMMA ProceedsStep ==
  ASSUME ScanInv, NEW t \in Threads, Proceeds(t)
  PROVE  ScanInv'
BY SweepStep, FailStep, PostStep, HearStep, GiveUpStep DEF Proceeds

-----------------------------------------------------------------------------
(* The process and the API.                                                *)

\* The signal, the end, a kill and a new start.
LEMMA ProcessStep ==
  ASSUME ScanInv, Signal \/ Exit \/ Killed \/ Starts
  PROVE  ScanInv'
<1>1. CASE Signal \/ Starts
  BY <1>1 DEF Signal, Starts, apiVars, ScanInv, TypeOK, LockIsScan, OkMeansListed, OwnAnswer,
              Listed
<1>2. CASE Gone
  <2> USE <1>2 DEF Gone, Abandon, ScanInv
  <2>1. TypeOK'
    BY DEF TypeOK
  <2>2. LockIsScan' /\ OkMeansListed'
    BY ScannerAssumption DEF LockIsScan, OkMeansListed
  <2>3. OwnAnswer'
    BY DEF TypeOK, OwnAnswer
  <2> QED BY <2>1, <2>2, <2>3
<1> QED BY <1>1, <1>2 DEF Exit, Killed

\* The handler ends, with 200 only when every device of the report is listed.
LEMMA ServesStep ==
  ASSUME ScanInv, NEW t \in Threads, NEW a \in {"200", "500"}, Serves(t, a),
         served[t] \in {"received", "loaded"}, UNCHANGED scanVars,
         \A m \in Macs : Listed(m) => Listed(m)',
         a = "200" => \A m \in body[t] : Listed(m)',
         devices' \in [Macs -> Profiles \cup {Absent}], removed' \in SUBSET Macs
  PROVE  ScanInv'
<1> USE DEF ScanInv, Serves, scanVars
<1>1. TypeOK'
  BY DEF TypeOK, NoRows
<1>2. LockIsScan'
  BY DEF LockIsScan
<1>3. \A u \in Threads : found[u] \in SUBSET Macs
  BY DEF TypeOK
<1>4. OkMeansListed'
  BY <1>3 DEF OkMeansListed
<1>5. OwnAnswer'
  <2> SUFFICES ASSUME NEW u \in Threads
      PROVE  /\ served'[u] \in {"200", "500"} => pc[u] = "wait"
             /\ pc[u] = "wait" /\ served'[u] \in {"received", "loaded"} => body'[u] = found[u]
             /\ served'[u] = "200" => \A m \in found[u] : Listed(m)'
    BY DEF OwnAnswer
  <2>1. CASE u = t
    BY <2>1 DEF TypeOK, OwnAnswer
  <2>2. CASE u # t
    <3>1. served'[u] = served[u] /\ body'[u] = body[u]
      BY <2>2 DEF TypeOK
    <3> QED BY <1>3, <3>1 DEF OwnAnswer
  <2> QED BY <2>1, <2>2
<1> QED BY <1>1, <1>2, <1>4, <1>5

\* The handler of reports loads, commits or fails.
LEMMA DiscoverStep ==
  ASSUME ScanInv, Discover
  PROVE  ScanInv'
<1> SUFFICES ASSUME NEW t \in Threads, Refuses(t) \/ Loads(t) \/ Commits(t)
             PROVE  ScanInv'
  BY DEF Discover
<1>1. CASE Refuses(t)
  BY <1>1, ServesStep DEF Refuses, ScanInv, TypeOK, Listed
<1>2. CASE Loads(t)
  BY <1>2 DEF Loads, scanVars, ScanInv, TypeOK, LockIsScan, OkMeansListed, OwnAnswer, Listed
<1>3. CASE Commits(t)
  <2>1. CASE \A m \in body[t] : (devices[m] = Absent) <=> (m \in New(t))
    <3>1. devices' \in [Macs -> Profiles \cup {Absent}]
      BY <1>3, <2>1, ScannerAssumption DEF Commits, Created, Refreshed, ScanInv, TypeOK
    <3>2. \A m \in Macs : (Listed(m) => Listed(m)') /\ (m \in body[t] => Listed(m)')
      BY <1>3, <2>1, ScannerAssumption
         DEF Commits, Created, Refreshed, Listed, ScanInv, TypeOK
    <3>3. body[t] \in SUBSET Macs /\ removed' \in SUBSET Macs
      BY <1>3, <2>1 DEF Commits, ScanInv, TypeOK
    <3> QED BY <1>3, <2>1, <3>1, <3>2, <3>3, ServesStep DEF Commits
  <2>2. CASE ~ \A m \in body[t] : (devices[m] = Absent) <=> (m \in New(t))
    BY <1>3, <2>2, ServesStep DEF Commits, ScanInv, TypeOK, Listed
  <2> QED BY <2>1, <2>2
<1> QED BY <1>1, <1>2, <1>3

\* An administrator assigns a profile, or deletes a device.
LEMMA AdminStep ==
  ASSUME ScanInv, NEW m \in Macs, Delete(m) \/ \E p \in Profiles : Assign(m, p)
  PROVE  ScanInv'
<1>1. devices' \in [Macs -> Profiles \cup {Absent}] /\ removed' \in SUBSET Macs
  BY DEF Delete, Assign, ScanInv, TypeOK
<1>2. \A n \in Macs : Listed(n) => Listed(n)'
  BY ScannerAssumption DEF Delete, Assign, Listed, ScanInv, TypeOK
<1>3. UNCHANGED <<scanVars, served, body, loaded>>
  BY DEF Delete, Assign
<1>4. \A t \in Threads : found[t] \in SUBSET Macs
  BY DEF ScanInv, TypeOK
<1>5. TypeOK' /\ LockIsScan'
  BY <1>1, <1>3 DEF ScanInv, TypeOK, LockIsScan, scanVars
<1>6. OkMeansListed' /\ OwnAnswer'
  BY <1>2, <1>3, <1>4 DEF ScanInv, OkMeansListed, OwnAnswer, scanVars
<1> QED BY <1>5, <1>6 DEF ScanInv

-----------------------------------------------------------------------------
\* Every step of the scanner, the API and the admin keeps the invariant.
LEMMA StepScanInv == ScanInv /\ [Next]_vars => ScanInv'
<1> SUFFICES ASSUME ScanInv, [Next]_vars PROVE ScanInv'
  OBVIOUS
<1>1. CASE Periodic
  BY <1>1, ScanStep DEF Periodic, Threads
<1>2. ASSUME NEW c \in Callers, OnDemand(c) \/ Unauthorised(c) PROVE ScanInv'
  BY <1>2, ScanStep, UnauthorisedStep DEF OnDemand, Threads
<1>3. CASE Signal \/ Exit \/ Killed \/ Starts
  BY <1>3, ProcessStep
<1>4. ASSUME NEW t \in Threads, Proceeds(t) PROVE ScanInv'
  BY <1>4, ProceedsStep
<1>5. CASE Discover
  BY <1>5, DiscoverStep
<1>6. ASSUME NEW m \in Macs, Delete(m) \/ \E p \in Profiles : Assign(m, p) PROVE ScanInv'
  BY <1>6, AdminStep
<1>7. CASE UNCHANGED vars
  BY <1>7 DEF vars, scanVars, apiVars, ScanInv, TypeOK, LockIsScan, OkMeansListed, OwnAnswer,
              Listed
<1> QED BY <1>1, <1>2, <1>3, <1>4, <1>5, <1>6, <1>7 DEF Next

\* The inductive invariant of the scanner and the reports it has under way.
THEOREM ScannerSafe == Spec => []ScanInv
BY InitScanInv, StepScanInv, PTL DEF Spec

\* perform_scan: one scan at a time, and the lock is free when there is none.
THEOREM LockIsScanAlways == Spec => []LockIsScan
<1>1. ScanInv => LockIsScan
  BY DEF ScanInv
<1> QED BY <1>1, ScannerSafe, PTL

\* perform_scan and discover_devices: "ok" is never said of a lost report.
THEOREM OkMeansListedAlways == Spec => []OkMeansListed
<1>1. ScanInv => OkMeansListed
  BY DEF ScanInv
<1> QED BY <1>1, ScannerSafe, PTL

\* discover_devices: reports, late ones too, leave every profile as it is.
THEOREM AssignmentStaysAlways == Spec => AssignmentStays
<1>1. ScanInv /\ [Next]_vars =>
        [Discover => \A m \in Macs : devices[m] # Absent => devices'[m] = devices[m]]_vars
  <2> SUFFICES ASSUME ScanInv, NEW t \in Threads, Refuses(t) \/ Loads(t) \/ Commits(t),
                      NEW m \in Macs, devices[m] # Absent
               PROVE  devices'[m] = devices[m]
    BY DEF Discover
  <2>1. CASE Refuses(t) \/ Loads(t)
    BY <2>1 DEF Refuses, Loads
  <2>2. CASE Commits(t)
    BY <2>2 DEF Commits, Refreshed, New
  <2> QED BY <2>1, <2>2
<1> QED BY <1>1, ScannerSafe, PTL DEF Spec, AssignmentStays

\* Threads, their reports and the rows of the API stay well formed.
THEOREM ScannerTypesAlways == Spec => []TypeOK
<1>1. ScanInv => TypeOK
  BY DEF ScanInv
<1> QED BY <1>1, ScannerSafe, PTL
=============================================================================
