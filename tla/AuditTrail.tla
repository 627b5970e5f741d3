----------------------------- MODULE AuditTrail -----------------------------
(***************************************************************************)
(* What the household is promised of its audit trail and of the queue of   *)
(* held items, as if each decision were made in one step: a decision       *)
(* leaves at most one row, signed for the device and the profile it names, *)
(* and its item with it; a row changes only when its device or its profile *)
(* is removed; an item waits once, until it is resolved; and nothing takes *)
(* one that waits but an administrator, or the retention after one has     *)
(* deleted something.                                                      *)
(***************************************************************************)

CONSTANTS
  Calls,              \* decisions
  Ids,                \* devices that may be registered
  Profiles,           \* profiles a decision may be made by
  Nothing             \* no device, no profile

VARIABLES
  devices,            \* registered devices
  decided,            \* decisions that were recorded
  trail,              \* rows: the decision, what it names, what it is signed for
  waiting, resolved,  \* decisions whose item waits, or was resolved
  cleared             \* an administrator has deleted items or rows

queueVars == <<waiting, resolved>>
trailVars == <<devices, decided, trail, queueVars, cleared>>

TrailInit ==
  /\ devices = {} /\ decided = {} /\ trail = {}
  /\ waiting = {} /\ resolved = {} /\ cleared = FALSE

\* A decision by a profile, for a registered device, one it registers, or none.
Decide(c, d, p) ==
  /\ c \notin decided /\ decided' = decided \cup {c}
  /\ devices' = devices \cup ({d} \ {Nothing})
  /\ LET about == [device |-> d, profile |-> p]
     IN trail' = trail \cup {[call |-> c, names |-> about, signed |-> about]}
  /\ waiting' \in {waiting, waiting \cup {c}}
  /\ UNCHANGED <<resolved, cleared>>

Register(d) ==
  /\ devices' = devices \cup {d}
  /\ UNCHANGED <<decided, trail, queueVars, cleared>>

\* Rows keep what they were signed for, and lose the name of the device
Nameless(r, d) == IF r.names.device = d THEN [r EXCEPT !.names.device = Nothing] ELSE r
Remove(d) ==
  /\ devices' = devices \ {d}
  /\ trail' = {Nameless(r, d) : r \in trail}
  /\ UNCHANGED <<decided, queueVars, cleared>>

\* or of the profile.
Unnamed(r, p) == IF r.names.profile = p THEN [r EXCEPT !.names.profile = Nothing] ELSE r
RemoveProfile(p) ==
  /\ trail' = {Unnamed(r, p) : r \in trail}
  /\ UNCHANGED <<devices, decided, queueVars, cleared>>

Review(c) ==
  /\ c \in waiting \cup resolved
  /\ waiting' = waiting \ {c} /\ resolved' = resolved \cup {c}
  /\ UNCHANGED <<devices, decided, trail, cleared>>

\* The retention takes old rows, and items that do not wait.
PruneRows(R) ==
  /\ trail' = trail \ R
  /\ UNCHANGED <<devices, decided, queueVars, cleared>>
PruneItems(C) ==
  /\ cleared \/ C \cap waiting = {}
  /\ waiting' = waiting \ C /\ resolved' = resolved \ C
  /\ UNCHANGED <<devices, decided, trail, cleared>>

\* An administrator deletes an item, or all rows.
Dismiss(c) ==
  /\ waiting' = waiting \ {c} /\ resolved' = resolved \ {c} /\ cleared' = TRUE
  /\ UNCHANGED <<devices, decided, trail>>
Clear ==
  /\ trail' = {} /\ cleared' = TRUE
  /\ UNCHANGED <<devices, decided, queueVars>>

TrailNext ==
  \/ \E c \in Calls : Review(c) \/ Dismiss(c)
  \/ \E c \in Calls, d \in Ids \cup {Nothing}, p \in Profiles : Decide(c, d, p)
  \/ \E d \in Ids : Register(d) \/ Remove(d)
  \/ \E p \in Profiles : RemoveProfile(p)
  \/ \E R \in SUBSET trail : PruneRows(R)
  \/ \E C \in SUBSET Calls : PruneItems(C)
  \/ Clear

TrailSpec == TrailInit /\ [][TrailNext]_trailVars
=============================================================================
