------------------------------- MODULE Ledger -------------------------------
(***************************************************************************)
(* What POST /v1/decide leaves behind: devices, signed audit rows, items    *)
(* held for review; and who else writes there: the administrators, who     *)
(* also give devices their profiles, the scanner and the daily retention.  *)
(*                                                                         *)
(* SQLite has one write lock, taken by the first write of a transaction.   *)
(* post_decide may take it long before it commits, when it registers a     *)
(* device; other transactions write and commit in one step.  Whoever finds *)
(* the database busy for five seconds gets an error at that write.  A new  *)
(* row gets the id after the largest there is, so that the id of a deleted *)
(* row may come back.                                                      *)
(***************************************************************************)
EXTENDS Integers, FiniteSetsExt

CONSTANTS
  Calls,       \* decisions the proxy asks for; each may leave one row and one item
  Clients,     \* addresses of clients; the synthetic MAC of one is its address
  Macs,        \* hardware addresses the scanner reports
  Admins,      \* administrators resolving items
  Profiles,    \* ids of profiles
  Default,     \* the profile with the name of devices.default_profile
  Nothing,     \* no device, no client, no item, no profile
  MaxRecent,   \* devices of the last hour beyond which none is registered, 20 in the code
  Batch        \* rows the retention deletes at once, 1000 in the code

Ids == Clients \cup Macs

ASSUME LedgerAssumption ==
  /\ IsFiniteSet(Ids) /\ IsFiniteSet(Calls) /\ Nothing \notin Ids \cup Calls \cup Profiles
  /\ Default \in Profiles
  /\ Clients \cap Macs = {}
  /\ MaxRecent \in Nat /\ Batch \in Nat \ {0}

VARIABLES
  profiles,                   \* profiles there are
  devices, ip, recent,        \* registered devices, their addresses, those of the last hour
  profileOf,                  \* the profile of each
  rowId, rowDevice, rowProfile, \* audit rows: id, device, profile,
  signed,                     \* the device and the profile they were signed for
  aged,                       \* rows older than the retention
  item, itemId,               \* held items: see Items
  lock,                       \* the call that holds the write lock
  pc, client, device, profile, verdict,  \* post_decide
  reads,                      \* administrators: the id of the item to be resolved
  sweep, batch, retried,      \* cleanup_expired: the table, the ids to delete
  cleared                     \* history: an administrator has deleted items or rows

deviceVars == <<profiles, devices, ip, recent, profileOf>>
rowVars    == <<rowId, rowDevice, rowProfile, signed, aged>>
itemVars   == <<item, itemId>>
callVars   == <<lock, pc, client, device, profile, verdict>>
sweepVars  == <<sweep, batch, retried>>
vars == <<deviceVars, rowVars, itemVars, callVars, reads, sweepVars, cleared>>

\* Status and age: pending for more than an hour, resolved before the retention.
Items == {"none", "pending", "lapsed", "settled", "settledLong"}

\* The fields of a row that can change after it was signed.
Signable(d, p) == [device |-> d, profile |-> p]

Init ==
  /\ profiles = Profiles /\ profileOf = [d \in Ids |-> Nothing]
  /\ devices = {} /\ ip = [d \in Ids |-> Nothing] /\ recent = {}
  /\ rowId = [c \in Calls |-> 0] /\ rowDevice = [c \in Calls |-> Nothing]
  /\ rowProfile = [c \in Calls |-> Nothing]
  /\ signed = [c \in Calls |-> Signable(Nothing, Nothing)] /\ aged = {}
  /\ item = [c \in Calls |-> "none"] /\ itemId = [c \in Calls |-> 0]
  /\ lock = Nothing
  /\ pc = [c \in Calls |-> "new"] /\ client = [c \in Calls |-> Nothing]
  /\ device = [c \in Calls |-> Nothing] /\ profile = [c \in Calls |-> Nothing]
  /\ verdict = [c \in Calls |-> "none"]
  /\ reads = [a \in Admins |-> 0]
  /\ sweep = "sleep" /\ batch = {} /\ retried = FALSE
  /\ cleared = FALSE

Free == lock = Nothing

\* Ids are numbers from one on; zero is no row.
Rows == {c \in Calls : rowId[c] # 0}
Named(ids, id) == {c \in Calls : id[c] \in ids \ {0}}
NextId(id) == Max({0} \cup {id[c] : c \in Calls}) + 1

At(i) == {d \in devices : ip[d] = i}

-----------------------------------------------------------------------------
(* post_decide.                                                            *)

\* Devices and rows, items, notifications stay as they are.
NothingWritten == UNCHANGED <<deviceVars, rowVars, itemVars, reads, sweepVars, cleared>>

\* _resolve_device by the client's address; several devices may claim it.  The
\* device comes with its profile, a client without one gets the default profile.
Arrive(c, i) ==
  /\ pc[c] = "new"
  /\ client' = [client EXCEPT ![c] = i]
  /\ \/ /\ At(i) = {} /\ Default \in profiles
        /\ pc' = [pc EXCEPT ![c] = "attribute"]
        /\ profile' = [profile EXCEPT ![c] = Default]
        /\ UNCHANGED device
     \/ /\ pc' = [pc EXCEPT ![c] = "judge"]
        /\ \E d \in At(i) : /\ device' = [device EXCEPT ![c] = d]
                           /\ profile' = [profile EXCEPT ![c] = profileOf[d]]
  /\ UNCHANGED <<lock, verdict>> /\ NothingWritten

\* No default profile: 503.
Unprofiled(c, i) ==
  /\ pc[c] = "new" /\ At(i) = {} /\ Default \notin profiles
  /\ pc' = [pc EXCEPT ![c] = "error"]
  /\ UNCHANGED <<lock, client, device, profile, verdict>> /\ NothingWritten

\* The device registered since, or the one with the synthetic MAC.
Present(i) == IF At(i) # {} THEN At(i) ELSE devices \cap {i}

Attributed(c, d) ==
  /\ pc' = [pc EXCEPT ![c] = "judge"]
  /\ device' = [device EXCEPT ![c] = d]
  /\ UNCHANGED <<client, profile, verdict>> /\ NothingWritten

\* _auto_create_device: its flush takes the write lock, until the commit.
Attribute(c) ==
  /\ pc[c] = "attribute"
  /\ LET i == client[c] IN
     \/ /\ Free
        /\ \E d \in Present(i) : Attributed(c, d)
        /\ lock' = c
     \/ /\ Present(i) = {} /\ Cardinality(recent) > MaxRecent
        /\ Attributed(c, Nothing)
        /\ UNCHANGED lock
     \/ /\ Free /\ Present(i) = {} /\ Cardinality(recent) <= MaxRecent
        /\ profile[c] \in profiles
        /\ Attributed(c, i)
        /\ lock' = c

\* The flush fails, busy, beaten to it or without the profile: roll back and look
\* again.
AttributeFails(c) ==
  /\ pc[c] = "attribute"
  /\ LET found == Present(client[c])
     IN \E d \in IF found = {} THEN {Nothing} ELSE found : Attributed(c, d)
  /\ UNCHANGED lock

\* The engine decides, which may take a call of OPA.
Judge(c) ==
  /\ pc[c] = "judge"
  /\ \E v \in {"allow", "block"} : verdict' = [verdict EXCEPT ![c] = v]
  /\ pc' = [pc EXCEPT ![c] = "record"]
  /\ UNCHANGED <<lock, client, device, profile>> /\ NothingWritten

\* The call is over: its transaction ends, one way or the other.
End(c, how) ==
  /\ pc' = [pc EXCEPT ![c] = how]
  /\ lock' = IF lock = c THEN Nothing ELSE lock
  /\ client' = [client EXCEPT ![c] = Nothing]
  /\ device' = [device EXCEPT ![c] = Nothing]
  /\ profile' = [profile EXCEPT ![c] = Nothing]
  /\ verdict' = [verdict EXCEPT ![c] = "none"]

\* OPA cannot be asked and is the only engine: 503; or the profile that was to be
\* loaded again after a roll-back is gone: 500.
JudgeFails(c) == pc[c] = "judge" /\ End(c, "error") /\ NothingWritten

\* A device of this transaction, and an old one whose address it updates.
New(c) == lock = c /\ device[c] \in Ids \ devices
Refreshed(c) == lock = c /\ device[c] \in devices

\* The device the row is for is still there, or comes with it, and so is the profile.
Attributable(c) ==
  /\ New(c) \/ device[c] \in devices \cup {Nothing}
  /\ profile[c] \in profiles

SaveDevice(c) ==
  /\ devices' = IF New(c) THEN devices \cup {device[c]} ELSE devices
  /\ recent' = IF New(c) THEN recent \cup {device[c]} ELSE recent
  /\ ip' = IF New(c) \/ Refreshed(c) THEN [ip EXCEPT ![device[c]] = client[c]] ELSE ip
  /\ profileOf' = IF New(c) THEN [profileOf EXCEPT ![device[c]] = profile[c]] ELSE profileOf
  /\ UNCHANGED profiles

\* Mutant: the row is signed before it has its device.
SignEarly(c) == signed' = [signed EXCEPT ![c] = Signable(Nothing, profile[c])]

\* sign_row, after the flush that gives the row its id.
Sign(c) == signed' = [signed EXCEPT ![c] = Signable(device[c], profile[c])]

\* verify_row: the other fields that are signed never change.
Verifies(c) == signed[c] = Signable(rowDevice[c], rowProfile[c])

\* The block of an image or a video is held for review, in the transaction of
\* the row.
Hold(c) ==
  \/ UNCHANGED itemVars
  \/ /\ verdict[c] = "block"
     /\ item' = [item EXCEPT ![c] = "pending"]
     /\ itemId' = [itemId EXCEPT ![c] = NextId(itemId)]

\* The row can be written: nobody else holds the lock.
Writable(c) == pc[c] = "record" /\ lock \in {c, Nothing} /\ Attributable(c)

\* Row, item and device are committed together.
Record(c) ==
  /\ Writable(c)
  /\ SaveDevice(c)
  /\ rowId' = [rowId EXCEPT ![c] = NextId(rowId)]
  /\ rowDevice' = [rowDevice EXCEPT ![c] = device[c]]
  /\ rowProfile' = [rowProfile EXCEPT ![c] = profile[c]]
  /\ Sign(c)
  /\ Hold(c)
  /\ End(c, "stored")
  /\ UNCHANGED <<aged, reads, sweepVars, cleared>>

\* Mutant: the item is held in a transaction of its own.
CommitFailsHolding(c) ==
  /\ Writable(c) /\ Hold(c) /\ End(c, "lost")
  /\ UNCHANGED <<deviceVars, rowVars, reads, sweepVars, cleared>>

\* The commit fails: the decision is answered, nothing is kept.
CommitFails(c) == Writable(c) /\ End(c, "lost") /\ NothingWritten

\* The first write fails, for the database is busy, or the device or the profile is
\* gone: 500.
FlushFails(c) ==
  /\ pc[c] = "record"
  /\ lock # c \/ ~Attributable(c)
  /\ End(c, "error") /\ NothingWritten

Ask(c) == \E i \in Clients : Arrive(c, i) \/ Unprofiled(c, i)

Decide(c) ==
  \/ Attribute(c) \/ AttributeFails(c) \/ Judge(c) \/ JudgeFails(c)
  \/ Record(c) \/ CommitFails(c) \/ FlushFails(c)

-----------------------------------------------------------------------------
(* Devices and profiles: the scanner's discover, and the administrators.   *)

SameButDevices == UNCHANGED <<itemVars, callVars, reads, sweepVars, cleared>>

\* Upsert by hardware address; without a default profile, 503.
Discover(m, i) ==
  /\ Free /\ Default \in profiles
  /\ devices' = devices \cup {m}
  /\ ip' = [ip EXCEPT ![m] = i]
  /\ recent' = recent \cup ({m} \ devices)
  /\ profileOf' = IF m \in devices THEN profileOf ELSE [profileOf EXCEPT ![m] = Default]
  /\ UNCHANGED <<profiles, rowVars>> /\ SameButDevices

\* Mutant: foreign keys are not enforced.
DeleteDeviceOnly(d) ==
  /\ Free /\ d \in devices
  /\ devices' = devices \ {d}
  /\ ip' = [ip EXCEPT ![d] = Nothing]
  /\ recent' = recent \ {d}
  /\ profileOf' = [profileOf EXCEPT ![d] = Nothing]
  /\ UNCHANGED <<profiles, rowVars>> /\ SameButDevices

\* The rows of the device keep its decisions and lose its name.
DeleteDevice(d) ==
  /\ Free /\ d \in devices
  /\ devices' = devices \ {d}
  /\ ip' = [ip EXCEPT ![d] = Nothing]
  /\ recent' = recent \ {d}
  /\ profileOf' = [profileOf EXCEPT ![d] = Nothing]
  /\ rowDevice' = [c \in Calls |-> IF rowDevice[c] = d THEN Nothing ELSE rowDevice[c]]
  /\ UNCHANGED <<profiles, rowId, rowProfile, signed, aged>> /\ SameButDevices

\* update_device gives a device another profile; its rows keep the one they have.
Reassign(d, p) ==
  /\ Free /\ d \in devices /\ p \in profiles
  /\ profileOf' = [profileOf EXCEPT ![d] = p]
  /\ UNCHANGED <<profiles, devices, ip, recent, rowVars>> /\ SameButDevices

\* The id of a new profile may be one that was deleted.
CreateProfile(p) ==
  /\ Free /\ p \notin profiles
  /\ profiles' = profiles \cup {p}
  /\ UNCHANGED <<devices, ip, recent, profileOf, rowVars>> /\ SameButDevices

\* A profile no device has: its rows lose its name.
DeleteProfile(p) ==
  /\ Free /\ p \in profiles /\ \A d \in devices : profileOf[d] # p
  /\ profiles' = profiles \ {p}
  /\ rowProfile' = [c \in Calls |-> IF rowProfile[c] = p THEN Nothing ELSE rowProfile[c]]
  /\ UNCHANGED <<devices, ip, recent, profileOf, rowId, rowDevice, signed, aged>>
  /\ SameButDevices

ManageProfiles ==
  \/ \E d \in Ids, p \in Profiles : Reassign(d, p)
  \/ \E p \in Profiles : CreateProfile(p) \/ DeleteProfile(p)

-----------------------------------------------------------------------------
(* The queue of held items, and the rows an administrator clears.          *)

SameButItems == UNCHANGED <<deviceVars, rowVars, callVars, sweepVars>>

\* An item may be resolved for an hour; the read and the write are two steps.
ReadItem(a, c) ==
  /\ reads[a] = 0 /\ item[c] = "pending"
  /\ reads' = [reads EXCEPT ![a] = itemId[c]]
  /\ UNCHANGED <<itemVars, cleared>> /\ SameButItems

\* The update of a row that is gone is an error, the last of two updates wins.
Resolve(a) ==
  /\ Free /\ reads[a] # 0
  /\ item' = [c \in Calls |-> IF itemId[c] = reads[a] THEN "settled" ELSE item[c]]
  /\ reads' = [reads EXCEPT ![a] = 0]
  /\ UNCHANGED <<itemId, cleared>> /\ SameButItems

\* Busy, or the API goes down: nothing was written.
ResolveFails(a) ==
  /\ reads[a] # 0
  /\ reads' = [reads EXCEPT ![a] = 0]
  /\ UNCHANGED <<itemVars, cleared>> /\ SameButItems

DropItems(C) ==
  /\ item' = [c \in Calls |-> IF c \in C THEN "none" ELSE item[c]]
  /\ itemId' = [c \in Calls |-> IF c \in C THEN 0 ELSE itemId[c]]

DropRows(C) ==
  /\ rowId' = [c \in Calls |-> IF c \in C THEN 0 ELSE rowId[c]]
  /\ rowDevice' = [c \in Calls |-> IF c \in C THEN Nothing ELSE rowDevice[c]]
  /\ rowProfile' = [c \in Calls |-> IF c \in C THEN Nothing ELSE rowProfile[c]]
  /\ signed' = [c \in Calls |-> IF c \in C THEN Signable(Nothing, Nothing) ELSE signed[c]]
  /\ aged' = aged \ C

DeleteItem(c) ==
  /\ Free /\ item[c] # "none"
  /\ DropItems({c}) /\ cleared' = TRUE
  /\ UNCHANGED reads /\ SameButItems

ClearAudit ==
  /\ Free /\ DropRows(Calls) /\ cleared' = TRUE
  /\ UNCHANGED <<deviceVars, itemVars, callVars, reads, sweepVars>>

-----------------------------------------------------------------------------
(* cleanup_expired, every day: rows first, then resolved items, in batches *)
(* of ids that are selected, then deleted; once more when found busy.       *)

SameButSweep == UNCHANGED <<deviceVars, callVars, reads, cleared>>

Wake ==
  /\ sweep = "sleep"
  /\ sweep' = "rows" /\ retried' = FALSE
  /\ UNCHANGED <<batch, rowVars, itemVars>> /\ SameButSweep

\* Mutant: an item counts as old by its age, whatever its status.
OldByAge(what) ==
  IF what = "rows" THEN {rowId[c] : c \in aged}
  ELSE {itemId[c] : c \in {k \in Calls : item[k] \in {"lapsed", "settledLong"}}}

Old(what) ==
  IF what = "rows" THEN {rowId[c] : c \in aged}
  ELSE {itemId[c] : c \in {k \in Calls : item[k] = "settledLong"}}

Select ==
  /\ sweep \in {"rows", "items"} /\ batch = {}
  /\ IF Old(sweep) = {}
     THEN /\ sweep' = IF sweep = "rows" THEN "items" ELSE "sleep"
          /\ UNCHANGED batch
     ELSE /\ \E B \in SUBSET Old(sweep) :
               B # {} /\ Cardinality(B) <= Batch /\ batch' = B
          /\ UNCHANGED sweep
  /\ UNCHANGED <<retried, rowVars, itemVars>> /\ SameButSweep

DeleteBatch ==
  /\ Free /\ batch # {}
  /\ IF sweep = "rows"
     THEN DropRows(Named(batch, rowId)) /\ UNCHANGED itemVars
     ELSE DropItems(Named(batch, itemId)) /\ UNCHANGED rowVars
  /\ batch' = {}
  /\ UNCHANGED <<sweep, retried>> /\ SameButSweep

SweepBusy ==
  /\ batch # {} /\ batch' = {}
  /\ IF retried THEN sweep' = "sleep" /\ UNCHANGED retried
                ELSE sweep' = "rows" /\ retried' = TRUE
  /\ UNCHANGED <<rowVars, itemVars>> /\ SameButSweep

-----------------------------------------------------------------------------
(* Time.                                                                   *)

SameButAge == UNCHANGED <<profiles, devices, ip, profileOf, rowId, rowDevice, rowProfile,
                          signed, itemId, callVars, reads, sweepVars, cleared>>

\* The hour of the rate limit and of a pending item.
HourPasses ==
  /\ recent' = {}
  /\ item' = [c \in Calls |-> IF item[c] = "pending" THEN "lapsed" ELSE item[c]]
  /\ UNCHANGED aged /\ SameButAge

RetentionPasses ==
  /\ recent' = {}
  /\ item' = [c \in Calls |-> CASE item[c] = "pending" -> "lapsed"
                                [] item[c] = "settled" -> "settledLong"
                                [] OTHER -> item[c]]
  /\ aged' = Rows
  /\ SameButAge

Next ==
  \/ \E c \in Calls : Ask(c) \/ Decide(c) \/ DeleteItem(c)
  \/ \E m \in Macs, i \in Clients : Discover(m, i)
  \/ \E d \in Ids : DeleteDevice(d)
  \/ ManageProfiles
  \/ \E a \in Admins : Resolve(a) \/ ResolveFails(a) \/ \E c \in Calls : ReadItem(a, c)
  \/ ClearAudit
  \/ Wake \/ Select \/ DeleteBatch \/ SweepBusy
  \/ HourPasses \/ RetentionPasses

Spec == Init /\ [][Next]_vars

-----------------------------------------------------------------------------
IdsOK(id) == /\ id \in [Calls -> 0..Cardinality(Calls)]
             /\ \A c, k \in Calls : id[c] = id[k] /\ c # k => id[c] = 0

TypeOK ==
  /\ profiles \in SUBSET Profiles
  /\ profileOf \in [Ids -> profiles \cup {Nothing}]
  /\ \A d \in Ids : profileOf[d] = Nothing <=> d \notin devices
  /\ devices \in SUBSET Ids /\ ip \in [Ids -> Clients \cup {Nothing}]
  /\ recent \in SUBSET devices
  /\ IdsOK(rowId) /\ aged \in SUBSET Rows
  /\ rowDevice \in [Calls -> devices \cup {Nothing}]
  /\ rowProfile \in [Calls -> profiles \cup {Nothing}]
  /\ signed \in [Calls -> [device : Ids \cup {Nothing}, profile : Profiles \cup {Nothing}]]
  /\ item \in [Calls -> Items] /\ IdsOK(itemId)
  /\ \A c \in Calls : item[c] = "none" <=> itemId[c] = 0
  /\ lock \in Calls \cup {Nothing}
  /\ pc \in [Calls -> {"new", "attribute", "judge", "record", "stored", "lost", "error"}]
  /\ client \in [Calls -> Clients \cup {Nothing}]
  /\ device \in [Calls -> Ids \cup {Nothing}] /\ profile \in [Calls -> Profiles \cup {Nothing}]
  /\ verdict \in [Calls -> {"none", "allow", "block"}]
  /\ reads \in [Admins -> 0..Cardinality(Calls)]
  /\ sweep \in {"sleep", "rows", "items"} /\ batch \in SUBSET (1..Cardinality(Calls))
  /\ retried \in BOOLEAN /\ cleared \in BOOLEAN

Unresolved == {"pending", "lapsed"}
Settled == {"settled", "settledLong"}

\* "pending items are kept regardless of age so nothing awaiting review
\* vanishes": as long as no administrator deletes anything, so that no id comes
\* back, the retention, which selects ids in one step and deletes them in another,
\* takes no item that waits.
RetentionSparesPending ==
  [][\A c \in Calls : ~cleared' /\ item[c] \in Unresolved => item'[c] # "none"]_vars

\* A row that still names its device and its profile verifies, whichever of the ways
\* above the device was found or made and whatever became of it since: one that does
\* not has lost the name of its device, or of its profile, to a deletion.
RegisteredRowsVerify ==
  \A c \in Rows : ~Verifies(c) => \/ rowDevice[c] = Nothing /\ signed[c].device \in Ids
                                  \/ rowProfile[c] = Nothing /\ signed[c].profile \in Profiles

\* What these rest on.  A call has an address before it attributes, and leaves a
\* row and an item only where its transaction is committed;
CallOrder ==
  \A c \in Calls : /\ pc[c] = "attribute" => client[c] \in Clients
                   /\ rowId[c] # 0 \/ item[c] # "none" => pc[c] = "stored"

\* so there are never more ids than such calls;
Stored == {c \in Calls : pc[c] = "stored"}
Numbered == \A c \in Calls : /\ rowId[c] <= Cardinality(Stored)
                             /\ itemId[c] <= Cardinality(Stored)

\* an id selected among the resolved items is still that of a resolved item, for
\* as long as no administrator deletes anything, and none is selected overnight.
BatchResolved ==
  /\ sweep = "sleep" => batch = {}
  /\ ~cleared /\ sweep = "items" =>
       \A n \in batch : \E c \in Calls : itemId[c] = n /\ item[c] \in Settled

\* The invariant that is inductive.
LedgerInv == TypeOK /\ RegisteredRowsVerify /\ CallOrder /\ Numbered /\ BatchResolved

\* An item waits once: neither a second resolution nor the retention puts an
\* item back into the queue, and no item comes without its audit row.
QueuedOnce ==
  [][\A c \in Calls : item[c] # "pending" /\ item'[c] = "pending"
                        => item[c] = "none" /\ rowId[c] = 0 /\ rowId'[c] # 0]_vars

\* What the household sees of it: not the decisions under way, nor the locks, the
\* ids and the ages of rows and items.
TrailRows == {[call |-> c, names |-> Signable(rowDevice[c], rowProfile[c]),
               signed |-> signed[c]] : c \in Rows}
WaitingItems == {c \in Calls : item[c] \in Unresolved}
SettledItems == {c \in Calls : item[c] \in Settled}
Trail == INSTANCE AuditTrail WITH decided <- Stored, trail <- TrailRows,
                                  waiting <- WaitingItems, resolved <- SettledItems

\* post_decide, however it is interleaved and wherever it fails, is one step of
\* the trail or none, and so is whatever the others do.
TrailRefined == Trail!TrailSpec
=============================================================================
