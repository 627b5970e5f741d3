---------------------------- MODULE Ledger_proofs ----------------------------
(***************************************************************************)
(* The audit trail and the queue of held items, for any number of          *)
(* decisions at once, clients, devices, administrators and batch sizes:    *)
(* rows name devices that are registered and verify until they lose one or *)
(* their profile; ids are never shared; the retention takes no item that   *)
(* waits, and no item waits twice.                                         *)
(***************************************************************************)
EXTENDS Ledger, FiniteSetTheorems, TLAPS

-----------------------------------------------------------------------------
(* Ids.                                                                    *)

\* A nonempty set of naturals with a bound has a maximum.
LEMMA MaxExists ==
  ASSUME NEW S \in SUBSET Nat, S # {}, NEW n \in Nat, \A x \in S : x <= n
  PROVE  \E x \in S : \A y \in S : x >= y
<1> DEFINE T == {k \in Nat : \E x \in S : x = n - k}
           R == OpToRel(<, Nat)
<1>1. T # {}
  <2>1. PICK x \in S : TRUE
    OBVIOUS
  <2>2. n - x \in Nat /\ x = n - (n - x)
    OBVIOUS
  <2>3. QED
    BY <2>1, <2>2
<1>2. T \subseteq Nat
  OBVIOUS
<1>3. PICK k \in T : \A j \in T : ~(<<j, k>> \in R)
  <2> HIDE DEF T, R
  <2>1. IsWellFoundedOn(R, Nat)
    BY NatLessThanWellFounded, Zenon DEF R
  <2>2. QED
    BY <1>1, <1>2, <2>1, WFMin
<1>4. \A j \in T : ~(j < k)
  BY <1>2, <1>3, Zenon DEF OpToRel
<1>5. ASSUME NEW y \in S PROVE n - k >= y
  <2>1. n - y \in T
    BY DEF T
  <2>2. ~(n - y < k)
    BY <1>4, <2>1
  <2>3. k \in Nat
    BY <1>2
  <2>4. QED
    BY <2>2, <2>3
<1>6. n - k \in S
  BY <1>3
<1>7. QED
  BY <1>5, <1>6

\* A new id is above all there are, and at most one more than their bound.
LEMMA NextIdStep ==
  ASSUME NEW n \in Nat, NEW id \in [Calls -> 0..n]
  PROVE  NextId(id) \in 1..(n + 1) /\ \A c \in Calls : id[c] < NextId(id)
<1> DEFINE S == {0} \cup {id[c] : c \in Calls}
<1>1. S \in SUBSET Nat /\ S # {} /\ \A x \in S : x <= n
  OBVIOUS
<1>2. \E x \in S : \A y \in S : x >= y
  <2> HIDE DEF S
  <2>1. QED
    BY <1>1, MaxExists
<1>3. Max(S) \in S /\ \A y \in S : Max(S) >= y
  BY <1>2 DEF Max
<1>4. Max(S) \in 0..n /\ \A c \in Calls : id[c] <= Max(S)
  BY <1>1, <1>3
<1>5. NextId(id) = Max(S) + 1
  BY DEF NextId
<1> HIDE DEF S
<1>6. QED
  BY <1>4, <1>5

\* Dropping rows, and writing one under the next id, keeps ids unique.
LEMMA DropIds ==
  ASSUME NEW id, IdsOK(id), NEW C
  PROVE  IdsOK([c \in Calls |-> IF c \in C THEN 0 ELSE id[c]])
<1>1. Cardinality(Calls) \in Nat
  BY FS_CardinalityType, LedgerAssumption
<1>2. QED
  BY <1>1 DEF IdsOK

\* Writing one more under the next id keeps ids unique.
LEMMA AddId ==
  ASSUME NEW id, IdsOK(id), NEW c \in Calls, NextId(id) <= Cardinality(Calls)
  PROVE  IdsOK([id EXCEPT ![c] = NextId(id)])
<1>1. Cardinality(Calls) \in Nat
  BY FS_CardinalityType, LedgerAssumption
<1>2. id \in [Calls -> 0..Cardinality(Calls)]
  BY DEF IdsOK
<1>3. NextId(id) \in 1..(Cardinality(Calls) + 1) /\ \A k \in Calls : id[k] < NextId(id)
  BY <1>1, <1>2, NextIdStep
<1>4. NextId(id) \in 0..Cardinality(Calls)
  BY <1>1, <1>3
<1>5. \A k \in Calls : id[k] # NextId(id)
  BY <1>1, <1>2, <1>3
<1>6. QED
  BY <1>2, <1>4, <1>5 DEF IdsOK

\* Never more calls have stored than there are.
LEMMA StoredFinite ==
  /\ IsFiniteSet(Stored) /\ Cardinality(Stored) \in Nat
  /\ Cardinality(Calls) \in Nat /\ Cardinality(Stored) <= Cardinality(Calls)
  /\ Stored # Calls => Cardinality(Stored) + 1 <= Cardinality(Calls)
<1>1. IsFiniteSet(Calls) /\ Stored \in SUBSET Calls
  BY LedgerAssumption DEF Stored
<1>2. /\ IsFiniteSet(Stored) /\ Cardinality(Stored) <= Cardinality(Calls)
      /\ Cardinality(Calls) = Cardinality(Stored) => Calls = Stored
  BY <1>1, FS_Subset
<1>3. Cardinality(Stored) \in Nat /\ Cardinality(Calls) \in Nat
  BY <1>1, <1>2, FS_CardinalityType
<1>4. QED
  BY <1>2, <1>3

\* The id of a new row: a call that records has not stored anything yet.
LEMMA RecordIds ==
  ASSUME TypeOK, Numbered, NEW c \in Calls, pc[c] # "stored"
  PROVE  /\ NextId(rowId) \in 1..Cardinality(Calls) /\ NextId(itemId) \in 1..Cardinality(Calls)
         /\ NextId(rowId) <= Cardinality(Stored) + 1
         /\ NextId(itemId) <= Cardinality(Stored) + 1
<1>1. Cardinality(Stored) + 1 <= Cardinality(Calls)
  BY StoredFinite DEF Stored
<1>2. rowId \in [Calls -> 0..Cardinality(Stored)] /\ itemId \in [Calls -> 0..Cardinality(Stored)]
  BY StoredFinite DEF Numbered, TypeOK, IdsOK
<1>3. /\ NextId(rowId) \in 1..(Cardinality(Stored) + 1)
      /\ NextId(itemId) \in 1..(Cardinality(Stored) + 1)
  BY <1>2, StoredFinite, NextIdStep
<1>4. QED
  BY <1>1, <1>3, StoredFinite

\* A commit counts the call among those that have stored.
LEMMA StoredGrows ==
  ASSUME TypeOK, NEW c \in Calls, Record(c)
  PROVE  Stored' = Stored \cup {c} /\ c \notin Stored
         /\ Cardinality(Stored') = Cardinality(Stored) + 1
<1>1. Stored' = Stored \cup {c} /\ c \notin Stored
  BY DEF Record, Writable, End, Stored, TypeOK
<1>2. QED
  BY <1>1, StoredFinite, FS_AddElement

\* No other step makes a call one that has stored, or the reverse.
LEMMA StoredStays ==
  ASSUME TypeOK, NEW c \in Calls,
         \/ Attribute(c) \/ AttributeFails(c) \/ Judge(c) \/ JudgeFails(c)
         \/ CommitFails(c) \/ FlushFails(c) \/ Ask(c)
  PROVE  Stored' = Stored
  BY DEF Attribute, AttributeFails, Attributed, Judge, JudgeFails, CommitFails, FlushFails,
         Ask, Arrive, Unprofiled, Writable, End, Stored, TypeOK

-----------------------------------------------------------------------------
(* Types.                                                                  *)

\* An empty database.
LEMMA InitLedger == Init => LedgerInv
<1> SUFFICES ASSUME Init PROVE LedgerInv
  OBVIOUS
<1>1. TypeOK
  <2>1. Cardinality(Calls) \in Nat
    BY StoredFinite
  <2>2. IdsOK(rowId) /\ IdsOK(itemId)
    BY <2>1 DEF Init, IdsOK
  <2>3. /\ ip \in [Ids -> Clients \cup {Nothing}]
        /\ profileOf \in [Ids -> profiles \cup {Nothing}]
        /\ rowDevice \in [Calls -> devices \cup {Nothing}]
        /\ rowProfile \in [Calls -> profiles \cup {Nothing}]
        /\ signed \in [Calls -> [device : Ids \cup {Nothing}, profile : Profiles \cup {Nothing}]]
        /\ client \in [Calls -> Clients \cup {Nothing}] /\ device \in [Calls -> Ids \cup {Nothing}]
        /\ profile \in [Calls -> Profiles \cup {Nothing}]
        /\ item \in [Calls -> Items] /\ \A c \in Calls : item[c] = "none" <=> itemId[c] = 0
    BY DEF Init, Items, Signable
  <2>4. /\ pc \in [Calls -> {"new", "attribute", "judge", "record", "stored", "lost", "error"}]
        /\ verdict \in [Calls -> {"none", "allow", "block"}]
        /\ reads \in [Admins -> 0..Cardinality(Calls)]
    BY <2>1 DEF Init
  <2>5. /\ devices \in SUBSET Ids /\ recent \in SUBSET devices /\ aged \in SUBSET Rows
        /\ profiles \in SUBSET Profiles /\ \A d \in Ids : profileOf[d] = Nothing <=> d \notin devices
    BY DEF Init
  <2>6. QED
    BY <2>2, <2>3, <2>4, <2>5 DEF Init, TypeOK
<1>2. RegisteredRowsVerify /\ CallOrder /\ BatchResolved
  BY DEF Init, RegisteredRowsVerify, Rows, CallOrder, BatchResolved
<1>3. Numbered
  BY StoredFinite DEF Init, Numbered
<1>4. QED
  BY <1>1, <1>2, <1>3 DEF LedgerInv

\* What a step of post_decide before its commit leaves alone.
LEMMA WrittenKept ==
  ASSUME TypeOK, NothingWritten,
         lock' \in Calls \cup {Nothing},
         pc' \in [Calls -> {"new", "attribute", "judge", "record", "stored", "lost", "error"}],
         client' \in [Calls -> Clients \cup {Nothing}],
         device' \in [Calls -> Ids \cup {Nothing}],
         profile' \in [Calls -> Profiles \cup {Nothing}],
         verdict' \in [Calls -> {"none", "allow", "block"}]
  PROVE  TypeOK'
  BY DEF TypeOK, NothingWritten, deviceVars, rowVars, itemVars, sweepVars, Rows, IdsOK

\* The end of a call, one way or the other.
LEMMA EndTypes ==
  ASSUME TypeOK, NEW c \in Calls, NEW how \in {"stored", "lost", "error"}, End(c, how)
  PROVE  /\ lock' \in Calls \cup {Nothing}
         /\ pc' \in [Calls -> {"new", "attribute", "judge", "record", "stored", "lost", "error"}]
         /\ client' \in [Calls -> Clients \cup {Nothing}]
         /\ device' \in [Calls -> Ids \cup {Nothing}]
         /\ profile' \in [Calls -> Profiles \cup {Nothing}]
         /\ verdict' \in [Calls -> {"none", "allow", "block"}]
  BY DEF End, TypeOK

\* The steps of post_decide up to its commit, which write no row.
LEMMA CallTypes ==
  ASSUME TypeOK, CallOrder, NEW c \in Calls,
         \/ Attribute(c) \/ AttributeFails(c) \/ Judge(c) \/ JudgeFails(c)
         \/ CommitFails(c) \/ FlushFails(c) \/ Ask(c)
  PROVE  TypeOK'
<1>1. CASE Ask(c)
  <2>1. PICK i \in Clients : Arrive(c, i) \/ Unprofiled(c, i)
    BY <1>1 DEF Ask
  <2>2. NothingWritten /\ lock' = lock /\ verdict' = verdict
    BY <2>1 DEF Arrive, Unprofiled
  <2>3. \A d \in At(i) : d \in Ids /\ profileOf[d] \in Profiles
    BY DEF At, TypeOK
  <2>4. /\ client' \in [Calls -> Clients \cup {Nothing}]
        /\ device' \in [Calls -> Ids \cup {Nothing}]
        /\ profile' \in [Calls -> Profiles \cup {Nothing}]
        /\ pc' \in [Calls -> {"new", "attribute", "judge", "record", "stored", "lost", "error"}]
    <3>1. CASE Unprofiled(c, i)
      BY <3>1 DEF Unprofiled, TypeOK
    <3>2. CASE /\ Arrive(c, i) /\ At(i) = {} /\ device' = device
               /\ profile' = [profile EXCEPT ![c] = Default]
               /\ pc' = [pc EXCEPT ![c] = "attribute"]
      BY <3>2, LedgerAssumption DEF Arrive, TypeOK
    <3>3. ASSUME NEW d \in At(i), Arrive(c, i), device' = [device EXCEPT ![c] = d],
                 profile' = [profile EXCEPT ![c] = profileOf[d]],
                 pc' = [pc EXCEPT ![c] = "judge"]
          PROVE  /\ client' \in [Calls -> Clients \cup {Nothing}]
                 /\ device' \in [Calls -> Ids \cup {Nothing}]
                 /\ profile' \in [Calls -> Profiles \cup {Nothing}]
                 /\ pc' \in [Calls -> {"new", "attribute", "judge", "record", "stored", "lost",
                                       "error"}]
      BY <2>3, <3>3 DEF Arrive, TypeOK
    <3>4. QED
      BY <2>1, <3>1, <3>2, <3>3 DEF Arrive
  <2>5. lock' \in Calls \cup {Nothing} /\ verdict' \in [Calls -> {"none", "allow", "block"}]
    BY <2>2 DEF TypeOK
  <2>6. QED
    BY <2>2, <2>4, <2>5, WrittenKept
<1>2. CASE Attribute(c) \/ AttributeFails(c)
  <2>1. client[c] \in Clients
    BY <1>2 DEF Attribute, AttributeFails, CallOrder
  <2>2. Present(client[c]) \subseteq Ids
    BY DEF Present, At, TypeOK
  <2>3. \E d \in Ids \cup {Nothing} : Attributed(c, d)
    BY <1>2, <2>1, <2>2 DEF Attribute, AttributeFails, Ids
  <2>4. lock' \in Calls \cup {Nothing}
    BY <1>2 DEF Attribute, AttributeFails, TypeOK
  <2>5. QED
    BY <2>3, <2>4, WrittenKept DEF Attributed, TypeOK
<1>3. CASE Judge(c)
  BY <1>3, WrittenKept DEF Judge, TypeOK
<1>4. CASE JudgeFails(c) \/ CommitFails(c) \/ FlushFails(c)
  BY <1>4, EndTypes, WrittenKept DEF JudgeFails, CommitFails, FlushFails
<1>5. QED
  BY <1>1, <1>2, <1>3, <1>4

\* The commit: the device it created, its row, and the item it holds.
LEMMA RecordTypes ==
  ASSUME LedgerInv, NEW c \in Calls, Record(c)
  PROVE  TypeOK'
<1> USE DEF LedgerInv
<1>1. /\ pc[c] = "record" /\ rowId[c] = 0 /\ item[c] = "none" /\ itemId[c] = 0
      /\ device[c] \in Ids \cup {Nothing} /\ client[c] \in Clients \cup {Nothing}
      /\ profile[c] \in profiles
  BY DEF Record, Writable, Attributable, CallOrder, TypeOK
<1>2. /\ NextId(rowId) \in 1..Cardinality(Calls)
      /\ NextId(itemId) \in 1..Cardinality(Calls)
      /\ NextId(rowId) <= Cardinality(Calls) /\ NextId(itemId) <= Cardinality(Calls)
      /\ Cardinality(Calls) \in Nat
  BY <1>1, RecordIds, StoredFinite
<1>3. /\ devices' \in SUBSET Ids /\ devices \subseteq devices' /\ recent' \in SUBSET devices'
      /\ ip' \in [Ids -> Clients \cup {Nothing}]
      /\ device[c] \in devices' \cup {Nothing}
      /\ profiles' = profiles /\ profileOf' \in [Ids -> profiles \cup {Nothing}]
      /\ \A d \in Ids : profileOf'[d] = Nothing <=> d \notin devices'
  <2>1. profile[c] # Nothing
    BY <1>1, LedgerAssumption DEF TypeOK
  <2>2. QED
    BY <1>1, <2>1 DEF Record, SaveDevice, New, Refreshed, Writable, Attributable, TypeOK
<1>4. IdsOK(rowId') /\ aged' \in SUBSET Rows'
  <2>1. rowId' = [rowId EXCEPT ![c] = NextId(rowId)] /\ aged' = aged
    BY DEF Record
  <2>2. IdsOK(rowId')
    <3>1. IdsOK(rowId)
      BY DEF TypeOK
    <3>2. IdsOK([rowId EXCEPT ![c] = NextId(rowId)])
      BY <1>2, <3>1, AddId
    <3>3. QED
      BY <2>1, <3>2
  <2>3. Rows \subseteq Rows'
    BY <1>2, <2>1 DEF Rows, TypeOK, IdsOK
  <2>4. QED
    BY <2>1, <2>2, <2>3 DEF TypeOK
<1>5. /\ item' \in [Calls -> Items] /\ IdsOK(itemId')
      /\ \A k \in Calls : item'[k] = "none" <=> itemId'[k] = 0
  <2>1. CASE UNCHANGED itemVars
    BY <2>1 DEF itemVars, TypeOK
  <2>2. CASE /\ item' = [item EXCEPT ![c] = "pending"]
             /\ itemId' = [itemId EXCEPT ![c] = NextId(itemId)]
    <3>1. IdsOK(itemId')
      <4>1. IdsOK(itemId)
        BY DEF TypeOK
      <4>2. IdsOK([itemId EXCEPT ![c] = NextId(itemId)])
        BY <1>2, <4>1, AddId
      <4>3. QED
        BY <2>2, <4>2
    <3>2. item' \in [Calls -> Items]
      BY <2>2 DEF TypeOK, Items
    <3>3. \A k \in Calls : item'[k] = "none" <=> itemId'[k] = 0
      BY <1>2, <2>2 DEF TypeOK, IdsOK
    <3>4. QED
      BY <3>1, <3>2, <3>3
  <2>3. QED
    BY <2>1, <2>2 DEF Record, Hold
<1>6. /\ rowDevice' \in [Calls -> devices' \cup {Nothing}]
      /\ rowProfile' \in [Calls -> profiles' \cup {Nothing}]
      /\ signed' \in [Calls -> [device : Ids \cup {Nothing}, profile : Profiles \cup {Nothing}]]
  <2>1. Signable(device[c], profile[c])
          \in [device : Ids \cup {Nothing}, profile : Profiles \cup {Nothing}]
    BY <1>1 DEF Signable, TypeOK
  <2>2. QED
    BY <1>1, <1>3, <2>1 DEF Record, Sign, TypeOK
<1>7. /\ lock' \in Calls \cup {Nothing}
      /\ pc' \in [Calls -> {"new", "attribute", "judge", "record", "stored", "lost", "error"}]
      /\ client' \in [Calls -> Clients \cup {Nothing}]
      /\ device' \in [Calls -> Ids \cup {Nothing}]
      /\ profile' \in [Calls -> Profiles \cup {Nothing}]
      /\ verdict' \in [Calls -> {"none", "allow", "block"}]
  BY EndTypes DEF Record
<1>8. QED
  BY <1>3, <1>4, <1>5, <1>6, <1>7 DEF Record, sweepVars, TypeOK

\* The scanner, and the administrators of devices and profiles.
LEMMA DeviceTypes ==
  ASSUME TypeOK,
         \/ \E m \in Macs, i \in Clients : Discover(m, i)
         \/ \E d \in Ids : DeleteDevice(d)
         \/ ManageProfiles
  PROVE  TypeOK'
<1>1. ASSUME UNCHANGED <<rowId, signed, aged, itemVars, callVars, reads, sweepVars, cleared>>,
             profiles' \in SUBSET Profiles,
             profileOf' \in [Ids -> profiles' \cup {Nothing}],
             \A d \in Ids : profileOf'[d] = Nothing <=> d \notin devices',
             devices' \in SUBSET Ids, recent' \in SUBSET devices',
             ip' \in [Ids -> Clients \cup {Nothing}],
             rowDevice' \in [Calls -> devices' \cup {Nothing}],
             rowProfile' \in [Calls -> profiles' \cup {Nothing}]
      PROVE  TypeOK'
  BY <1>1 DEF TypeOK, itemVars, callVars, sweepVars, Rows, IdsOK
<1>2. ASSUME NEW m \in Macs, NEW i \in Clients, Discover(m, i) PROVE TypeOK'
  <2>1. /\ devices' \in SUBSET Ids /\ devices \subseteq devices' /\ recent' \in SUBSET devices'
        /\ ip' \in [Ids -> Clients \cup {Nothing}]
    BY <1>2 DEF Discover, TypeOK, Ids
  <2>2. /\ profiles' = profiles /\ profileOf' \in [Ids -> profiles \cup {Nothing}]
        /\ \A d \in Ids : profileOf'[d] = Nothing <=> d \notin devices'
    BY <1>2, LedgerAssumption DEF Discover, TypeOK, Ids
  <2>3. /\ rowDevice' \in [Calls -> devices' \cup {Nothing}]
        /\ rowProfile' \in [Calls -> profiles \cup {Nothing}]
    BY <1>2, <2>1 DEF Discover, rowVars, TypeOK
  <2>4. QED
    BY <1>1, <1>2, <2>1, <2>2, <2>3 DEF Discover, SameButDevices, rowVars, TypeOK
<1>3. ASSUME NEW d \in Ids, DeleteDevice(d) PROVE TypeOK'
  <2>1. /\ devices' \in SUBSET Ids /\ recent' \in SUBSET devices'
        /\ ip' \in [Ids -> Clients \cup {Nothing}]
    BY <1>3 DEF DeleteDevice, TypeOK
  <2>2. /\ profiles' = profiles /\ profileOf' \in [Ids -> profiles \cup {Nothing}]
        /\ \A k \in Ids : profileOf'[k] = Nothing <=> k \notin devices'
    BY <1>3 DEF DeleteDevice, TypeOK
  <2>3. /\ rowDevice' \in [Calls -> devices' \cup {Nothing}]
        /\ rowProfile' \in [Calls -> profiles \cup {Nothing}]
    BY <1>3 DEF DeleteDevice, TypeOK
  <2>4. QED
    BY <1>1, <1>3, <2>1, <2>2, <2>3 DEF DeleteDevice, SameButDevices, TypeOK
<1>4. ASSUME NEW d \in Ids, NEW p \in Profiles, Reassign(d, p) PROVE TypeOK'
  <2>1. p # Nothing
    BY <1>4, LedgerAssumption DEF Reassign, TypeOK
  <2>2. /\ profileOf' \in [Ids -> profiles' \cup {Nothing}]
        /\ \A k \in Ids : profileOf'[k] = Nothing <=> k \notin devices'
    BY <1>4, <2>1 DEF Reassign, TypeOK
  <2>3. QED
    BY <1>1, <1>4, <2>2 DEF Reassign, SameButDevices, rowVars, TypeOK
<1>5. ASSUME NEW p \in Profiles, CreateProfile(p) PROVE TypeOK'
  BY <1>1, <1>5 DEF CreateProfile, SameButDevices, rowVars, TypeOK
<1>6. ASSUME NEW p \in Profiles, DeleteProfile(p) PROVE TypeOK'
  <2>1. /\ profiles' = profiles \ {p} /\ profileOf' = profileOf /\ devices' = devices
        /\ \A d \in devices : profileOf[d] # p
    BY <1>6 DEF DeleteProfile, TypeOK
  <2>2. rowProfile' \in [Calls -> profiles' \cup {Nothing}]
    BY <1>6 DEF DeleteProfile, TypeOK
  <2>3. UNCHANGED <<rowId, signed, aged, itemVars, callVars, reads, sweepVars, cleared,
                    devices, recent, ip, rowDevice>>
    BY <1>6 DEF DeleteProfile, SameButDevices
  <2>4. /\ profiles' \in SUBSET Profiles /\ \A d \in Ids : profileOf'[d] = Nothing <=> d \notin devices'
        /\ devices' \in SUBSET Ids /\ recent' \in SUBSET devices'
        /\ ip' \in [Ids -> Clients \cup {Nothing}]
        /\ rowDevice' \in [Calls -> devices' \cup {Nothing}]
    BY <2>1, <2>3 DEF TypeOK
  <2>5. profileOf' \in [Ids -> profiles' \cup {Nothing}]
    BY <1>6, <2>1 DEF DeleteProfile, TypeOK
  <2>6. QED
    BY <1>1, <2>2, <2>3, <2>4, <2>5
<1>7. QED
  BY <1>2, <1>3, <1>4, <1>5, <1>6 DEF ManageProfiles

\* Resolving keeps the ids, and resolves only what is an item.
LEMMA ResolveTypes ==
  ASSUME TypeOK, NEW a \in Admins,
         Resolve(a) \/ ResolveFails(a) \/ \E c \in Calls : ReadItem(a, c)
  PROVE  TypeOK'
<1>1. /\ item' \in [Calls -> Items] /\ itemId' = itemId
      /\ \A k \in Calls : item'[k] = "none" <=> itemId'[k] = 0
  BY DEF Resolve, ResolveFails, ReadItem, itemVars, TypeOK, Items, IdsOK
<1>2. reads' \in [Admins -> 0..Cardinality(Calls)]
  BY StoredFinite DEF Resolve, ResolveFails, ReadItem, TypeOK, IdsOK
<1>3. UNCHANGED <<deviceVars, rowVars, callVars, sweepVars, cleared>>
  BY DEF Resolve, ResolveFails, ReadItem, SameButItems
<1>4. QED
  BY <1>1, <1>2, <1>3 DEF TypeOK, deviceVars, rowVars, callVars, sweepVars, Rows, IdsOK

\* Deleting rows or items leaves the others as they are.
LEMMA DropRowsTypes ==
  ASSUME TypeOK, NEW C, DropRows(C)
  PROVE  /\ IdsOK(rowId') /\ aged' \in SUBSET Rows'
         /\ rowDevice' \in [Calls -> devices \cup {Nothing}]
         /\ rowProfile' \in [Calls -> profiles \cup {Nothing}]
         /\ signed' \in [Calls -> [device : Ids \cup {Nothing}, profile : Profiles \cup {Nothing}]]
<1>1. IdsOK(rowId')
  <2>1. IdsOK(rowId) /\ rowId' = [c \in Calls |-> IF c \in C THEN 0 ELSE rowId[c]]
    BY DEF DropRows, TypeOK
  <2>2. QED
    BY <2>1, DropIds
<1>2. aged' \in SUBSET Rows'
  BY DEF DropRows, TypeOK, Rows
<1>3. QED
  BY <1>1, <1>2 DEF DropRows, Signable, TypeOK

\* The same for items.
LEMMA DropItemsTypes ==
  ASSUME TypeOK, NEW C, DropItems(C)
  PROVE  /\ IdsOK(itemId') /\ item' \in [Calls -> Items]
         /\ \A k \in Calls : item'[k] = "none" <=> itemId'[k] = 0
<1>1. IdsOK(itemId')
  <2>1. IdsOK(itemId) /\ itemId' = [c \in Calls |-> IF c \in C THEN 0 ELSE itemId[c]]
    BY DEF DropItems, TypeOK
  <2>2. QED
    BY <2>1, DropIds
<1>2. QED
  BY <1>1 DEF DropItems, TypeOK, Items

\* An administrator or the retention deletes.
LEMMA DropTypes ==
  ASSUME TypeOK, ClearAudit \/ DeleteBatch \/ \E c \in Calls : DeleteItem(c)
  PROVE  TypeOK'
<1>1. ASSUME NEW C, DropRows(C), itemVars' = itemVars, batch' \in SUBSET (1..Cardinality(Calls)),
             cleared' \in BOOLEAN, UNCHANGED <<deviceVars, callVars, reads, sweep, retried>>
      PROVE  TypeOK'
  <2>1. /\ IdsOK(rowId') /\ aged' \in SUBSET Rows'
        /\ rowDevice' \in [Calls -> devices \cup {Nothing}]
        /\ rowProfile' \in [Calls -> profiles \cup {Nothing}]
        /\ signed' \in [Calls -> [device : Ids \cup {Nothing}, profile : Profiles \cup {Nothing}]]
    BY <1>1, DropRowsTypes
  <2>2. QED
    BY <1>1, <2>1 DEF TypeOK, deviceVars, itemVars, callVars, IdsOK
<1>2. ASSUME NEW C, DropItems(C), rowVars' = rowVars, batch' \in SUBSET (1..Cardinality(Calls)),
             cleared' \in BOOLEAN, UNCHANGED <<deviceVars, callVars, reads, sweep, retried>>
      PROVE  TypeOK'
  <2>1. /\ IdsOK(itemId') /\ item' \in [Calls -> Items]
        /\ \A k \in Calls : item'[k] = "none" <=> itemId'[k] = 0
    BY <1>2, DropItemsTypes
  <2>2. QED
    BY <1>2, <2>1 DEF TypeOK, deviceVars, rowVars, callVars, Rows, IdsOK
<1>3. CASE ClearAudit
  BY <1>1, <1>3 DEF ClearAudit, sweepVars, TypeOK
<1>4. CASE DeleteBatch
  BY <1>1, <1>2, <1>4 DEF DeleteBatch, SameButSweep, TypeOK
<1>5. CASE \E c \in Calls : DeleteItem(c)
  BY <1>2, <1>5 DEF DeleteItem, SameButItems, sweepVars, TypeOK
<1>6. QED
  BY <1>3, <1>4, <1>5

\* The ids selected are ids of rows, or of items.
LEMMA OldIds ==
  ASSUME TypeOK, sweep \in {"rows", "items"}
  PROVE  Old(sweep) \subseteq 1..Cardinality(Calls)
  BY StoredFinite DEF Old, TypeOK, Rows, IdsOK

\* The retention between its deletions.
LEMMA SweepTypes ==
  ASSUME TypeOK, Wake \/ Select \/ SweepBusy
  PROVE  TypeOK'
<1>1. batch' \in SUBSET (1..Cardinality(Calls))
  BY OldIds DEF Wake, Select, SweepBusy, TypeOK
<1>2. sweep' \in {"sleep", "rows", "items"} /\ retried' \in BOOLEAN
  BY DEF Wake, Select, SweepBusy, TypeOK
<1>3. UNCHANGED <<rowVars, itemVars, deviceVars, callVars, reads, cleared>>
  BY DEF Wake, Select, SweepBusy, SameButSweep
<1>4. QED
  BY <1>1, <1>2, <1>3 DEF TypeOK, rowVars, itemVars, deviceVars, callVars, Rows, IdsOK

\* Time passes.
LEMMA AgeTypes ==
  ASSUME TypeOK, HourPasses \/ RetentionPasses
  PROVE  TypeOK'
<1>1. /\ item' \in [Calls -> Items]
      /\ \A k \in Calls : item'[k] = "none" <=> item[k] = "none"
  BY DEF HourPasses, RetentionPasses, TypeOK, Items
<1>2. recent' = {} /\ aged' \in SUBSET Rows /\ SameButAge
  BY DEF HourPasses, RetentionPasses, TypeOK
<1>3. QED
  BY <1>1, <1>2 DEF SameButAge, TypeOK, callVars, sweepVars, Rows, IdsOK

\* Every step keeps the types, the uniqueness of ids and the foreign keys.
LEMMA StepTypeOK == LedgerInv /\ [Next]_vars => TypeOK'
<1> SUFFICES ASSUME LedgerInv, [Next]_vars PROVE TypeOK'
  OBVIOUS
<1> USE DEF LedgerInv
<1>1. CASE UNCHANGED vars
  BY <1>1 DEF vars, deviceVars, rowVars, itemVars, callVars, sweepVars, TypeOK, Rows, IdsOK
<1>2. ASSUME NEW c \in Calls, Decide(c) \/ Ask(c) PROVE TypeOK'
  BY <1>2, CallTypes, RecordTypes DEF Decide
<1>3. QED
  BY <1>1, <1>2, DeviceTypes, ResolveTypes, DropTypes, SweepTypes, AgeTypes DEF Next

-----------------------------------------------------------------------------
(* Signatures, the order of a call, and the ids.                           *)

\* A row is written with the device and the profile it is signed for, and changes
\* only to lose them.
LEMMA StepVerify == LedgerInv /\ [Next]_vars => RegisteredRowsVerify'
<1> SUFFICES ASSUME LedgerInv, [Next]_vars PROVE RegisteredRowsVerify'
  OBVIOUS
<1> USE DEF LedgerInv
<1> DEFINE Lost(c) == \/ rowDevice[c] = Nothing /\ signed[c].device \in Ids
                      \/ rowProfile[c] = Nothing /\ signed[c].profile \in Profiles
<1>1. ASSUME NEW c \in Calls, Record(c) PROVE RegisteredRowsVerify'
  <2>1. /\ rowDevice' = [rowDevice EXCEPT ![c] = device[c]]
        /\ rowProfile' = [rowProfile EXCEPT ![c] = profile[c]]
        /\ signed' = [signed EXCEPT ![c] = Signable(device[c], profile[c])]
        /\ rowId' = [rowId EXCEPT ![c] = NextId(rowId)]
    BY <1>1 DEF Record, Sign
  <2>2. \A k \in Calls \ {c} : /\ rowId'[k] = rowId[k] /\ signed'[k] = signed[k]
                               /\ rowDevice'[k] = rowDevice[k] /\ rowProfile'[k] = rowProfile[k]
    BY <2>1 DEF TypeOK, IdsOK
  <2>3. signed'[c] = Signable(rowDevice'[c], rowProfile'[c])
    BY <2>1 DEF TypeOK
  <2>4. QED
    BY <2>2, <2>3 DEF RegisteredRowsVerify, Rows, Verifies
<1>2. ASSUME NEW d \in Ids, DeleteDevice(d) PROVE RegisteredRowsVerify'
  <2>1. ASSUME NEW c \in Rows', ~Verifies(c)'
        PROVE  Lost(c)'
    <3>1. c \in Rows /\ c \in Calls /\ UNCHANGED <<signed, rowProfile>>
      BY <1>2, <2>1 DEF DeleteDevice, Rows
    <3>2. rowDevice'[c] = IF rowDevice[c] = d THEN Nothing ELSE rowDevice[c]
      BY <1>2, <3>1 DEF DeleteDevice
    <3>3. Verifies(c) => rowDevice[c] = d /\ signed[c].device = d
      BY <2>1, <3>1, <3>2 DEF Verifies, Signable
    <3>4. ~Verifies(c) => Lost(c)
      BY <3>1 DEF RegisteredRowsVerify
    <3>5. QED
      BY <3>1, <3>2, <3>3, <3>4
  <2>2. QED
    BY <2>1 DEF RegisteredRowsVerify
<1>3. ASSUME NEW p \in Profiles, DeleteProfile(p) PROVE RegisteredRowsVerify'
  <2>1. ASSUME NEW c \in Rows', ~Verifies(c)'
        PROVE  Lost(c)'
    <3>1. c \in Rows /\ c \in Calls /\ UNCHANGED <<signed, rowDevice>>
      BY <1>3, <2>1 DEF DeleteProfile, Rows
    <3>2. rowProfile'[c] = IF rowProfile[c] = p THEN Nothing ELSE rowProfile[c]
      BY <1>3, <3>1 DEF DeleteProfile
    <3>3. Verifies(c) => rowProfile[c] = p /\ signed[c].profile = p
      BY <2>1, <3>1, <3>2 DEF Verifies, Signable
    <3>4. ~Verifies(c) => Lost(c)
      BY <3>1 DEF RegisteredRowsVerify
    <3>5. QED
      BY <3>1, <3>2, <3>3, <3>4
  <2>2. QED
    BY <2>1 DEF RegisteredRowsVerify
<1>4. ASSUME NEW C, DropRows(C) PROVE RegisteredRowsVerify'
  BY <1>4 DEF DropRows, RegisteredRowsVerify, Rows, Verifies
<1>5. CASE UNCHANGED <<rowId, rowDevice, rowProfile, signed>>
  BY <1>5 DEF RegisteredRowsVerify, Rows, Verifies
<1>6. ASSUME NEW c \in Calls,
             \/ Attribute(c) \/ AttributeFails(c) \/ Judge(c) \/ JudgeFails(c)
             \/ CommitFails(c) \/ FlushFails(c) \/ Ask(c)
             \/ DeleteItem(c)
      PROVE  RegisteredRowsVerify'
  BY <1>5, <1>6 DEF Attribute, AttributeFails, Attributed, Judge, JudgeFails, CommitFails,
                    FlushFails, Ask, Arrive, Unprofiled, DeleteItem, NothingWritten, SameButItems, rowVars
<1>7. CASE \/ \E m \in Macs, i \in Clients : Discover(m, i)
           \/ \E d \in Ids, p \in Profiles : Reassign(d, p)
           \/ \E p \in Profiles : CreateProfile(p)
           \/ \E a \in Admins : Resolve(a) \/ ResolveFails(a) \/ \E c \in Calls : ReadItem(a, c)
           \/ Wake \/ Select \/ SweepBusy \/ HourPasses \/ RetentionPasses \/ UNCHANGED vars
  BY <1>5, <1>7 DEF Discover, Reassign, CreateProfile, Resolve, ResolveFails, ReadItem, Wake, Select, SweepBusy,
                    HourPasses, RetentionPasses, SameButItems, SameButAge, rowVars, vars
<1>8. CASE ClearAudit \/ DeleteBatch
  BY <1>4, <1>5, <1>8 DEF ClearAudit, DeleteBatch, rowVars
<1>9. QED
  BY <1>1, <1>2, <1>3, <1>6, <1>7, <1>8 DEF Next, Decide, ManageProfiles

\* Rows and items come with a commit, and disappear or age otherwise.
LEMMA RowsComeWithRecord ==
  ASSUME TypeOK, [Next]_vars
  PROVE  \/ \E c \in Calls : Record(c)
         \/ \A k \in Calls : /\ rowId'[k] \in {rowId[k], 0}
                             /\ itemId'[k] \in {itemId[k], 0}
                             /\ item'[k] # "none" => item[k] # "none"
                             /\ item'[k] = "pending" => item[k] = "pending"
<1> DEFINE Kept == \A k \in Calls : /\ rowId'[k] \in {rowId[k], 0}
                                    /\ itemId'[k] \in {itemId[k], 0}
                                    /\ item'[k] # "none" => item[k] # "none"
                                    /\ item'[k] = "pending" => item[k] = "pending"
<1>1. CASE UNCHANGED <<rowId, itemVars>>
  BY <1>1 DEF itemVars
<1>2. ASSUME NEW c \in Calls,
             \/ Attribute(c) \/ AttributeFails(c) \/ Judge(c) \/ JudgeFails(c)
             \/ CommitFails(c) \/ FlushFails(c) \/ Ask(c)
      PROVE  Kept
  <2>1. NothingWritten
    BY <1>2 DEF Attribute, AttributeFails, Attributed, Judge, JudgeFails, CommitFails,
                FlushFails, Ask, Arrive, Unprofiled
  <2>2. rowId' = rowId /\ item' = item /\ itemId' = itemId
    BY <2>1 DEF NothingWritten, rowVars, itemVars
  <2>3. QED
    BY <2>2
<1>3. CASE \/ \E m \in Macs, i \in Clients : Discover(m, i)
           \/ \E d \in Ids : DeleteDevice(d)
           \/ ManageProfiles
           \/ \E a \in Admins : ResolveFails(a) \/ \E c \in Calls : ReadItem(a, c)
           \/ Wake \/ Select \/ SweepBusy \/ UNCHANGED vars
  BY <1>1, <1>3 DEF Discover, DeleteDevice, ManageProfiles, Reassign, CreateProfile,
                    DeleteProfile, SameButDevices, ResolveFails, ReadItem, Wake, Select, SweepBusy,
                    SameButItems, rowVars, vars
<1>4. ASSUME NEW a \in Admins, Resolve(a) PROVE Kept
  <2>1. \A k \in Calls : itemId[k] = reads[a] => item[k] # "none"
    BY <1>4 DEF Resolve, TypeOK
  <2>2. QED
    BY <1>4, <2>1 DEF Resolve, SameButItems, rowVars
<1>5. CASE HourPasses \/ RetentionPasses
  BY <1>5 DEF HourPasses, RetentionPasses, SameButAge, TypeOK, Items
<1>6. ASSUME NEW C, DropRows(C), UNCHANGED itemVars PROVE Kept
  BY <1>6 DEF DropRows, itemVars
<1>7. ASSUME NEW C, DropItems(C), UNCHANGED rowVars PROVE Kept
  BY <1>7 DEF DropItems, rowVars
<1>8. CASE ClearAudit \/ DeleteBatch \/ \E c \in Calls : DeleteItem(c)
  BY <1>6, <1>7, <1>8 DEF ClearAudit, DeleteBatch, DeleteItem, SameButItems
<1>9. QED
  BY <1>2, <1>3, <1>4, <1>5, <1>8 DEF Next, Decide

\* A call attributes once it has its client's address.
LEMMA CallsStay ==
  ASSUME TypeOK, [Next]_vars
  PROVE  \/ \E c \in Calls : Decide(c) \/ Ask(c)
         \/ UNCHANGED callVars
  BY DEF Next, DeleteItem, Discover, DeleteDevice, ManageProfiles, Reassign, CreateProfile,
         DeleteProfile, SameButDevices, Resolve, ResolveFails, ReadItem, ClearAudit,
         Wake, Select, DeleteBatch, SweepBusy, HourPasses, RetentionPasses, SameButItems,
         SameButSweep, SameButAge, callVars, vars

\* post_decide does things in its order, whatever happens beside it.
LEMMA StepCallOrder == LedgerInv /\ [Next]_vars => CallOrder'
<1> SUFFICES ASSUME LedgerInv, [Next]_vars, NEW k \in Calls
             PROVE  /\ pc'[k] = "attribute" => client'[k] \in Clients
                    /\ rowId'[k] # 0 \/ item'[k] # "none" => pc'[k] = "stored"
  BY DEF CallOrder
<1> USE DEF LedgerInv
<1>1. pc[k] = "attribute" => client[k] \in Clients
  BY DEF CallOrder
<1>2. pc'[k] = "attribute" => client'[k] \in Clients
  <2>1. ASSUME NEW c \in Calls, Ask(c)
        PROVE  pc'[k] = "attribute" => client'[k] \in Clients
    BY <1>1, <2>1 DEF Ask, Arrive, Unprofiled, TypeOK
  <2>2. ASSUME NEW c \in Calls, NEW how \in {"stored", "lost", "error"}, End(c, how)
        PROVE  pc'[k] = "attribute" => client'[k] \in Clients
    BY <1>1, <2>2 DEF End, TypeOK
  <2>3. ASSUME NEW c \in Calls, Attribute(c) \/ AttributeFails(c) \/ Judge(c)
        PROVE  pc'[k] = "attribute" => client'[k] \in Clients
    BY <1>1, <2>3 DEF Attribute, AttributeFails, Attributed, Judge, TypeOK
  <2>4. CASE UNCHANGED callVars
    BY <1>1, <2>4 DEF callVars
  <2>5. QED
    BY <2>1, <2>2, <2>3, <2>4, CallsStay DEF Decide, JudgeFails, CommitFails, FlushFails, Record
<1>3. pc[k] = "stored" => pc'[k] = "stored"
  <2>1. ASSUME NEW c \in Calls, Decide(c) \/ Ask(c), pc[k] = "stored"
        PROVE  pc'[k] = "stored"
    <3>1. pc[c] # "stored" /\ \E s : pc' = [pc EXCEPT ![c] = s]
      BY <2>1 DEF Decide, Ask, Arrive, Unprofiled, Attribute, AttributeFails, Attributed,
                  Judge, JudgeFails, CommitFails, FlushFails, Record, Writable, End
    <3>2. QED
      BY <2>1, <3>1 DEF TypeOK
  <2>2. QED
    BY <2>1, CallsStay DEF callVars
<1>4. rowId'[k] # 0 \/ item'[k] # "none" => pc'[k] = "stored"
  <2>1. ASSUME NEW c \in Calls, Record(c), rowId'[k] # 0 \/ item'[k] # "none"
        PROVE  pc'[k] = "stored"
    <3>1. pc' = [pc EXCEPT ![c] = "stored"]
      BY <2>1 DEF Record, End
    <3>2. k # c => rowId'[k] = rowId[k] /\ item'[k] = item[k]
      BY <2>1 DEF Record, Hold, itemVars, TypeOK, IdsOK
    <3>3. QED
      BY <2>1, <3>1, <3>2 DEF CallOrder, TypeOK
  <2>2. QED
    BY <1>3, <2>1, RowsComeWithRecord DEF CallOrder
<1>5. QED
  BY <1>2, <1>4

\* Ids never run past the number of calls that have stored.
LEMMA StepNumbered == LedgerInv /\ [Next]_vars => Numbered'
<1> SUFFICES ASSUME LedgerInv, [Next]_vars PROVE Numbered'
  OBVIOUS
<1> USE DEF LedgerInv
<1>1. \A k \in Calls : /\ rowId[k] \in Nat /\ itemId[k] \in Nat
                       /\ rowId[k] <= Cardinality(Stored) /\ itemId[k] <= Cardinality(Stored)
  BY StoredFinite DEF Numbered, TypeOK, IdsOK
<1>2. ASSUME NEW c \in Calls, Record(c) PROVE Numbered'
  <2>1. Cardinality(Stored') = Cardinality(Stored) + 1 /\ Cardinality(Stored) \in Nat
    BY <1>2, StoredGrows, StoredFinite
  <2>2. /\ NextId(rowId) <= Cardinality(Stored) + 1
        /\ NextId(itemId) <= Cardinality(Stored) + 1
    BY <1>2, RecordIds DEF Record, Writable
  <2>3. /\ rowId' = [rowId EXCEPT ![c] = NextId(rowId)]
        /\ itemId' = itemId \/ itemId' = [itemId EXCEPT ![c] = NextId(itemId)]
    BY <1>2 DEF Record, Hold, itemVars
  <2>4. \A k \in Calls : /\ rowId'[k] <= Cardinality(Stored) + 1
                         /\ itemId'[k] <= Cardinality(Stored) + 1
    BY <1>1, <2>1, <2>2, <2>3 DEF TypeOK, IdsOK
  <2>5. QED
    BY <2>1, <2>4 DEF Numbered
<1>3. CASE ~ \E c \in Calls : Record(c)
  <2>1. Stored' = Stored
    BY <1>3, CallsStay, StoredStays DEF Decide, callVars, Stored
  <2>2. \A k \in Calls : rowId'[k] \in {rowId[k], 0} /\ itemId'[k] \in {itemId[k], 0}
    BY <1>3, RowsComeWithRecord
  <2>3. QED
    BY <1>1, <2>1, <2>2, StoredFinite DEF Numbered
<1>4. QED
  BY <1>2, <1>3

-----------------------------------------------------------------------------
(* The retention and the queue.                                            *)

\* An item that is resolved stays so, until it is deleted.
LEMMA ResolvedStays ==
  ASSUME LedgerInv, [Next]_vars, NEW c \in Calls, item[c] \in Settled
  PROVE  \/ item'[c] \in Settled /\ itemId'[c] = itemId[c]
         \/ cleared' = TRUE
         \/ DeleteBatch
<1> USE DEF LedgerInv
<1>1. CASE UNCHANGED <<itemVars>>
  BY <1>1 DEF itemVars
<1>2. ASSUME NEW k \in Calls, Decide(k) \/ Ask(k)
      PROVE  item'[c] = item[c] /\ itemId'[c] = itemId[c]
  <2>1. CASE Record(k)
    <3>1. pc[c] = "stored" /\ pc[k] # "stored"
      BY <2>1 DEF CallOrder, Settled, Record, Writable
    <3>2. QED
      BY <2>1, <3>1 DEF Record, Hold, itemVars, TypeOK, IdsOK
  <2>2. CASE NothingWritten
    BY <2>2 DEF NothingWritten, itemVars
  <2>3. QED
    BY <1>2, <2>1, <2>2 DEF Decide, Attribute, AttributeFails, Attributed, Judge, JudgeFails,
                            CommitFails, FlushFails, Ask, Arrive, Unprofiled
<1>3. CASE \/ \E a \in Admins : Resolve(a)
           \/ HourPasses \/ RetentionPasses
  BY <1>3 DEF Resolve, HourPasses, RetentionPasses, SameButAge, Settled, TypeOK
<1>4. CASE ClearAudit \/ \E k \in Calls : DeleteItem(k)
  BY <1>4 DEF ClearAudit, DeleteItem
<1>5. CASE \/ \E m \in Macs, i \in Clients : Discover(m, i)
           \/ \E d \in Ids : DeleteDevice(d)
           \/ ManageProfiles
           \/ \E a \in Admins : ResolveFails(a) \/ \E k \in Calls : ReadItem(a, k)
           \/ Wake \/ Select \/ SweepBusy \/ UNCHANGED vars
  BY <1>1, <1>5 DEF Discover, DeleteDevice, ManageProfiles, Reassign, CreateProfile,
                    DeleteProfile, SameButDevices, ResolveFails, ReadItem, Wake, Select, SweepBusy,
                    SameButItems, vars
<1>6. QED
  BY <1>2, <1>3, <1>4, <1>5 DEF Next

\* The steps of the retention, and that nothing takes a deletion back.
LEMMA SweepSteps ==
  ASSUME TypeOK, [Next]_vars
  PROVE  /\ cleared => cleared'
         /\ \/ Wake \/ Select \/ DeleteBatch \/ SweepBusy
            \/ UNCHANGED sweepVars
<1>1. CASE Wake \/ Select \/ DeleteBatch \/ SweepBusy
  BY <1>1 DEF Wake, Select, DeleteBatch, SweepBusy, SameButSweep
<1>2. ASSUME NEW k \in Calls, Decide(k) \/ Ask(k)
      PROVE  UNCHANGED <<sweepVars, cleared>>
  BY <1>2 DEF Decide, Record, Attribute, AttributeFails, Attributed, Judge, JudgeFails,
              CommitFails, FlushFails, Ask, Arrive, Unprofiled, NothingWritten
<1>3. CASE ClearAudit \/ \E k \in Calls : DeleteItem(k)
  BY <1>3 DEF ClearAudit, DeleteItem, SameButItems
<1>4. CASE \/ \E m \in Macs, i \in Clients : Discover(m, i)
           \/ \E d \in Ids : DeleteDevice(d)
           \/ ManageProfiles
           \/ \E a \in Admins : Resolve(a) \/ ResolveFails(a) \/ \E k \in Calls : ReadItem(a, k)
           \/ HourPasses \/ RetentionPasses \/ UNCHANGED vars
  BY <1>4 DEF Discover, DeleteDevice, ManageProfiles, Reassign, CreateProfile, DeleteProfile,
              SameButDevices, Resolve, ResolveFails, ReadItem, HourPasses,
              RetentionPasses, SameButItems, SameButAge, vars
<1>5. QED
  BY <1>1, <1>2, <1>3, <1>4 DEF Next

\* A batch of items stays one of resolved items until something is deleted by hand.
LEMMA StepBatch == LedgerInv /\ [Next]_vars => BatchResolved'
<1> SUFFICES ASSUME LedgerInv, [Next]_vars PROVE BatchResolved'
  OBVIOUS
<1> USE DEF LedgerInv
<1>1. sweep' = "sleep" => batch' = {}
  BY SweepSteps DEF Wake, Select, DeleteBatch, SweepBusy, sweepVars, BatchResolved
<1> SUFFICES ASSUME ~cleared', sweep' = "items", NEW n \in batch'
             PROVE  \E c \in Calls : itemId'[c] = n /\ item'[c] \in Settled
  BY <1>1 DEF BatchResolved, Settled
<1>2. cleared' \in BOOLEAN /\ ~cleared
  BY StepTypeOK, SweepSteps DEF TypeOK
<1>3. CASE Select
  <2>1. sweep = "items"
    BY <1>3 DEF Select
  <2>2. n \in Old(sweep)
    BY <1>3 DEF Select
  <2>3. QED
    BY <1>3, <2>1, <2>2 DEF Old, Select, itemVars, Settled
<1>4. CASE UNCHANGED sweepVars
  <2>1. PICK c \in Calls : itemId[c] = n /\ item[c] \in Settled
    BY <1>2, <1>4 DEF BatchResolved, sweepVars, Settled
  <2>2. ~DeleteBatch
    BY <1>4 DEF DeleteBatch, sweepVars
  <2>3. QED
    BY <1>2, <2>1, <2>2, ResolvedStays
<1>5. CASE Wake \/ DeleteBatch \/ SweepBusy
  BY <1>5 DEF Wake, DeleteBatch, SweepBusy
<1>6. QED
  BY <1>3, <1>4, <1>5, SweepSteps

\* The types of the audit trail, the order of a call, the ids and the batches,
\* for any number of decisions at once, clients, devices and administrators.
THEOREM LedgerSafe == Spec => []LedgerInv
<1>1. LedgerInv /\ [Next]_vars => LedgerInv'
  BY StepTypeOK, StepVerify, StepCallOrder, StepNumbered, StepBatch DEF LedgerInv
<1>2. QED
  BY <1>1, InitLedger, PTL DEF Spec

\* Foreign keys: a row names a device that is registered, or none, whoever
\* deletes devices meanwhile; ids are never shared.
THEOREM LedgerTypesAlways == Spec => []TypeOK
  BY LedgerSafe, PTL DEF LedgerInv

\* sign_row and verify_row: a row that still names its device and its profile verifies,
\* however the device was found, made, refreshed or given another profile, and whatever
\* else was deleted; one that does not has lost the one or the other to a deletion.
THEOREM RegisteredRowsVerifyAlways == Spec => []RegisteredRowsVerify
  BY LedgerSafe, PTL DEF LedgerInv

\* cleanup_expired: "pending items are kept regardless of age", although the ids
\* are selected in one transaction and deleted in a later one.
THEOREM RetentionSparesPendingAlways == Spec => RetentionSparesPending
<1>1. LedgerInv /\ [Next]_vars =>
        [\A c \in Calls : ~cleared' /\ item[c] \in Unresolved => item'[c] # "none"]_vars
  <2> SUFFICES ASSUME LedgerInv, Next, NEW c \in Calls, ~cleared', item[c] \in Unresolved
               PROVE  item'[c] # "none"
    BY DEF vars
  <2> USE DEF LedgerInv
  <2>1. cleared' \in BOOLEAN /\ ~cleared
    BY StepTypeOK, SweepSteps DEF TypeOK
  <2>2. CASE DeleteBatch
    <3>1. CASE sweep = "rows"
      BY <2>2, <3>1 DEF DeleteBatch, itemVars, Unresolved
    <3>2. CASE sweep = "items"
      <4>1. \A k \in Calls : item[k] \in Settled => itemId[k] # itemId[c]
        BY DEF Unresolved, Settled, TypeOK, IdsOK
      <4>2. itemId[c] \notin batch
        BY <2>1, <3>2, <4>1 DEF BatchResolved, Settled
      <4>3. QED
        BY <2>2, <3>2, <4>2 DEF DeleteBatch, DropItems, Named, Unresolved
    <3>3. QED
      BY <2>2, <3>1, <3>2 DEF DeleteBatch, BatchResolved, TypeOK
  <2>3. CASE UNCHANGED itemVars
    BY <2>3 DEF itemVars, Unresolved
  <2>4. ASSUME NEW k \in Calls, Decide(k) \/ Ask(k)
        PROVE  item'[c] # "none"
    <3>1. CASE Record(k)
      BY <3>1 DEF Record, Hold, itemVars, TypeOK, Unresolved
    <3>2. CASE NothingWritten
      BY <2>3, <3>2 DEF NothingWritten
    <3>3. QED
      BY <2>4, <3>1, <3>2 DEF Decide, Attribute, AttributeFails, Attributed, Judge,
                              JudgeFails, CommitFails, FlushFails, Ask, Arrive, Unprofiled
  <2>5. CASE \/ \E a \in Admins : Resolve(a)
             \/ HourPasses \/ RetentionPasses
    BY <2>5 DEF Resolve, HourPasses, RetentionPasses, Unresolved
  <2>6. CASE ClearAudit \/ \E k \in Calls : DeleteItem(k)
    BY <2>1, <2>6 DEF ClearAudit, DeleteItem
  <2>7. CASE \/ \E m \in Macs, i \in Clients : Discover(m, i)
             \/ \E d \in Ids : DeleteDevice(d)
             \/ ManageProfiles
             \/ \E a \in Admins : ResolveFails(a) \/ \E k \in Calls : ReadItem(a, k)
             \/ Wake \/ Select \/ SweepBusy
    BY <2>3, <2>7 DEF Discover, DeleteDevice, ManageProfiles, Reassign, CreateProfile,
                    DeleteProfile, SameButDevices, ResolveFails, ReadItem, Wake, Select, SweepBusy
  <2>8. QED
    BY <2>2, <2>4, <2>5, <2>6, <2>7 DEF Next
<1>2. QED
  BY <1>1, LedgerSafe, PTL DEF Spec, RetentionSparesPending

\* post_decide holds an item in the transaction of its row, and neither a second
\* resolution nor the retention puts one back into the queue.
THEOREM QueuedOnceAlways == Spec => QueuedOnce
<1>1. LedgerInv /\ [Next]_vars =>
        [\A c \in Calls : item[c] # "pending" /\ item'[c] = "pending"
                            => item[c] = "none" /\ rowId[c] = 0 /\ rowId'[c] # 0]_vars
  <2> SUFFICES ASSUME LedgerInv, [Next]_vars, NEW c \in Calls,
                      item[c] # "pending", item'[c] = "pending"
               PROVE  item[c] = "none" /\ rowId[c] = 0 /\ rowId'[c] # 0
    OBVIOUS
  <2> USE DEF LedgerInv
  <2>1. PICK k \in Calls : Record(k)
    BY RowsComeWithRecord
  <2>2. k = c
    BY <2>1 DEF Record, Hold, itemVars, TypeOK
  <2>3. pc[c] = "record"
    BY <2>1, <2>2 DEF Record, Writable
  <2>4. item[c] = "none" /\ rowId[c] = 0
    BY <2>3 DEF CallOrder
  <2>5. rowId'[c] = NextId(rowId) /\ NextId(rowId) \in 1..Cardinality(Calls)
    BY <2>1, <2>2, <2>3, RecordIds DEF Record, TypeOK, IdsOK
  <2>6. QED
    BY <2>4, <2>5, StoredFinite
<1>2. QED
  BY <1>1, LedgerSafe, PTL DEF Spec, QueuedOnce

-----------------------------------------------------------------------------
(* The trail as the household sees it.                                     *)

\* The trail is made of what the rows say; their age is not seen in it,
LEMMA RowsUnseen ==
  ASSUME UNCHANGED <<rowId, rowDevice, rowProfile, signed>>
  PROVE  TrailRows' = TrailRows
  BY DEF TrailRows, Rows, Signable

\* and of the items only whether they wait.
LEMMA ItemsUnseen ==
  ASSUME UNCHANGED itemVars
  PROVE  WaitingItems' = WaitingItems /\ SettledItems' = SettledItems
  BY DEF itemVars, WaitingItems, SettledItems

\* post_decide is not seen before its commit, nor when it fails.
LEMMA CallUnseen ==
  ASSUME TypeOK, NEW c \in Calls,
         \/ Attribute(c) \/ AttributeFails(c) \/ Judge(c) \/ JudgeFails(c)
         \/ CommitFails(c) \/ FlushFails(c) \/ Ask(c)
  PROVE  UNCHANGED Trail!trailVars
<1>1. NothingWritten
  BY DEF Attribute, AttributeFails, Attributed, Judge, JudgeFails, CommitFails, FlushFails, Ask, Arrive, Unprofiled
<1>2. Stored' = Stored
  BY StoredStays
<1>3. QED
  BY <1>1, <1>2, RowsUnseen, ItemsUnseen
     DEF NothingWritten, deviceVars, rowVars, Trail!trailVars, Trail!queueVars

\* Its commit is the whole decision.
LEMMA RecordIsDecide ==
  ASSUME LedgerInv, NEW c \in Calls, Record(c)
  PROVE  \E d \in Ids \cup {Nothing}, p \in Profiles : Trail!Decide(c, d, p)
<1> USE DEF LedgerInv
<1> DEFINE d == device[c]
           p == profile[c]
           about == Signable(d, p)
<1>1. d \in Ids \cup {Nothing} /\ p \in Profiles /\ pc[c] = "record"
  BY DEF Record, Writable, Attributable, TypeOK
<1>2. Stored' = Stored \cup {c} /\ c \notin Stored
  BY StoredGrows
<1>3. devices' = devices \cup ({d} \ {Nothing})
  <2>1. Nothing \notin Ids
    BY LedgerAssumption
  <2>2. QED
    BY <1>1, <2>1 DEF Record, Writable, Attributable, SaveDevice, New, TypeOK
<1>4. c \notin Rows /\ item[c] = "none"
  BY <1>1 DEF CallOrder, Rows
<1>5. TrailRows' = TrailRows \cup {[call |-> c, names |-> about, signed |-> about]}
  <2>1. NextId(rowId) # 0
    BY <1>1, RecordIds, StoredFinite
  <2>2. /\ rowId'[c] # 0 /\ rowDevice'[c] = d /\ rowProfile'[c] = p /\ signed'[c] = about
        /\ \A k \in Calls \ {c} : /\ rowId'[k] = rowId[k] /\ rowDevice'[k] = rowDevice[k]
                                  /\ rowProfile'[k] = rowProfile[k] /\ signed'[k] = signed[k]
    BY <2>1 DEF Record, Sign, TypeOK, IdsOK
  <2>3. Rows' = Rows \cup {c}
    BY <2>2 DEF Rows
  <2>4. \A k \in Rows : k \in Calls \ {c}
    BY <1>4 DEF Rows
  <2> HIDE DEF d, p
  <2>5. QED
    BY <2>2, <2>3, <2>4 DEF TrailRows, Signable
<1>6. WaitingItems' \in {WaitingItems, WaitingItems \cup {c}} /\ SettledItems' = SettledItems
  <2>1. CASE UNCHANGED itemVars
    BY <2>1, ItemsUnseen
  <2>2. CASE item' = [item EXCEPT ![c] = "pending"]
    BY <2>2, <1>4 DEF WaitingItems, SettledItems, Unresolved, Settled, TypeOK
  <2>3. QED
    BY <2>1, <2>2 DEF Record, Hold
<1>7. cleared' = cleared
  BY DEF Record
<1> HIDE DEF d, p
<1>8. QED
  BY <1>1, <1>2, <1>3, <1>5, <1>6, <1>7 DEF Trail!Decide, Signable

\* The scanner registers devices; an administrator removes devices and profiles from
\* their rows, and the other changes of profiles are not seen.
LEMMA DevicesSeen ==
  ASSUME TypeOK,
         \/ \E m \in Macs, i \in Clients : Discover(m, i)
         \/ \E d \in Ids : DeleteDevice(d)
         \/ ManageProfiles
  PROVE  \/ \E d \in Ids : Trail!Register(d) \/ Trail!Remove(d)
         \/ \E p \in Profiles : Trail!RemoveProfile(p)
         \/ UNCHANGED Trail!trailVars
<1>1. Stored' = Stored /\ cleared' = cleared /\ UNCHANGED itemVars
  BY DEF Discover, DeleteDevice, ManageProfiles, Reassign, CreateProfile, DeleteProfile,
         SameButDevices, callVars, Stored
<1>2. ASSUME NEW m \in Macs, NEW i \in Clients, Discover(m, i) PROVE Trail!Register(m)
  BY <1>1, <1>2, RowsUnseen, ItemsUnseen DEF Discover, rowVars, Trail!Register, Trail!queueVars
<1>3. ASSUME NEW d \in Ids, DeleteDevice(d) PROVE Trail!Remove(d)
  <2>1. /\ Rows' = Rows /\ signed' = signed /\ rowProfile' = rowProfile /\ Rows \subseteq Calls
        /\ \A c \in Calls : rowDevice'[c] = IF rowDevice[c] = d THEN Nothing ELSE rowDevice[c]
    BY <1>3 DEF DeleteDevice, Rows
  <2>2. \A c \in Rows :
          [call |-> c, names |-> Signable(rowDevice'[c], rowProfile'[c]), signed |-> signed'[c]]
            = Trail!Nameless([call |-> c, names |-> Signable(rowDevice[c], rowProfile[c]),
                              signed |-> signed[c]], d)
    BY <2>1 DEF Trail!Nameless, Signable
  <2>3. TrailRows' = {Trail!Nameless(r, d) : r \in TrailRows}
    BY <2>1, <2>2 DEF TrailRows, Signable
  <2>4. QED
    BY <1>1, <1>3, <2>3, ItemsUnseen DEF DeleteDevice, Trail!Remove, Trail!queueVars
<1>4. ASSUME NEW p \in Profiles, DeleteProfile(p) PROVE Trail!RemoveProfile(p)
  <2>1. /\ Rows' = Rows /\ signed' = signed /\ rowDevice' = rowDevice /\ Rows \subseteq Calls
        /\ \A c \in Calls : rowProfile'[c] = IF rowProfile[c] = p THEN Nothing ELSE rowProfile[c]
    BY <1>4 DEF DeleteProfile, Rows
  <2>2. \A c \in Rows :
          [call |-> c, names |-> Signable(rowDevice'[c], rowProfile'[c]), signed |-> signed'[c]]
            = Trail!Unnamed([call |-> c, names |-> Signable(rowDevice[c], rowProfile[c]),
                             signed |-> signed[c]], p)
    BY <2>1 DEF Trail!Unnamed, Signable
  <2>3. TrailRows' = {Trail!Unnamed(r, p) : r \in TrailRows}
    BY <2>1, <2>2 DEF TrailRows, Signable
  <2>4. QED
    BY <1>1, <1>4, <2>3, ItemsUnseen DEF DeleteProfile, Trail!RemoveProfile, Trail!queueVars
<1>5. CASE \/ \E d \in Ids, p \in Profiles : Reassign(d, p)
           \/ \E p \in Profiles : CreateProfile(p)
  BY <1>1, <1>5, RowsUnseen, ItemsUnseen
     DEF Reassign, CreateProfile, rowVars, Trail!trailVars, Trail!queueVars
<1>6. QED
  BY <1>2, <1>3, <1>4, <1>5 DEF Ids, ManageProfiles

\* A resolution takes the item that has the id, whichever it is by now.
LEMMA ResolveSeen ==
  ASSUME TypeOK, NEW a \in Admins, Resolve(a)
  PROVE  (\E c \in Calls : Trail!Review(c)) \/ UNCHANGED Trail!trailVars
<1>1. /\ Stored' = Stored /\ cleared' = cleared /\ devices' = devices
      /\ TrailRows' = TrailRows
  BY RowsUnseen DEF Resolve, SameButItems, callVars, deviceVars, rowVars, Stored
<1>2. CASE \E c \in Calls : itemId[c] = reads[a]
  <2>1. PICK c \in Calls : itemId[c] = reads[a]
    BY <1>2
  <2>2. item[c] # "none" /\ \A k \in Calls : itemId[k] = reads[a] => k = c
    BY <2>1 DEF Resolve, TypeOK, IdsOK
  <2>3. \A k \in Calls : item'[k] = IF k = c THEN "settled" ELSE item[k]
    BY <2>1, <2>2 DEF Resolve
  <2>4. /\ c \in WaitingItems \cup SettledItems
        /\ WaitingItems' = WaitingItems \ {c} /\ SettledItems' = SettledItems \cup {c}
    BY <2>2, <2>3 DEF WaitingItems, SettledItems, Unresolved, Settled, TypeOK, Items
  <2>5. QED
    BY <1>1, <2>4 DEF Trail!Review
<1>3. CASE ~ \E c \in Calls : itemId[c] = reads[a]
  <2>1. \A c \in Calls : item'[c] = item[c]
    BY <1>3 DEF Resolve
  <2>2. WaitingItems' = WaitingItems /\ SettledItems' = SettledItems
    BY <2>1 DEF WaitingItems, SettledItems
  <2>3. QED
    BY <1>1, <2>2 DEF Trail!trailVars, Trail!queueVars
<1>4. QED
  BY <1>2, <1>3

\* What is dropped leaves the trail, and what is not stays as it was.
LEMMA DropRowsSeen ==
  ASSUME NEW C, DropRows(C)
  PROVE  \E R \in SUBSET TrailRows : TrailRows' = TrailRows \ R
<1> DEFINE Row(c) == [call |-> c, names |-> Signable(rowDevice[c], rowProfile[c]),
                      signed |-> signed[c]]
           R == {Row(c) : c \in Rows \cap C}
<1>1. R \subseteq TrailRows
  BY DEF TrailRows
<1>2. Rows' = Rows \ C
  BY DEF DropRows, Rows
<1>3. \A c \in Rows \ C : /\ rowDevice'[c] = rowDevice[c] /\ rowProfile'[c] = rowProfile[c]
                          /\ signed'[c] = signed[c]
  BY DEF DropRows, Rows
<1>4. TrailRows' = {Row(c) : c \in Rows \ C}
  BY <1>2, <1>3 DEF TrailRows, Signable
<1>5. \A c, k : Row(c) = Row(k) => c = k
  OBVIOUS
<1>6. TrailRows = {Row(c) : c \in Rows}
  BY DEF TrailRows, Signable
<1> HIDE DEF Row
<1>7. {Row(c) : c \in Rows \ C} = {Row(c) : c \in Rows} \ R
  BY <1>5
<1>8. QED
  BY <1>1, <1>4, <1>6, <1>7

\* The same for items.
LEMMA DropItemsSeen ==
  ASSUME NEW C, DropItems(C)
  PROVE  WaitingItems' = WaitingItems \ C /\ SettledItems' = SettledItems \ C
  BY DEF DropItems, WaitingItems, SettledItems, Unresolved, Settled

\* Deletions by hand.
LEMMA ClearSeen ==
  ASSUME TypeOK, ClearAudit \/ \E c \in Calls : DeleteItem(c)
  PROVE  Trail!Clear \/ \E c \in Calls : Trail!Dismiss(c)
<1>1. Stored' = Stored /\ devices' = devices /\ cleared' = TRUE
  BY DEF ClearAudit, DeleteItem, SameButItems, callVars, deviceVars, Stored
<1>2. ASSUME ClearAudit PROVE Trail!Clear
  <2>1. TrailRows' = {}
    BY <1>2 DEF ClearAudit, DropRows, TrailRows, Rows
  <2>2. QED
    BY <1>1, <1>2, <2>1, ItemsUnseen DEF ClearAudit, Trail!Clear, Trail!queueVars
<1>3. ASSUME NEW c \in Calls, DeleteItem(c) PROVE Trail!Dismiss(c)
  BY <1>1, <1>3, DropItemsSeen, RowsUnseen DEF DeleteItem, SameButItems, rowVars, Trail!Dismiss
<1>4. QED
  BY <1>2, <1>3

\* The retention: a batch that is deleted later than it was selected.
LEMMA PruneSeen ==
  ASSUME LedgerInv, DeleteBatch
  PROVE  \/ \E R \in SUBSET TrailRows : Trail!PruneRows(R)
         \/ \E C \in SUBSET Calls : Trail!PruneItems(C)
<1> USE DEF LedgerInv
<1>1. Stored' = Stored /\ devices' = devices /\ cleared' = cleared
  BY DEF DeleteBatch, SameButSweep, callVars, deviceVars, Stored
<1>2. CASE sweep = "rows"
  <2>1. PICK R \in SUBSET TrailRows : TrailRows' = TrailRows \ R
    BY <1>2, DropRowsSeen DEF DeleteBatch
  <2>2. QED
    BY <1>1, <1>2, <2>1, ItemsUnseen DEF DeleteBatch, Trail!PruneRows, Trail!queueVars
<1>3. CASE sweep = "items"
  <2> DEFINE C == Named(batch, itemId)
  <2>1. cleared \/ C \cap WaitingItems = {}
    BY <1>3 DEF BatchResolved, Named, WaitingItems, Unresolved, Settled, TypeOK, IdsOK
  <2>2. WaitingItems' = WaitingItems \ C /\ SettledItems' = SettledItems \ C
    BY <1>3, DropItemsSeen DEF DeleteBatch
  <2>3. C \in SUBSET Calls
    BY DEF Named
  <2>4. TrailRows' = TrailRows
    BY <1>3, RowsUnseen DEF DeleteBatch, rowVars
  <2> HIDE DEF C
  <2>5. Trail!PruneItems(C)
    BY <1>1, <2>1, <2>2, <2>4 DEF Trail!PruneItems
  <2>6. QED
    BY <2>3, <2>5
<1>4. QED
  BY <1>2, <1>3 DEF DeleteBatch, BatchResolved, TypeOK

\* Nothing is seen of the passing of time, nor of what only reads or fails.
LEMMA RestUnseen ==
  ASSUME TypeOK,
         \/ HourPasses \/ RetentionPasses \/ Wake \/ Select \/ SweepBusy
         \/ \E a \in Admins : ResolveFails(a) \/ \E c \in Calls : ReadItem(a, c)
         \/ UNCHANGED vars
  PROVE  UNCHANGED Trail!trailVars
<1>1. /\ Stored' = Stored /\ devices' = devices /\ cleared' = cleared
      /\ UNCHANGED <<rowId, rowDevice, rowProfile, signed>>
  BY DEF HourPasses, RetentionPasses, SameButAge, Wake, Select, SweepBusy, SameButSweep,
         ResolveFails, ReadItem, SameButItems, deviceVars, rowVars, callVars, vars, Stored
<1>2. WaitingItems' = WaitingItems /\ SettledItems' = SettledItems
  <2>1. CASE HourPasses \/ RetentionPasses
    <3>1. \A c \in Calls : /\ item'[c] \in Unresolved <=> item[c] \in Unresolved
                           /\ item'[c] \in Settled <=> item[c] \in Settled
      BY <2>1 DEF HourPasses, RetentionPasses, Unresolved, Settled
    <3>2. QED
      BY <3>1 DEF WaitingItems, SettledItems
  <2>2. CASE UNCHANGED itemVars
    BY <2>2, ItemsUnseen
  <2>3. QED
    BY <2>1, <2>2 DEF Wake, Select, SweepBusy, ResolveFails, ReadItem, vars
<1>3. QED
  BY <1>1, <1>2, RowsUnseen DEF Trail!trailVars, Trail!queueVars

\* An empty database is an empty trail.
LEMMA InitTrail == Init => Trail!TrailInit
  BY DEF Init, Trail!TrailInit, Stored, TrailRows, Rows, WaitingItems, SettledItems,
         Unresolved, Settled

\* Every step of anybody is a step of the trail or is not seen in it.
LEMMA StepTrail == LedgerInv /\ [Next]_vars => [Trail!TrailNext]_Trail!trailVars
<1> SUFFICES ASSUME LedgerInv, [Next]_vars, ~UNCHANGED Trail!trailVars PROVE Trail!TrailNext
  OBVIOUS
<1>1. TypeOK
  BY DEF LedgerInv
<1>2. CASE \E c \in Calls : Decide(c) \/ Ask(c)
  <2>1. PICK c \in Calls : Decide(c) \/ Ask(c)
    BY <1>2
  <2>2. CASE Record(c)
    BY <2>2, RecordIsDecide DEF Trail!TrailNext
  <2>3. QED
    BY <1>1, <2>1, <2>2, CallUnseen DEF Decide
<1>3. CASE \/ \E m \in Macs, i \in Clients : Discover(m, i)
           \/ \E d \in Ids : DeleteDevice(d)
           \/ ManageProfiles
  BY <1>1, <1>3, DevicesSeen DEF Trail!TrailNext
<1>4. CASE \E a \in Admins : Resolve(a)
  BY <1>1, <1>4, ResolveSeen DEF Trail!TrailNext
<1>5. CASE ClearAudit \/ \E c \in Calls : DeleteItem(c)
  BY <1>1, <1>5, ClearSeen DEF Trail!TrailNext
<1>6. CASE DeleteBatch
  BY <1>6, PruneSeen DEF Trail!TrailNext
<1>7. CASE \/ HourPasses \/ RetentionPasses \/ Wake \/ Select \/ SweepBusy
           \/ \E a \in Admins : ResolveFails(a) \/ \E c \in Calls : ReadItem(a, c)
           \/ UNCHANGED vars
  BY <1>1, <1>7, RestUnseen
<1>8. QED
  BY <1>2, <1>3, <1>4, <1>5, <1>6, <1>7 DEF Next

\* The handlers, the administrators and the retention, with all their
\* interleavings and failures, keep an audit trail in which each decision is one
\* step: its row, the device it registers and its held item come together or not
\* at all.
THEOREM LedgerImplementsTrail == Spec => TrailRefined
<1>1. Init => Trail!TrailInit
  BY InitTrail
<1>2. LedgerInv /\ [Next]_vars => [Trail!TrailNext]_Trail!trailVars
  BY StepTrail
<1>3. QED
  BY <1>1, <1>2, LedgerSafe, PTL DEF Spec, TrailRefined, Trail!TrailSpec
=============================================================================
