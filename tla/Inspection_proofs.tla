------------------------- MODULE Inspection_proofs -------------------------
(***************************************************************************)
(* The inspection pipeline for every number of requests, segments, videos  *)
(* and text workers, whether it fails open or closed and in every text     *)
(* mode.  The inductive invariant says, for each place a request can be    *)
(* in, what its judges have said of it; the properties of what the client  *)
(* got follow from the last place.                                         *)
(***************************************************************************)
EXTENDS Inspection, FiniteSetTheorems, TLAPS

requestVars(r) == <<pc[r], content[r], rt[r], segs[r], running[r], heard[r],
                    outcome[r], row[r]>>

\* A step that leaves the variables of a request alone keeps its invariant.
LEMMA Untouched ==
  ASSUME NEW q \in Requests, Pipeline(q), requestVars(q)' = requestVars(q)
  PROVE  Pipeline(q)'
BY DEF requestVars, Pipeline, Passed, ImageSettled, VideoSettled, TextSettled,
       PolicySettled, Lenient, Stages

\* A proxy that has started: no requests, nothing remembered.
LEMMA InitInspectionInv ==
  ASSUME InspectionAssumption, Init
  PROVE  InspectionInv
<1>1. TypeOK
  BY DEF Init, TypeOK, InspectionAssumption, Unheard, Judges, Verdicts
<1>2. MarkedWasFlagged /\ MemoryBounded
  BY FS_EmptySet DEF Init, MarkedWasFlagged, MemoryBounded, InspectionAssumption
<1>3. \A r \in Requests : Pipeline(r)
  BY DEF Init, Pipeline, Passed, Unheard, Judges, Stages
<1>4. \A r \in Requests : Redaction(r)
  BY DEF Init, Redaction
<1>5. QED
  BY <1>1, <1>2, <1>3, <1>4 DEF InspectionInv

-----------------------------------------------------------------------------
(* The memory of blocked videos.                                           *)

\* Remembering a video keeps the memory bounded and its entries justified.
LEMMA RememberStep ==
  ASSUME InspectionAssumption, TypeOK, MemoryBounded, marked \subseteq condemned,
         NEW v \in Videos, Remember(v), condemned' = condemned \cup {v}
  PROVE  /\ marked' \in SUBSET Videos /\ stale' \in SUBSET marked'
         /\ condemned' \in SUBSET Videos
         /\ marked' \subseteq condemned' /\ MemoryBounded'
<1>1. PICK m \in SUBSET marked :
        /\ marked' = m \cup {v} /\ stale' = (stale \cap m) \ {v}
        /\ \/ Cardinality(marked) < MaxMarked /\ m = marked
           \/ \E k \in marked : m = marked \ {k}
  <2>1. IsFiniteSet(marked)
    BY FS_Subset DEF TypeOK, InspectionAssumption
  <2>2. Cardinality(marked) \in Nat
    BY <2>1, FS_CardinalityType
  <2>3. QED
    BY <2>2 DEF Remember, InspectionAssumption
<1>2. IsFiniteSet(marked) /\ IsFiniteSet(m)
  BY FS_Subset DEF TypeOK, InspectionAssumption
<1>3. /\ Cardinality(marked) \in Nat /\ Cardinality(m) \in Nat
      /\ Cardinality(marked') <= Cardinality(m) + 1
  <2>1. Cardinality(marked) \in Nat /\ Cardinality(m) \in Nat
    BY <1>2, FS_CardinalityType
  <2>2. Cardinality(m \cup {v}) <= Cardinality(m) + 1
    <3>1. CASE v \in m
      <4>1. m \cup {v} = m
        BY <3>1
      <4>2. Cardinality(m \cup {v}) = Cardinality(m)
        BY <4>1, Zenon
      <4>3. QED
        BY <4>2, <2>1
    <3>2. CASE v \notin m
      <4>1. Cardinality(m \cup {v}) = Cardinality(m) + 1
        BY <3>2, <1>2, FS_AddElement
      <4>2. QED
        BY <4>1, <2>1
    <3>3. QED
      BY <3>1, <3>2
  <2>3. QED
    BY <1>1, <2>1, <2>2
<1>4. Cardinality(m) + 1 <= MaxMarked
  <2>1. CASE Cardinality(marked) < MaxMarked /\ m = marked
    BY <2>1, <1>3 DEF InspectionAssumption
  <2>2. CASE \E k \in marked : m = marked \ {k}
    BY <2>2, <1>2, <1>3, FS_RemoveElement DEF MemoryBounded, InspectionAssumption
  <2>3. QED
    BY <1>1, <2>1, <2>2
<1>5. MemoryBounded'
  <2>1. Cardinality(marked') \in Nat
    BY <1>1, <1>2, FS_AddElement, FS_CardinalityType
  <2>2. QED
    BY <1>3, <1>4, <2>1 DEF MemoryBounded, InspectionAssumption
<1>6. QED
  BY <1>1, <1>5 DEF TypeOK

\* Forgetting videos does, too.
LEMMA ForgetStep ==
  ASSUME InspectionAssumption, TypeOK, MemoryBounded, marked' \subseteq marked
  PROVE  MemoryBounded'
<1>1. IsFiniteSet(marked) /\ Cardinality(marked) \in Nat
  BY FS_Subset, FS_CardinalityType DEF TypeOK, InspectionAssumption
<1>2. Cardinality(marked') <= Cardinality(marked) /\ Cardinality(marked') \in Nat
  BY <1>1, FS_Subset, FS_CardinalityType
<1>3. QED
  BY <1>1, <1>2 DEF MemoryBounded, InspectionAssumption

\* What every step does to the memory.
LEMMA MemoryStep ==
  ASSUME InspectionAssumption, InspectionInv, [Next]_vars
  PROVE  /\ marked' \in SUBSET Videos /\ stale' \in SUBSET marked'
         /\ condemned' \in SUBSET Videos /\ condemned \subseteq condemned'
         /\ marked' \subseteq condemned' /\ MemoryBounded'
<1> USE DEF InspectionInv
<1>1. CASE UNCHANGED memoryVars
  BY <1>1 DEF memoryVars, TypeOK, MarkedWasFlagged, MemoryBounded
<1>2. CASE /\ marked' \subseteq marked /\ stale' \subseteq marked'
           /\ condemned' = condemned
  BY <1>2, ForgetStep DEF TypeOK, MarkedWasFlagged
<1>3. CASE \E v \in Videos : Remember(v) /\ condemned' = condemned \cup {v}
  BY <1>3, RememberStep DEF MarkedWasFlagged
<1>4. ASSUME NEW r \in Requests, Image(r)
      PROVE  \/ UNCHANGED memoryVars
             \/ \E v \in Videos : Remember(v) /\ condemned' = condemned \cup {v}
  BY <1>4 DEF Image, RememberThumbnail, Verdicts
<1>5. ASSUME NEW r \in Requests, Arrive(r)
      PROVE  /\ marked' \subseteq marked /\ stale' \subseteq marked'
             /\ condemned' = condemned
  BY <1>5 DEF Arrive, TypeOK
<1>6. ASSUME NEW r \in Requests,
             Refuse(r) \/ Again(r) \/ Fetch(r) \/ FetchFails(r) \/ Video(r) \/ Text(r)
             \/ StartSegment(r) \/ EndSegment(r) \/ ScanDone(r)
             \/ Audit(r) \/ PolicyAnswers(r) \/ PolicyFails(r)
      PROVE  UNCHANGED memoryVars
  BY <1>6 DEF Refuse, Again, Fetch, FetchFails, Video, Text, StartSegment, EndSegment,
              ScanDone, Audit, PolicyAnswers, PolicyFails
<1>7. ASSUME NEW v \in Videos, Expire(v)
      PROVE  /\ marked' \subseteq marked /\ stale' \subseteq marked'
             /\ condemned' = condemned
  BY <1>7 DEF Expire, TypeOK
<1>8. ASSUME Sweep
      PROVE  /\ marked' \subseteq marked /\ stale' \subseteq marked'
             /\ condemned' = condemned
  BY <1>8 DEF Sweep
<1>9. ASSUME Poll \/ TogglePanic \/ UNCHANGED vars
      PROVE  UNCHANGED memoryVars
  BY <1>9 DEF Poll, TogglePanic, vars
<1>10. QED
  BY <1>1, <1>2, <1>3, <1>4, <1>5, <1>6, <1>7, <1>8, <1>9 DEF Next, Serve

\* Every step keeps the types.
LEMMA TypeStep ==
  ASSUME InspectionAssumption, InspectionInv, [Next]_vars
  PROVE  TypeOK'
<1> DEFINE Memory == marked' \in SUBSET Videos /\ stale' \in SUBSET marked'
                     /\ condemned' \in SUBSET Videos
<1>1. Memory
  BY MemoryStep
<1>2. TypeOK
  BY DEF InspectionInv
<1> USE <1>1, <1>2 DEF TypeOK
<1>3. ASSUME NEW r \in Requests, Arrive(r)
      PROVE  TypeOK'
  <2>1. PICK c \in Responses : content' = [content EXCEPT ![r] = c]
    BY <1>3 DEF Arrive
  <2>2. content' \in [Requests -> Responses]
    BY <2>1
  <2>3. \/ pc' = [pc EXCEPT ![r] = "done"] /\ outcome' = [outcome EXCEPT ![r] = "remembered"]
        \/ pc' = [pc EXCEPT ![r] = "fetch"] /\ UNCHANGED outcome
    BY <1>3 DEF Arrive, Finish
  <2>4. UNCHANGED <<rt, segs, running, heard, rewritten, row, adminVars>>
    BY <1>3 DEF Arrive
  <2>5. QED
    BY <2>2, <2>3, <2>4 DEF adminVars
<1>4. ASSUME NEW r \in Requests, Refuse(r) \/ FetchFails(r)
      PROVE  TypeOK'
  BY <1>4 DEF Refuse, FetchFails, Finish, adminVars
<1>5. ASSUME NEW r \in Requests, Fetch(r)
      PROVE  TypeOK'
  BY <1>5 DEF Fetch, adminVars
<1>6. ASSUME NEW r \in Requests, Again(r)
      PROVE  TypeOK'
  <2>1. Unheard \in [Judges -> Verdicts \cup {"none"}]
    BY DEF Unheard
  <2>2. heard' \in [Requests -> [Judges -> Verdicts \cup {"none"}]]
    BY <1>6, <2>1 DEF Again
  <2>3. QED
    BY <1>6, <2>2 DEF Again, adminVars
<1>7. ASSUME NEW r \in Requests, NEW j \in Judges, NEW v \in Verdicts, Hear(r, j, v)
      PROVE  heard' \in [Requests -> [Judges -> Verdicts \cup {"none"}]]
  BY <1>7 DEF Hear
<1>8. ASSUME NEW r \in Requests, Image(r)
      PROVE  TypeOK'
  <2>1. heard' \in [Requests -> [Judges -> Verdicts \cup {"none"}]]
    BY <1>8, <1>7 DEF Image, Judges
  <2>2. pc' = [pc EXCEPT ![r] = "audit"] \/ pc' = [pc EXCEPT ![r] = "video"]
    BY <1>8 DEF Image
  <2>3. UNCHANGED <<content, rt, segs, running, rewritten, outcome, row, adminVars>>
    BY <1>8 DEF Image
  <2>4. QED
    BY <2>1, <2>2, <2>3 DEF adminVars
<1>9. ASSUME NEW r \in Requests, Video(r)
      PROVE  TypeOK'
  <2>1. heard' \in [Requests -> [Judges -> Verdicts \cup {"none"}]]
    BY <1>9, <1>7 DEF Video, Judges
  <2>2. pc' = [pc EXCEPT ![r] = "audit"] \/ pc' = [pc EXCEPT ![r] = "text"]
    BY <1>9 DEF Video
  <2>3. UNCHANGED <<content, rt, segs, running, rewritten, outcome, row, adminVars>>
    BY <1>9 DEF Video
  <2>4. QED
    BY <2>1, <2>2, <2>3 DEF adminVars
<1>10. ASSUME NEW r \in Requests, Text(r)
       PROVE  TypeOK'
  <2>1. \/ UNCHANGED segs
        \/ \E S \in SUBSET Segments : segs' = [segs EXCEPT ![r] = S]
    BY <1>10 DEF Text, Extracts
  <2>2. pc' = [pc EXCEPT ![r] = "scan"] \/ pc' = [pc EXCEPT ![r] = "policy"]
    BY <1>10 DEF Text
  <2>3. UNCHANGED <<content, rt, running, heard, rewritten, outcome, row, adminVars>>
    BY <1>10 DEF Text
  <2>4. segs' \in [Requests -> SUBSET Segments]
    BY <2>1
  <2>5. QED
    BY <2>2, <2>3, <2>4 DEF adminVars
<1>11. ASSUME NEW r \in Requests, StartSegment(r)
       PROVE  TypeOK'
  BY <1>11 DEF StartSegment, Waiting, adminVars
<1>12. ASSUME NEW r \in Requests, EndSegment(r)
       PROVE  TypeOK'
  <2>1. PICK s \in running[r], v \in Verdicts :
          Hear(r, s, v) /\ running' = [running EXCEPT ![r] = @ \ {s}]
    BY <1>12 DEF EndSegment
  <2> s \in Judges
    BY DEF Judges
  <2>2. heard' \in [Requests -> [Judges -> Verdicts \cup {"none"}]]
    BY <2>1, <1>7
  <2>3. running' \in [Requests -> SUBSET Segments]
    BY <2>1
  <2>4. UNCHANGED <<pc, content, rt, segs, rewritten, outcome, row, adminVars>>
    BY <1>12 DEF EndSegment
  <2>5. QED
    BY <2>2, <2>3, <2>4 DEF adminVars
<1>13. ASSUME NEW r \in Requests, ScanDone(r)
       PROVE  TypeOK'
  <2>1. \/ UNCHANGED rewritten
        \/ \E changed \in BOOLEAN : rewritten' = [rewritten EXCEPT ![r] = changed]
    BY <1>13 DEF ScanDone
  <2>2. pc' = [pc EXCEPT ![r] = "audit"] \/ pc' = [pc EXCEPT ![r] = "policy"]
    BY <1>13 DEF ScanDone
  <2>3. UNCHANGED <<content, rt, segs, running, heard, outcome, row, adminVars>>
    BY <1>13 DEF ScanDone
  <2>4. QED
    BY <2>1, <2>2, <2>3 DEF adminVars
<1>14. ASSUME NEW r \in Requests, NEW d \in {"allow", "block"}, Store(r, d)
       PROVE  row' \in [Requests -> {"none", "allow", "block"}]
  BY <1>14 DEF Store
<1>15. ASSUME NEW r \in Requests, Audit(r)
       PROVE  TypeOK'
  <2>1. row' \in [Requests -> {"none", "allow", "block"}]
    BY <1>14, <1>15 DEF Audit
  <2>2. QED
    BY <1>15, <2>1 DEF Audit, Finish, adminVars
<1>16. ASSUME NEW r \in Requests, PolicyAnswers(r) \/ PolicyFails(r)
       PROVE  TypeOK'
  <2>1. heard' \in [Requests -> [Judges -> Verdicts \cup {"none"}]]
    BY <1>16, <1>7 DEF PolicyAnswers, PolicyFails, Judges, Verdicts
  <2>2. row' \in [Requests -> {"none", "allow", "block"}]
    BY <1>16, <1>14 DEF PolicyAnswers, PolicyFails
  <2>3. \E what \in {"blocked", "delivered", "stripped"} : Finish(r, what)
    BY <1>16 DEF PolicyAnswers, PolicyFails, Deliver
  <2>4. UNCHANGED <<content, rt, segs, running, rewritten, adminVars>>
    BY <1>16 DEF PolicyAnswers, PolicyFails
  <2>5. QED
    BY <2>1, <2>2, <2>3, <2>4 DEF Finish, adminVars
<1>17. ASSUME Sweep \/ Poll \/ TogglePanic \/ UNCHANGED vars \/ \E v \in Videos : Expire(v)
       PROVE  TypeOK'
  BY <1>17 DEF Sweep, Poll, TogglePanic, Expire, vars, goroutineVars, adminVars
<1>18. QED
  BY <1>3, <1>4, <1>5, <1>6, <1>8, <1>9, <1>10, <1>11, <1>12, <1>13, <1>15, <1>16,
     <1>17 DEF Next, Serve

-----------------------------------------------------------------------------
(* The pipeline: one lemma per action.                                     *)

\* What the actions of one request leave alone in the others.
LEMMA Others ==
  ASSUME TypeOK, NEW r \in Requests, NEW q \in Requests, q # r,
         Arrive(r) \/ Refuse(r) \/ Serve(r) \/ Again(r)
  PROVE  requestVars(q)' = requestVars(q)
<1> USE DEF TypeOK, requestVars
<1>1. CASE Arrive(r) \/ Refuse(r)
  BY <1>1 DEF Arrive, Refuse, Finish
<1>2. CASE Fetch(r) \/ FetchFails(r) \/ Again(r)
  BY <1>2 DEF Fetch, FetchFails, Again, Finish
<1>3. CASE Image(r) \/ Video(r) \/ Text(r)
  BY <1>3 DEF Image, Video, Text, Hear
<1>4. CASE StartSegment(r) \/ EndSegment(r) \/ ScanDone(r)
  BY <1>4 DEF StartSegment, EndSegment, ScanDone, Hear
<1>5. CASE Audit(r) \/ PolicyAnswers(r) \/ PolicyFails(r)
  BY <1>5 DEF Audit, PolicyAnswers, PolicyFails, Deliver, Store, Finish, Hear
<1>6. QED
  BY <1>1, <1>2, <1>3, <1>4, <1>5 DEF Serve

\* The start of a request, up to its body, and its end.
LEMMA StartStep ==
  ASSUME TypeOK, NEW r \in Requests, Pipeline(r),
         Arrive(r) \/ Refuse(r) \/ Fetch(r) \/ FetchFails(r) \/ Again(r)
  PROVE  Pipeline(r)'
<1> USE DEF TypeOK, Pipeline, Passed, Stages
<1>1. CASE Arrive(r)
  BY <1>1 DEF Arrive, Finish
<1>2. CASE Refuse(r)
  BY <1>2 DEF Refuse, Finish
<1>3. CASE Fetch(r)
  <2>1. pc[r] = "fetch" /\ pc'[r] = "image" /\ outcome'[r] = "none" /\ row'[r] = "none"
        /\ segs'[r] = {} /\ running'[r] = {} /\ heard'[r] = Unheard
    BY <1>3 DEF Fetch
  <2>2. QED
    BY <2>1 DEF Unheard, Judges
<1>4. CASE FetchFails(r)
  <2>1. pc[r] = "fetch" /\ pc'[r] = "done" /\ outcome'[r] = "error" /\ row'[r] = "none"
        /\ segs'[r] = {} /\ running'[r] = {} /\ heard'[r] = Unheard
    BY <1>4 DEF FetchFails, Finish
  <2>2. QED
    BY <2>1 DEF Unheard, Judges
<1>5. CASE Again(r)
  <2>1. pc[r] = "done" /\ pc'[r] = "idle" /\ outcome'[r] = "none" /\ row'[r] = "none"
        /\ segs'[r] = {} /\ running'[r] = {} /\ heard'[r] = Unheard
    BY <1>5 DEF Again
  <2>2. QED
    BY <2>1 DEF Unheard, Judges
<1>6. QED
  BY <1>1, <1>2, <1>3, <1>4, <1>5

\* The image stage: a verdict, an outage, or nothing to ask.
LEMMA ImageStep ==
  ASSUME InspectionAssumption, TypeOK, NEW r \in Requests, Pipeline(r), Image(r)
  PROVE  Pipeline(r)'
<1> USE DEF TypeOK
<1>1. /\ pc[r] = "image" /\ heard[r] = Unheard /\ segs[r] = {} /\ running[r] = {}
      /\ outcome[r] = "none" /\ row[r] = "none"
  BY DEF Image, Pipeline
<1>2. /\ content'[r] = content[r] /\ rt'[r] = rt[r] /\ segs'[r] = {} /\ running'[r] = {}
      /\ outcome'[r] = "none" /\ row'[r] = "none"
  BY <1>1 DEF Image
<1>3. \A j \in Judges \ {"image"} : heard'[r][j] = "none"
  BY <1>1 DEF Image, Hear, Unheard, Judges
<1>4. CASE ~NeedsImage(content[r], rt[r])
  <2>1. pc'[r] = "video" /\ heard'[r] = Unheard
    BY <1>1, <1>4 DEF Image
  <2>2. ~NeedsImage(content[r], rt[r])'
    BY <1>2, <1>4 DEF NeedsImage, HasSnapshot
  <2>3. QED
    BY <1>2, <2>1, <2>2 DEF Pipeline, Passed, Stages, ImageSettled, Lenient, Unheard, Judges
<1>5. CASE NeedsImage(content[r], rt[r])
  <2>1. PICK v \in Verdicts : /\ Hear(r, "image", v)
                              /\ pc' = [pc EXCEPT ![r] = IF Blocks(v) THEN "audit" ELSE "video"]
    BY <1>5 DEF Image
  <2>2. heard'[r]["image"] = v /\ pc'[r] = IF Blocks(v) THEN "audit" ELSE "video"
    BY <2>1 DEF Hear, Judges
  <2>3. QED
    <3>1. \A s \in Segments : heard'[r][s] = "none"
      BY <1>3 DEF Judges, InspectionAssumption
    <3>2. heard'[r]["video"] = "none" /\ heard'[r]["policy"] = "none"
      BY <1>3 DEF Judges
    <3>3. CASE Blocks(v)
      BY <1>2, <2>2, <3>1, <3>2, <3>3 DEF Pipeline, Passed, Stages, Blocks, Judges
    <3>4. CASE ~Blocks(v)
      BY <1>2, <2>2, <3>1, <3>2, <3>4 DEF Pipeline, Passed, Stages, ImageSettled,
                                          Lenient, Blocks, Verdicts
    <3>5. QED
      BY <3>3, <3>4
<1>6. QED
  BY <1>4, <1>5

\* The video stage, with the memory of blocked videos.
LEMMA VideoStep ==
  ASSUME InspectionAssumption, TypeOK, NEW r \in Requests, Pipeline(r), Video(r)
  PROVE  Pipeline(r)'
<1> USE DEF TypeOK
<1>1. /\ pc[r] = "video" /\ segs[r] = {} /\ running[r] = {} /\ ImageSettled(r)
      /\ outcome[r] = "none" /\ row[r] = "none" /\ heard[r]["video"] = "none"
      /\ heard[r]["policy"] = "none" /\ \A s \in Segments : heard[r][s] = "none"
  BY DEF Video, Pipeline, Stages
<1>2. /\ content'[r] = content[r] /\ rt'[r] = rt[r] /\ segs'[r] = {} /\ running'[r] = {}
      /\ outcome'[r] = "none" /\ row'[r] = "none"
  BY <1>1 DEF Video
<1>3. \A j \in Judges \ {"video"} : heard'[r][j] = heard[r][j]
  BY <1>1 DEF Video, Hear
<1>4. /\ ImageSettled(r)' /\ heard'[r]["policy"] = "none"
      /\ \A s \in Segments : heard'[r][s] = "none"
  BY <1>1, <1>2, <1>3 DEF ImageSettled, Lenient, NeedsImage, HasSnapshot, Judges,
                          InspectionAssumption
<1>5. CASE ~NeedsVideo(content[r], rt[r])
  <2>1. pc'[r] = "text" /\ heard'[r]["video"] = "none"
    BY <1>1, <1>5 DEF Video
  <2>2. ~NeedsVideo(content[r], rt[r])'
    BY <1>2, <1>5 DEF NeedsVideo, HasSnapshot
  <2>3. QED
    BY <1>2, <1>4, <2>1, <2>2 DEF Pipeline, Passed, Stages, VideoSettled, Lenient
<1>6. CASE NeedsVideo(content[r], rt[r])
  <2>1. PICK v \in Verdicts : /\ Hear(r, "video", v)
                              /\ pc' = [pc EXCEPT ![r] = IF Blocks(v) THEN "audit" ELSE "text"]
    BY <1>6 DEF Video
  <2>2. heard'[r]["video"] = v /\ pc'[r] = IF Blocks(v) THEN "audit" ELSE "text"
    BY <2>1 DEF Hear, Judges
  <2>3. QED
    BY <1>2, <1>4, <2>2 DEF Pipeline, Passed, Stages, VideoSettled, Lenient, Blocks,
                            Judges, Verdicts
<1>7. QED
  BY <1>5, <1>6

\* The text stage: what was settled before it stays settled.
LEMMA Settled ==
  ASSUME NEW r \in Requests, ImageSettled(r), VideoSettled(r),
         content'[r] = content[r], rt'[r] = rt[r],
         heard'[r]["image"] = heard[r]["image"], heard'[r]["video"] = heard[r]["video"]
  PROVE  ImageSettled(r)' /\ VideoSettled(r)'
BY DEF ImageSettled, VideoSettled, Lenient, NeedsImage, NeedsVideo, HasSnapshot

\* The text stage: segments over several workers.
LEMMA TextStep ==
  ASSUME InspectionAssumption, TypeOK, NEW r \in Requests, Pipeline(r), Text(r)
  PROVE  Pipeline(r)'
<1> USE DEF TypeOK
<1>1. /\ pc[r] = "text" /\ segs[r] = {} /\ running[r] = {}
      /\ ImageSettled(r) /\ VideoSettled(r)
      /\ outcome[r] = "none" /\ row[r] = "none"
      /\ heard[r]["policy"] = "none" /\ \A s \in Segments : heard[r][s] = "none"
  BY DEF Text, Pipeline, Stages
<1>2. /\ content'[r] = content[r] /\ rt'[r] = rt[r] /\ running'[r] = {}
      /\ outcome'[r] = "none" /\ row'[r] = "none" /\ heard'[r] = heard[r]
  BY <1>1 DEF Text
<1>3. ImageSettled(r)' /\ VideoSettled(r)'
  BY <1>1, <1>2, Settled
<1>4. \/ pc'[r] = "policy" /\ segs'[r] = {}
      \/ pc'[r] = "scan" /\ TextMode # "off"
  BY <1>1 DEF Text, NeedsText
<1>5. QED
  BY <1>1, <1>2, <1>3, <1>4 DEF Pipeline, Passed, Stages, TextSettled

\* A segment's RPC starts.
LEMMA StartSegmentStep ==
  ASSUME TypeOK, NEW r \in Requests, Pipeline(r), StartSegment(r)
  PROVE  Pipeline(r)'
<1> USE DEF TypeOK
<1>1. /\ pc[r] = "scan" /\ pc'[r] = "scan" /\ segs'[r] = segs[r]
      /\ ImageSettled(r) /\ VideoSettled(r) /\ TextMode # "off"
      /\ outcome[r] = "none" /\ row[r] = "none"
      /\ heard[r]["policy"] = "none"
      /\ \A s \in Segments \ segs[r] : heard[r][s] = "none"
  BY DEF StartSegment, Pipeline, Stages
<1>2. /\ content'[r] = content[r] /\ rt'[r] = rt[r]
      /\ outcome'[r] = "none" /\ row'[r] = "none" /\ heard'[r] = heard[r]
  BY <1>1 DEF StartSegment
<1>3. ImageSettled(r)' /\ VideoSettled(r)'
  BY <1>1, <1>2, Settled
<1>4. running'[r] \subseteq segs'[r]
  BY <1>1 DEF StartSegment, Waiting, Pipeline
<1>5. QED
  BY <1>1, <1>2, <1>3, <1>4 DEF Pipeline, Passed, Stages

\* A segment's RPC ends.
LEMMA EndSegmentStep ==
  ASSUME InspectionAssumption, TypeOK, NEW r \in Requests, Pipeline(r), EndSegment(r)
  PROVE  Pipeline(r)'
<1> USE DEF TypeOK
<1>1. /\ pc[r] = "scan" /\ pc'[r] = "scan" /\ segs'[r] = segs[r]
      /\ ImageSettled(r) /\ VideoSettled(r) /\ TextMode # "off"
      /\ outcome[r] = "none" /\ row[r] = "none" /\ running[r] \subseteq segs[r]
      /\ heard[r]["policy"] = "none"
      /\ \A s \in Segments \ segs[r] : heard[r][s] = "none"
  BY DEF EndSegment, Pipeline, Stages
<1>2. /\ content'[r] = content[r] /\ rt'[r] = rt[r]
      /\ outcome'[r] = "none" /\ row'[r] = "none"
  BY <1>1 DEF EndSegment
<1>3. PICK s \in running[r], v \in Verdicts :
        Hear(r, s, v) /\ running' = [running EXCEPT ![r] = @ \ {s}]
  BY DEF EndSegment
<1>4. s \in segs[r] /\ s \in Segments /\ s \notin {"image", "video", "policy"}
  BY <1>1, <1>3 DEF InspectionAssumption
<1>5. \A j \in Judges : j # s => heard'[r][j] = heard[r][j]
  BY <1>3 DEF Hear
<1>6. /\ heard'[r]["image"] = heard[r]["image"] /\ heard'[r]["video"] = heard[r]["video"]
      /\ heard'[r]["policy"] = "none"
  BY <1>1, <1>4, <1>5 DEF Judges
<1>7. ImageSettled(r)' /\ VideoSettled(r)'
  BY <1>1, <1>2, <1>6, Settled
<1>8. \A t \in Segments \ segs'[r] : heard'[r][t] = "none"
  BY <1>1, <1>4, <1>5 DEF Judges
<1>9. running'[r] \subseteq segs'[r]
  BY <1>1, <1>3
<1>10. QED
  BY <1>1, <1>2, <1>6, <1>7, <1>8, <1>9 DEF Pipeline, Passed, Stages

\* All segments are answered: block, or go on to the policy API.
LEMMA ScanDoneStep ==
  ASSUME InspectionAssumption, TypeOK, NEW r \in Requests, Pipeline(r), ScanDone(r)
  PROVE  Pipeline(r)'
<1> USE DEF TypeOK
<1>1. /\ pc[r] = "scan" /\ running[r] = {}
      /\ ImageSettled(r) /\ VideoSettled(r) /\ TextMode # "off"
      /\ outcome[r] = "none" /\ row[r] = "none"
      /\ heard[r]["policy"] = "none"
      /\ \A s \in Segments \ segs[r] : heard[r][s] = "none"
  BY DEF ScanDone, Pipeline, Stages
<1>2. /\ content'[r] = content[r] /\ rt'[r] = rt[r] /\ heard'[r] = heard[r]
      /\ outcome'[r] = "none" /\ row'[r] = "none" /\ segs'[r] = segs[r] /\ running'[r] = {}
  BY <1>1 DEF ScanDone
<1>3. ImageSettled(r)' /\ VideoSettled(r)'
  BY <1>1, <1>2, Settled
<1>4. \A s \in segs[r] : heard[r][s] # "none"
  BY <1>1 DEF ScanDone, Waiting
<1>5. CASE (FailClosed /\ Said(r, "failed")) \/ (TextMode = "block" /\ Said(r, "flagged"))
  <2>1. pc'[r] = "audit"
    BY <1>5 DEF ScanDone
  <2>2. FailClosed \/ \E j \in Judges : heard[r][j] = "flagged"
    BY <1>5 DEF Said, Judges
  <2>3. QED
    BY <1>1, <1>2, <2>1, <2>2 DEF Pipeline, Passed, Stages
<1>6. CASE ~((FailClosed /\ Said(r, "failed")) \/ (TextMode = "block" /\ Said(r, "flagged")))
  <2>1. pc'[r] = "policy"
    BY <1>6 DEF ScanDone
  <2>2. TextSettled(r)'
    BY <1>1, <1>2, <1>4, <1>6 DEF TextSettled, Said, InspectionAssumption
  <2>3. QED
    BY <1>1, <1>2, <1>3, <2>1, <2>2 DEF Pipeline, Passed, Stages
<1>7. QED
  BY <1>5, <1>6

\* What a judge flagged is answered with a block, whatever the API says.
LEMMA AuditStep ==
  ASSUME TypeOK, NEW r \in Requests, Pipeline(r), Audit(r)
  PROVE  Pipeline(r)'
<1> USE DEF TypeOK
<1>1. /\ running[r] = {} /\ \A s \in Segments \ segs[r] : heard[r][s] = "none"
      /\ FailClosed \/ \E j \in Judges : heard[r][j] = "flagged"
  BY DEF Audit, Pipeline
<1>2. /\ pc'[r] = "done" /\ outcome'[r] = "blocked" /\ segs'[r] = segs[r]
      /\ running'[r] = {} /\ heard'[r] = heard[r]
  BY <1>1 DEF Audit, Finish
<1>3. QED
  BY <1>1, <1>2 DEF Pipeline, Passed, Stages

\* The verdict: delivered only if the policy is settled too.
LEMMA PolicyStep ==
  ASSUME InspectionAssumption, TypeOK, NEW r \in Requests, Pipeline(r),
         PolicyAnswers(r) \/ PolicyFails(r)
  PROVE  Pipeline(r)'
<1> USE DEF TypeOK
<1>1. /\ pc[r] = "policy" /\ running[r] = {} /\ row[r] = "none"
      /\ ImageSettled(r) /\ VideoSettled(r) /\ TextSettled(r)
      /\ \A s \in Segments \ segs[r] : heard[r][s] = "none"
  BY DEF PolicyAnswers, PolicyFails, Pipeline, Stages
<1>2. /\ content'[r] = content[r] /\ rt'[r] = rt[r] /\ segs'[r] = segs[r]
      /\ running'[r] = {} /\ pc'[r] = "done"
  BY <1>1 DEF PolicyAnswers, PolicyFails, Deliver, Finish
<1>3. \A j \in Judges \ {"policy"} : heard'[r][j] = heard[r][j]
  BY DEF PolicyAnswers, PolicyFails, Hear
<1>4. /\ heard'[r]["image"] = heard[r]["image"] /\ heard'[r]["video"] = heard[r]["video"]
      /\ \A s \in Segments : heard'[r][s] = heard[r][s]
  BY <1>3 DEF Judges, InspectionAssumption
<1>5. ImageSettled(r)' /\ VideoSettled(r)'
  BY <1>1, <1>2, <1>4, Settled
<1>6. TextSettled(r)'
  BY <1>1, <1>2, <1>4 DEF TextSettled
<1>7. \A s \in Segments \ segs'[r] : heard'[r][s] = "none"
  BY <1>1, <1>2, <1>4
<1>8. \/ /\ outcome'[r] \in {"delivered", "stripped"} /\ PolicySettled(r)'
      \/ /\ outcome'[r] = "blocked"
         /\ FailClosed \/ heard'[r]["policy"] = "flagged"
  <2>1. CASE PolicyAnswers(r)
    <3>1. PICK d \in {"allow", "block"} :
            /\ Store(r, d)
            /\ Hear(r, "policy", IF d = "block" THEN "flagged" ELSE "clean")
            /\ IF d = "block" THEN Finish(r, "blocked") ELSE Deliver(r)
      BY <2>1 DEF PolicyAnswers
    <3>2. /\ row'[r] \in {d, "none"}
          /\ heard'[r]["policy"] = IF d = "block" THEN "flagged" ELSE "clean"
      BY <1>1, <3>1 DEF Store, Hear, Judges
    <3>3. outcome'[r] \in IF d = "block" THEN {"blocked"} ELSE {"delivered", "stripped"}
      BY <3>1 DEF Deliver, Finish
    <3>4. QED
      BY <3>2, <3>3 DEF PolicySettled, Lenient
  <2>2. CASE PolicyFails(r)
    <3>1. heard'[r]["policy"] = "failed"
      BY <2>2 DEF PolicyFails, Hear, Judges
    <3>2. outcome'[r] \in IF FailClosed THEN {"blocked"} ELSE {"delivered", "stripped"}
      BY <2>2 DEF PolicyFails, Deliver, Finish
    <3>3. QED
      BY <3>1, <3>2 DEF PolicySettled, Lenient
  <2>3. QED
    BY <2>1, <2>2
<1>9. QED
  <2>1. CASE outcome'[r] = "blocked" /\ (FailClosed \/ heard'[r]["policy"] = "flagged")
    BY <1>2, <1>7, <2>1 DEF Pipeline, Passed, Stages, Judges
  <2>2. CASE outcome'[r] \in {"delivered", "stripped"} /\ PolicySettled(r)'
    BY <1>2, <1>5, <1>6, <1>7, <2>2 DEF Pipeline, Passed, Stages
  <2>3. QED
    BY <1>8, <2>1, <2>2

\* What one request hears changes nothing for the others.
LEMMA PipelineStep ==
  ASSUME InspectionAssumption, InspectionInv, [Next]_vars
  PROVE  \A q \in Requests : Pipeline(q)'
<1>1. TypeOK /\ \A q \in Requests : Pipeline(q)
  BY DEF InspectionInv
<1>2. ASSUME NEW r \in Requests, Arrive(r) \/ Refuse(r) \/ Serve(r) \/ Again(r)
      PROVE  \A q \in Requests : Pipeline(q)'
  <2>1. Pipeline(r)'
    BY <1>1, <1>2, StartStep, ImageStep, VideoStep, TextStep, StartSegmentStep,
       EndSegmentStep, ScanDoneStep, AuditStep, PolicyStep DEF Serve
  <2>2. \A q \in Requests \ {r} : Pipeline(q)'
    BY <1>1, <1>2, Others, Untouched
  <2>3. QED
    BY <2>1, <2>2
<1>3. CASE Sweep \/ Poll \/ TogglePanic \/ UNCHANGED vars \/ \E v \in Videos : Expire(v)
  <2>1. UNCHANGED goroutineVars
    BY <1>3 DEF Sweep, Poll, TogglePanic, Expire, vars
  <2>2. \A q \in Requests : requestVars(q)' = requestVars(q)
    BY <2>1 DEF goroutineVars, requestVars
  <2>3. QED
    BY <1>1, <2>2, Untouched
<1>4. QED
  BY <1>2, <1>3 DEF Next

\* A block from memory is of a video that was flagged.
LEMMA MarkedStep ==
  ASSUME InspectionAssumption, InspectionInv, [Next]_vars
  PROVE  MarkedWasFlagged'
<1>1. TypeOK /\ MarkedWasFlagged /\ \A q \in Requests : Pipeline(q)
  BY DEF InspectionInv
<1>2. condemned \subseteq condemned' /\ marked' \subseteq condemned'
  BY MemoryStep
<1>3. ASSUME NEW q \in Requests, outcome'[q] = "remembered"
      PROVE  content'[q].video \in condemned'
  <2>1. CASE UNCHANGED <<outcome, content>>
    BY <2>1, <1>1, <1>2, <1>3 DEF MarkedWasFlagged
  <2>2. ASSUME NEW r \in Requests, Arrive(r)
        PROVE  content'[q].video \in condemned'
    <3>1. CASE q # r
      BY <2>2, <3>1, <1>1, <1>2, <1>3 DEF Arrive, Finish, MarkedWasFlagged, TypeOK
    <3>2. CASE q = r
      <4>1. outcome[r] # "remembered"
        BY <2>2, <1>1 DEF Arrive, Pipeline
      <4>2. PICK c \in Responses :
              content' = [content EXCEPT ![r] = c] /\ c.video \in marked
        BY <2>2, <3>2, <1>3, <4>1 DEF Arrive
      <4>3. content'[q] = c
        BY <3>2, <4>2, <1>1 DEF TypeOK
      <4>4. QED
        BY <4>2, <4>3, <1>1, <1>2 DEF MarkedWasFlagged
    <3>3. QED
      BY <3>1, <3>2
  <2>3. ASSUME NEW r \in Requests, Refuse(r) \/ Serve(r) \/ Again(r)
        PROVE  content' = content /\ (outcome[q] = "remembered" \/ UNCHANGED outcome)
    <3>1. content' = content
      BY <2>3 DEF Refuse, Serve, Again, Fetch, FetchFails, Image, Video, Text,
                  StartSegment, EndSegment, ScanDone, Audit, PolicyAnswers, PolicyFails
    <3>2. \/ UNCHANGED outcome
          \/ \E w \in {"refused", "error", "blocked", "delivered", "stripped", "none"} :
               outcome' = [outcome EXCEPT ![r] = w]
      BY <2>3 DEF Refuse, Serve, Again, Fetch, FetchFails, Image, Video, Text,
                  StartSegment, EndSegment, ScanDone, Audit, PolicyAnswers, PolicyFails,
                  Deliver, Finish
    <3>3. QED
      BY <3>1, <3>2, <1>1, <1>3 DEF TypeOK
  <2>4. CASE Sweep \/ Poll \/ TogglePanic \/ UNCHANGED vars \/ \E v \in Videos : Expire(v)
    BY <2>4, <2>1 DEF Sweep, Poll, TogglePanic, Expire, vars, goroutineVars
  <2>5. QED
    BY <2>1, <2>2, <2>3, <2>4, <1>1, <1>2 DEF Next, MarkedWasFlagged
<1>4. QED
  BY <1>2, <1>3 DEF MarkedWasFlagged

redactionVars(r) == <<pc[r], segs[r], heard[r], rewritten[r], outcome[r]>>

\* inspectText: a replacement body is there for a flagged segment, and stays.
LEMMA RedactionStep ==
  ASSUME InspectionAssumption, InspectionInv, [Next]_vars
  PROVE  \A q \in Requests : Redaction(q)'
<1>1. TypeOK /\ \A q \in Requests : Redaction(q)
  BY DEF InspectionInv
<1>2. ASSUME NEW q \in Requests, redactionVars(q)' = redactionVars(q)
      PROVE  Redaction(q)'
  BY <1>1, <1>2 DEF redactionVars, Redaction, Said
<1>3. ASSUME NEW r \in Requests, Arrive(r) \/ Refuse(r) \/ Serve(r) \/ Again(r)
      PROVE  \A q \in Requests : Redaction(q)'
  <2>1. \A q \in Requests \ {r} : redactionVars(q)' = redactionVars(q)
    <3> TAKE q \in Requests \ {r}
    <3>1. requestVars(q)' = requestVars(q)
      BY <1>1, <1>3, Others
    <3>2. \/ UNCHANGED rewritten
          \/ \E b \in BOOLEAN : rewritten' = [rewritten EXCEPT ![r] = b]
      BY <1>3 DEF Arrive, Refuse, Serve, Again, Fetch, FetchFails, Image, Video, Text,
                  StartSegment, EndSegment, ScanDone, Audit, PolicyAnswers, PolicyFails
    <3> QED
      BY <1>1, <3>1, <3>2 DEF requestVars, redactionVars, TypeOK
  <2>2. Redaction(r)'
    <3>1. CASE Again(r) \/ ScanDone(r)
      <4>1. CASE Again(r)
        <5>1. rewritten'[r] = FALSE /\ outcome'[r] = "none"
          BY <1>1, <4>1 DEF Again, TypeOK
        <5>2. outcome'[r] # "stripped"
          BY <5>1
        <5> QED
          BY <5>1, <5>2, Zenon DEF Redaction
      <4>2. CASE ScanDone(r)
        <5>1. ~rewritten[r] /\ outcome[r] # "stripped" /\ pc[r] = "scan"
          BY <1>1, <4>2 DEF ScanDone, Redaction
        <5>2. outcome'[r] = outcome[r] /\ (Said(r, "flagged") => Said(r, "flagged")')
          BY <4>2 DEF ScanDone, Said
        <5>3. rewritten'[r] => pc'[r] \in {"policy", "done"} /\ Said(r, "flagged")
          BY <1>1, <4>2, <5>1 DEF ScanDone, TypeOK
        <5>4. outcome'[r] # "stripped"
          BY <5>1, <5>2
        <5> QED
          BY <5>1, <5>2, <5>3, <5>4, Zenon DEF Redaction
      <4> QED
        BY <3>1, <4>1, <4>2
    <3>2. CASE PolicyAnswers(r) \/ PolicyFails(r)
      <4>1. /\ rewritten' = rewritten /\ segs' = segs /\ pc'[r] = "done"
            /\ outcome'[r] = "stripped" => rewritten[r]
        BY <1>1, <3>2 DEF PolicyAnswers, PolicyFails, Deliver, Finish, TypeOK
      <4>2. \A s \in Segments : heard'[r][s] = heard[r][s]
        BY <1>1, <3>2 DEF PolicyAnswers, PolicyFails, Hear, TypeOK, Judges, InspectionAssumption
      <4>3. Said(r, "flagged") => Said(r, "flagged")'
        BY <1>1, <4>1, <4>2 DEF Said, TypeOK
      <4> QED
        <5>1. pc'[r] \in {"policy", "done"}
          BY <4>1
        <5>2. rewritten[r] => Said(r, "flagged")
          BY <1>1, Zenon DEF Redaction
        <5> QED
          BY <4>1, <4>3, <5>1, <5>2, Zenon DEF Redaction
    <3>3. CASE \/ Arrive(r) \/ Refuse(r) \/ Fetch(r) \/ FetchFails(r) \/ Image(r) \/ Video(r)
               \/ Text(r) \/ StartSegment(r) \/ EndSegment(r) \/ Audit(r)
      <4>1. pc[r] \notin {"policy", "done"} /\ rewritten' = rewritten
        BY <3>3 DEF Arrive, Refuse, Fetch, FetchFails, Image, Video, Text, StartSegment,
                    EndSegment, Audit
      <4>2. ~rewritten[r] /\ outcome[r] # "stripped"
        BY <1>1, <4>1 DEF Redaction
      <4>3. outcome'[r] \in {outcome[r], "refused", "remembered", "error", "blocked"}
        BY <1>1, <3>3 DEF Arrive, Refuse, Fetch, FetchFails, Image, Video, Text, StartSegment,
                          EndSegment, Audit, Finish, TypeOK
      <4> QED
        <5>1. outcome'[r] # "stripped"
          BY <4>2, <4>3
        <5> QED
          BY <4>1, <4>2, <5>1, Zenon DEF Redaction
    <3> QED
      BY <1>3, <3>1, <3>2, <3>3 DEF Serve
  <2> QED
    BY <1>2, <2>1, <2>2
<1>4. CASE Sweep \/ Poll \/ TogglePanic \/ UNCHANGED vars \/ \E v \in Videos : Expire(v)
  <2>1. \A q \in Requests : redactionVars(q)' = redactionVars(q)
    BY <1>4 DEF Sweep, Poll, TogglePanic, Expire, vars, goroutineVars, redactionVars
  <2> QED
    BY <1>2, <2>1
<1> QED
  BY <1>3, <1>4 DEF Next

\* Every step of the pipeline, the memory, the poller and the panic switch.
LEMMA StepInspectionInv ==
  ASSUME InspectionAssumption, InspectionInv, [Next]_vars
  PROVE  InspectionInv'
BY MemoryStep, TypeStep, PipelineStep, MarkedStep, RedactionStep DEF InspectionInv

-----------------------------------------------------------------------------
\* The inspection invariant holds in every reachable state.
THEOREM InspectionSafe ==
  ASSUME InspectionAssumption
  PROVE  Spec => []InspectionInv
<1>1. Init => InspectionInv
  BY InitInspectionInv
<1>2. InspectionInv /\ [Next]_vars => InspectionInv'
  BY StepInspectionInv
<1>3. QED
  BY <1>1, <1>2, PTL DEF Spec

\* handlePlainHTTP and decide: an outage lets nothing through when failing
\* closed and blocks nothing when failing open.
THEOREM OutagesFollowThePolicy ==
  ASSUME InspectionAssumption
  PROVE  Spec => []FailClosedHolds /\ []OutageNeverBlocks
<1>1. InspectionInv => FailClosedHolds
  <2> SUFFICES ASSUME InspectionInv, FailClosed, NEW r \in Requests, Passed(r),
                      NEW j \in Asked(r)
               PROVE  heard[r][j] \in {"clean", "flagged"}
    BY DEF FailClosedHolds
  <2>1. Pipeline(r) /\ TypeOK
    BY DEF InspectionInv
  <2>2. ImageSettled(r) /\ VideoSettled(r) /\ TextSettled(r) /\ PolicySettled(r)
    BY <2>1 DEF Pipeline
  <2>3. j \in Judges /\ heard[r][j] \in Verdicts \cup {"none"}
    BY <2>1 DEF Asked, TypeOK, Judges
  <2>4. heard[r][j] # "none" /\ heard[r][j] # "failed"
    BY <2>2 DEF Asked, ImageSettled, VideoSettled, TextSettled, PolicySettled, Lenient
  <2>5. QED
    BY <2>3, <2>4 DEF Verdicts
<1>2. InspectionInv => OutageNeverBlocks
  BY DEF InspectionInv, Pipeline, OutageNeverBlocks
<1>3. QED
  BY <1>1, <1>2, InspectionSafe, PTL

\* decide: no verdict of a classifier or of the policy gets lost on the way, but for
\* flagged text in strip mode, and only such text is redacted.
THEOREM FlaggedIsBlockedAlways ==
  ASSUME InspectionAssumption
  PROVE  Spec => []FlaggedIsBlocked
<1>1. InspectionInv => FlaggedIsBlocked
  <2> SUFFICES ASSUME InspectionInv, NEW r \in Requests, Passed(r)
               PROVE  /\ \A j \in Judges : heard[r][j] = "flagged" =>
                                              j \in Segments /\ TextMode = "strip"
                      /\ outcome[r] = "stripped" => Said(r, "flagged")
    BY DEF FlaggedIsBlocked
  <2>1. Pipeline(r) /\ Redaction(r)
    BY DEF InspectionInv
  <2>2. ASSUME NEW j \in Judges, heard[r][j] = "flagged"
        PROVE  j \in Segments /\ TextMode = "strip"
    <3>1. j \notin {"image", "video", "policy"}
      BY <2>1, <2>2 DEF Pipeline, ImageSettled, VideoSettled, PolicySettled, Lenient
    <3> QED
      BY <2>1, <2>2, <3>1 DEF Pipeline, TextSettled, Judges
  <2> QED
    BY <2>1, <2>2 DEF Redaction
<1> QED
  BY <1>1, InspectionSafe, PTL

\* decide against post_decide: failing closed, the trail and the client agree.
THEOREM AuditNeverContradictsAlways ==
  ASSUME InspectionAssumption
  PROVE  Spec => []AuditNeverContradicts
<1>1. InspectionInv => AuditNeverContradicts
  BY DEF InspectionInv, Pipeline, PolicySettled, AuditNeverContradicts
<1>2. QED
  BY <1>1, InspectionSafe, PTL

\* rememberBlockedYouTubeVideo: the memory is bounded, and only flagged
\* thumbnails ever block a video.
THEOREM MemorySafe ==
  ASSUME InspectionAssumption
  PROVE  Spec => []MarkedWasFlagged /\ []MemoryBounded
<1>1. InspectionInv => MarkedWasFlagged /\ MemoryBounded
  BY DEF InspectionInv
<1>2. QED
  BY <1>1, InspectionSafe, PTL

\* Requests stay at a stage of Handler.decide and judges at a verdict they have.
THEOREM InspectionTypesAlways ==
  ASSUME InspectionAssumption
  PROVE  Spec => []TypeOK
<1>1. InspectionInv => TypeOK
  BY DEF InspectionInv
<1>2. QED
  BY <1>1, InspectionSafe, PTL
=============================================================================
