----------------------------- MODULE Inspection -----------------------------
(***************************************************************************)
(* mitm.Handler: what the proxy does with a request between the client and *)
(* the origin.  Requests are served concurrently; each response body goes  *)
(* through the image classifier, the video sampler, the text classifier    *)
(* (its segments concurrently) and the policy API, any of which may fail.  *)
(* The requests share the memory of blocked YouTube videos, the settings   *)
(* the poller fetches and the panic switch of the API.                     *)
(***************************************************************************)
EXTENDS Integers, FiniteSets

CONSTANTS
  Requests,         \* goroutines serving requests
  Segments,         \* text segments a body may hold
  Videos,           \* YouTube video ids
  NoVideo,          \* a request without one
  Responses,        \* what the web may answer: see Contents
  SettingsChoices,  \* inspect toggles an admin may set
  FailClosed,       \* proxy.fail_closed, default TRUE
  TextMode,         \* proxy.text_inspection.mode, default "block"
  TextWorkers,      \* concurrent RPCs of inspectText, 8 in the code
  MaxMarked         \* maxBlockedYouTube, 10000 in the code

\* ct is the declared Content-Type, looks what the magic bytes or the printable
\* bytes of the snapshot give away ("empty": there are none); role is what the
\* host and the path tell the handler.
Contents == [ct    : {"image", "video", "text", "generic"},
             looks : {"image", "video", "text", "opaque", "empty"},
             role  : {"plain", "search", "thumb", "watch"},
             video : Videos \cup {NoVideo}]

Toggles == {"image", "video", "text"}

ASSUME InspectionAssumption ==
  /\ Responses \subseteq Contents /\ Responses # {}
  /\ SettingsChoices \subseteq SUBSET Toggles
  /\ Toggles \in SettingsChoices
  /\ Segments \cap {"image", "video", "policy"} = {}
  /\ FailClosed \in BOOLEAN
  /\ TextMode \in {"off", "block", "strip"}
  /\ TextWorkers \in Nat \ {0}
  /\ MaxMarked \in Nat \ {0}
  /\ IsFiniteSet(Videos) /\ NoVideo \notin Videos

Judges == {"image", "video", "policy"} \cup Segments
Verdicts == {"clean", "flagged", "failed"}

VARIABLES
  pc,           \* where each goroutine is
  content,      \* the response it handles
  rt,           \* decide: its copy of the runtime settings
  segs,         \* inspectText: segments extracted
  running,      \* inspectText: segments whose RPC is running
  heard,        \* what each judge answered
  rewritten,    \* decide: there is a replacement body
  outcome,      \* what the client got
  row,          \* decision of the audit row the API stored
  marked,       \* blockedYouTubeVideos
  stale,        \* those of them past expiresAt
  settings,     \* Poller.current
  panic,        \* panic-relax is active
  condemned     \* history: videos whose thumbnail the classifier flagged

goroutineVars == <<pc, content, rt, segs, running, heard, rewritten, outcome, row>>
memoryVars    == <<marked, stale, condemned>>
adminVars     == <<settings, panic>>
vars == <<goroutineVars, memoryVars, adminVars>>

Unheard == [j \in Judges |-> "none"]

Init ==
  /\ pc = [r \in Requests |-> "idle"]
  /\ content \in [Requests -> Responses]
  /\ rt = [r \in Requests |-> {}]
  /\ segs = [r \in Requests |-> {}]
  /\ running = [r \in Requests |-> {}]
  /\ heard = [r \in Requests |-> Unheard]
  /\ rewritten = [r \in Requests |-> FALSE]
  /\ outcome = [r \in Requests |-> "none"]
  /\ row = [r \in Requests |-> "none"]
  /\ marked = {} /\ stale = {} /\ condemned = {}
  /\ settings = Toggles        \* defaults(), until the first poll
  /\ panic = FALSE

-----------------------------------------------------------------------------
(* Which stages look at a response.                                        *)

\* shouldInspect, or shouldInspectWithBody: there is a snapshot and it has bytes.
HasSnapshot(c) == /\ c.looks # "empty"
                  /\ c.ct # "generic" \/ c.looks # "opaque"

NeedsImage(c, on) == "image" \in on /\ HasSnapshot(c) /\ "image" \in {c.ct, c.looks}

NeedsVideo(c, on) == "video" \in on /\ HasSnapshot(c) /\ c.ct = "video"

NeedsText(c, on) == /\ TextMode # "off" /\ "text" \in on /\ HasSnapshot(c)
                    /\ c.role # "search" /\ "text" \in {c.ct, c.looks}

\* Extract goes by the Content-Type alone, and may find nothing to classify.
Extracts(c) == IF c.ct = "text" THEN SUBSET Segments ELSE {{}}

-----------------------------------------------------------------------------
(* The memory of blocked YouTube videos.                                   *)

\* Mutant: room is made only once the memory is over its limit.
RememberEvictsLate(v) ==
  LET kept == IF Cardinality(marked) > MaxMarked
              THEN {marked \ {k} : k \in marked} ELSE {marked}
  IN  \E m \in kept : /\ marked' = m \cup {v}
                      /\ stale' = (stale \cap m) \ {v}

\* At capacity an arbitrary entry makes room, whether or not v has one.
Remember(v) ==
  LET kept == IF Cardinality(marked) >= MaxMarked
              THEN {marked \ {k} : k \in marked} ELSE {marked}
  IN  \E m \in kept : /\ marked' = m \cup {v}
                      /\ stale' = (stale \cap m) \ {v}

RememberThumbnail(c) ==
  IF c.role = "thumb" /\ c.video \in Videos
  THEN Remember(c.video) /\ condemned' = condemned \cup {c.video}
  ELSE UNCHANGED memoryVars

\* blockedYouTubeTTL passes.
Expire(v) ==
  /\ v \in marked \ stale
  /\ stale' = stale \cup {v}
  /\ UNCHANGED <<goroutineVars, marked, condemned, adminVars>>

\* cleanupBlockedYouTube, every five minutes.
Sweep ==
  /\ stale # {}
  /\ marked' = marked \ stale
  /\ stale' = {}
  /\ UNCHANGED <<goroutineVars, condemned, adminVars>>

-----------------------------------------------------------------------------
(* A request, up to decide.                                                *)

\* A private address, or an unresolvable one when failing closed: no traffic.
Finish(r, what) ==
  /\ pc' = [pc EXCEPT ![r] = "done"]
  /\ outcome' = [outcome EXCEPT ![r] = what]

Refuse(r) ==
  /\ pc[r] = "idle"
  /\ Finish(r, "refused")
  /\ UNCHANGED <<content, rt, segs, running, heard, rewritten, row, memoryVars, adminVars>>

\* blockReasonForYouTubeRequest, before anything is sent upstream.
Arrive(r) ==
  /\ pc[r] = "idle"
  /\ \E c \in Responses :
       LET known == c.role # "thumb" /\ c.video \in marked
       IN /\ content' = [content EXCEPT ![r] = c]
          /\ IF known /\ c.video \in stale
             THEN marked' = marked \ {c.video} /\ stale' = stale \ {c.video}
             ELSE UNCHANGED <<marked, stale>>
          /\ IF known /\ c.video \notin stale
             THEN Finish(r, "remembered")
             ELSE pc' = [pc EXCEPT ![r] = "fetch"] /\ UNCHANGED outcome
  /\ UNCHANGED <<rt, segs, running, heard, rewritten, row, condemned, adminVars>>

FetchFails(r) ==
  /\ pc[r] = "fetch"
  /\ Finish(r, "error")
  /\ UNCHANGED <<content, rt, segs, running, heard, rewritten, row, memoryVars, adminVars>>

\* The body is there; decide takes its copy of the settings.
Fetch(r) ==
  /\ pc[r] = "fetch"
  /\ rt' = [rt EXCEPT ![r] = settings]
  /\ pc' = [pc EXCEPT ![r] = "image"]
  /\ UNCHANGED <<content, segs, running, heard, rewritten, outcome, row,
                 memoryVars, adminVars>>

-----------------------------------------------------------------------------
(* decide.  A stage that blocks goes on to auditDecide.                    *)

Hear(r, j, v) == heard' = [heard EXCEPT ![r][j] = v]

\* Mutant: an error of a classifier is only logged.
BlocksOnVerdict(v) == v = "flagged"

Blocks(v) == v = "flagged" \/ (v = "failed" /\ FailClosed)

\* Mutant: the thumbnail of an unavailable classifier's block is remembered too.
ImageMarksFailures(r) ==
  /\ pc[r] = "image"
  /\ IF NeedsImage(content[r], rt[r])
     THEN \E v \in Verdicts :
            /\ Hear(r, "image", v)
            /\ pc' = [pc EXCEPT ![r] = IF Blocks(v) THEN "audit" ELSE "video"]
            /\ CASE v = "flagged" -> RememberThumbnail(content[r])
                 [] v = "failed" /\ content[r].role = "thumb" ->
                      Remember(content[r].video) /\ UNCHANGED condemned
                 [] OTHER -> UNCHANGED memoryVars
     ELSE /\ pc' = [pc EXCEPT ![r] = "video"]
          /\ UNCHANGED <<heard, memoryVars>>
  /\ UNCHANGED <<content, rt, segs, running, rewritten, outcome, row, adminVars>>

Image(r) ==
  /\ pc[r] = "image"
  /\ IF NeedsImage(content[r], rt[r])
     THEN \E v \in Verdicts :
            /\ Hear(r, "image", v)
            /\ pc' = [pc EXCEPT ![r] = IF Blocks(v) THEN "audit" ELSE "video"]
            /\ IF v = "flagged" THEN RememberThumbnail(content[r])
                                ELSE UNCHANGED memoryVars
     ELSE /\ pc' = [pc EXCEPT ![r] = "video"]
          /\ UNCHANGED <<heard, memoryVars>>
  /\ UNCHANGED <<content, rt, segs, running, rewritten, outcome, row, adminVars>>

\* "failed" stands for an RPC error, a busy sampler, zero frames or a reason
\* that says the sampler failed.
Video(r) ==
  /\ pc[r] = "video"
  /\ IF NeedsVideo(content[r], rt[r])
     THEN \E v \in Verdicts :
            /\ Hear(r, "video", v)
            /\ pc' = [pc EXCEPT ![r] = IF Blocks(v) THEN "audit" ELSE "text"]
     ELSE /\ pc' = [pc EXCEPT ![r] = "text"]
          /\ UNCHANGED heard
  /\ UNCHANGED <<content, rt, segs, running, rewritten, outcome, row,
                 memoryVars, adminVars>>

Text(r) ==
  /\ pc[r] = "text"
  /\ IF NeedsText(content[r], rt[r])
     THEN /\ \E S \in Extracts(content[r]) : segs' = [segs EXCEPT ![r] = S]
          /\ pc' = [pc EXCEPT ![r] = "scan"]
     ELSE pc' = [pc EXCEPT ![r] = "policy"] /\ UNCHANGED segs
  /\ UNCHANGED <<content, rt, running, heard, rewritten, outcome, row,
                 memoryVars, adminVars>>

Waiting(r) == {s \in segs[r] \ running[r] : heard[r][s] = "none"}

\* One of the goroutines of inspectText gets a place in its semaphore.
StartSegment(r) ==
  /\ pc[r] = "scan" /\ Cardinality(running[r]) < TextWorkers
  /\ \E s \in Waiting(r) : running' = [running EXCEPT ![r] = @ \cup {s}]
  /\ UNCHANGED <<pc, content, rt, segs, heard, rewritten, outcome, row,
                 memoryVars, adminVars>>

\* Mutant: an error returns without giving the place back or calling wg.Done.
EndSegmentLeaks(r) ==
  /\ pc[r] = "scan"
  /\ \E s \in running[r], v \in Verdicts :
       /\ heard[r][s] = "none"
       /\ Hear(r, s, v)
       /\ running' = IF v = "failed" THEN running ELSE [running EXCEPT ![r] = @ \ {s}]
  /\ UNCHANGED <<pc, content, rt, segs, rewritten, outcome, row, memoryVars, adminVars>>

\* Its RPC ends, at the latest with the 3s or the 10s deadline.
EndSegment(r) ==
  /\ pc[r] = "scan"
  /\ \E s \in running[r], v \in Verdicts :
       /\ Hear(r, s, v)
       /\ running' = [running EXCEPT ![r] = @ \ {s}]
  /\ UNCHANGED <<pc, content, rt, segs, rewritten, outcome, row, memoryVars, adminVars>>

Said(r, v) == \E s \in segs[r] : heard[r][s] = v

\* Mutant: a failed segment blocks whatever the policy for failures is.
ScanFailureBlocks(r) ==
  /\ pc[r] = "scan" /\ running[r] = {} /\ Waiting(r) = {}
  /\ IF Said(r, "failed") \/ (TextMode = "block" /\ Said(r, "flagged"))
     THEN pc' = [pc EXCEPT ![r] = "audit"] /\ UNCHANGED rewritten
     ELSE /\ pc' = [pc EXCEPT ![r] = "policy"]
          /\ \E changed \in BOOLEAN :
               /\ changed => Said(r, "flagged")
               /\ rewritten' = [rewritten EXCEPT ![r] = changed]
  /\ UNCHANGED <<content, rt, segs, running, heard, outcome, row, memoryVars, adminVars>>

\* Mutant: the first clean segment decides.
ScanTrustsOne(r) ==
  /\ pc[r] = "scan" /\ running[r] = {} /\ Waiting(r) = {}
  /\ IF (FailClosed /\ Said(r, "failed"))
        \/ (TextMode = "block" /\ Said(r, "flagged") /\ ~Said(r, "clean"))
     THEN pc' = [pc EXCEPT ![r] = "audit"] /\ UNCHANGED rewritten
     ELSE /\ pc' = [pc EXCEPT ![r] = "policy"]
          /\ UNCHANGED rewritten
  /\ UNCHANGED <<content, rt, segs, running, heard, outcome, row, memoryVars, adminVars>>

\* Mutant: what could not be classified is redacted like what was flagged.
ScanRedactsFailures(r) ==
  /\ pc[r] = "scan" /\ running[r] = {} /\ Waiting(r) = {}
  /\ IF (FailClosed /\ Said(r, "failed")) \/ (TextMode = "block" /\ Said(r, "flagged"))
     THEN pc' = [pc EXCEPT ![r] = "audit"] /\ UNCHANGED rewritten
     ELSE /\ pc' = [pc EXCEPT ![r] = "policy"]
          /\ \E changed \in BOOLEAN :
               /\ changed => Said(r, "flagged") \/ Said(r, "failed")
               /\ rewritten' = [rewritten EXCEPT ![r] = changed]
  /\ UNCHANGED <<content, rt, segs, running, heard, outcome, row, memoryVars, adminVars>>

\* After wg.Wait.  In strip mode flagged segments are redacted, and the body is
\* let through unchanged when the rewriting fails.
ScanDone(r) ==
  /\ pc[r] = "scan" /\ running[r] = {} /\ Waiting(r) = {}
  /\ IF (FailClosed /\ Said(r, "failed")) \/ (TextMode = "block" /\ Said(r, "flagged"))
     THEN pc' = [pc EXCEPT ![r] = "audit"] /\ UNCHANGED rewritten
     ELSE /\ pc' = [pc EXCEPT ![r] = "policy"]
          /\ \E changed \in BOOLEAN :
               /\ changed => Said(r, "flagged")
               /\ rewritten' = [rewritten EXCEPT ![r] = changed]
  /\ UNCHANGED <<content, rt, segs, running, heard, outcome, row, memoryVars, adminVars>>

-----------------------------------------------------------------------------
(* The policy API, post_decide: it stores the audit row and answers with   *)
(* its decision.  The row is lost when the commit finds the database busy, *)
(* the answer when the call times out or the API cannot decide.            *)

Store(r, d) == \/ row' = [row EXCEPT ![r] = d]
               \/ UNCHANGED row

\* auditDecide: the block stands whatever the API says.
Audit(r) ==
  /\ pc[r] = "audit"
  /\ Store(r, IF panic THEN "allow" ELSE "block")
  /\ Finish(r, "blocked")
  /\ UNCHANGED <<content, rt, segs, running, heard, rewritten, memoryVars, adminVars>>

Deliver(r) == Finish(r, IF rewritten[r] THEN "stripped" ELSE "delivered")

PolicyAnswers(r) ==
  /\ pc[r] = "policy"
  /\ \E d \in IF panic THEN {"allow"} ELSE {"allow", "block"} :
       /\ Store(r, d)
       /\ Hear(r, "policy", IF d = "block" THEN "flagged" ELSE "clean")
       /\ IF d = "block" THEN Finish(r, "blocked") ELSE Deliver(r)
  /\ UNCHANGED <<content, rt, segs, running, rewritten, memoryVars, adminVars>>

\* Mutant: an error of the policy API always fails open.
PolicyFailsOpen(r) ==
  /\ pc[r] = "policy"
  /\ \E d \in IF panic THEN {"allow"} ELSE {"allow", "block"} : Store(r, d)
  /\ Hear(r, "policy", "failed")
  /\ Deliver(r)
  /\ UNCHANGED <<content, rt, segs, running, rewritten, memoryVars, adminVars>>

PolicyFails(r) ==
  /\ pc[r] = "policy"
  /\ \E d \in IF panic THEN {"allow"} ELSE {"allow", "block"} : Store(r, d)
  /\ Hear(r, "policy", "failed")
  /\ IF FailClosed THEN Finish(r, "blocked") ELSE Deliver(r)
  /\ UNCHANGED <<content, rt, segs, running, rewritten, memoryVars, adminVars>>

-----------------------------------------------------------------------------
\* The goroutine ends; another request takes its place.
Again(r) ==
  /\ pc[r] = "done"
  /\ pc' = [pc EXCEPT ![r] = "idle"]
  /\ rt' = [rt EXCEPT ![r] = {}]
  /\ segs' = [segs EXCEPT ![r] = {}]
  /\ heard' = [heard EXCEPT ![r] = Unheard]
  /\ rewritten' = [rewritten EXCEPT ![r] = FALSE]
  /\ outcome' = [outcome EXCEPT ![r] = "none"]
  /\ row' = [row EXCEPT ![r] = "none"]
  /\ UNCHANGED <<content, running, memoryVars, adminVars>>

\* Poller.fetch replaces the settings; when it fails they stay.
Poll ==
  /\ settings' \in SettingsChoices
  /\ UNCHANGED <<goroutineVars, memoryVars, panic>>

\* An admin starts or ends panic-relax, or it runs out.
TogglePanic ==
  /\ panic' = ~panic
  /\ UNCHANGED <<goroutineVars, memoryVars, settings>>

Serve(r) ==
  \/ Fetch(r) \/ FetchFails(r) \/ Image(r) \/ Video(r) \/ Text(r)
  \/ StartSegment(r) \/ EndSegment(r) \/ ScanDone(r)
  \/ Audit(r) \/ PolicyAnswers(r) \/ PolicyFails(r)

Next ==
  \/ \E r \in Requests : Arrive(r) \/ Refuse(r) \/ Serve(r) \/ Again(r)
  \/ \E v \in Videos : Expire(v)
  \/ Sweep \/ Poll \/ TogglePanic

Spec == Init /\ [][Next]_vars

\* Every call a goroutine waits for ends, by its deadline if nothing else.
FairSpec == Spec /\ \A r \in Requests : WF_vars(Serve(r))

-----------------------------------------------------------------------------
TypeOK ==
  /\ pc \in [Requests -> {"idle", "fetch", "image", "video", "text", "scan",
                          "audit", "policy", "done"}]
  /\ content \in [Requests -> Responses]
  /\ rt \in [Requests -> SettingsChoices \cup {{}}]
  /\ segs \in [Requests -> SUBSET Segments]
  /\ running \in [Requests -> SUBSET Segments]
  /\ heard \in [Requests -> [Judges -> Verdicts \cup {"none"}]]
  /\ rewritten \in [Requests -> BOOLEAN]
  /\ outcome \in [Requests -> {"none", "refused", "remembered", "error",
                               "blocked", "delivered", "stripped"}]
  /\ row \in [Requests -> {"none", "allow", "block"}]
  /\ marked \in SUBSET Videos /\ stale \in SUBSET marked
  /\ condemned \in SUBSET Videos
  /\ settings \in SettingsChoices
  /\ panic \in BOOLEAN

Passed(r) == outcome[r] \in {"delivered", "stripped"}

\* The judges a response must satisfy.
Asked(r) ==
  {"policy"} \cup segs[r]
  \cup (IF NeedsImage(content[r], rt[r]) THEN {"image"} ELSE {})
  \cup (IF NeedsVideo(content[r], rt[r]) THEN {"video"} ELSE {})

\* Failing closed, a response reaches the client only if every judge asked
\* about it answered, and none of them an error: an outage lets nothing through.
FailClosedHolds ==
  FailClosed => \A r \in Requests : Passed(r) =>
                  \A j \in Asked(r) : heard[r][j] \in {"clean", "flagged"}

\* Whatever else fails, what a judge flagged is not delivered, but for text in strip
\* mode: that is redacted, or delivered as it is when Strip changes nothing ("Fall
\* through to allow even if rewriting failed").  Only flagged text is redacted.
FlaggedIsBlocked ==
  \A r \in Requests : Passed(r) =>
    /\ \A j \in Judges : heard[r][j] = "flagged" => j \in Segments /\ TextMode = "strip"
    /\ outcome[r] = "stripped" => Said(r, "flagged")

\* Failing open, an outage never blocks: what is blocked was flagged.
OutageNeverBlocks ==
  ~FailClosed => \A r \in Requests : outcome[r] = "blocked" =>
                   \E j \in Judges : heard[r][j] = "flagged"

\* A video is blocked from memory only if the classifier flagged its thumbnail
\* once, never because the classifier could not answer.
MarkedWasFlagged ==
  /\ marked \subseteq condemned
  /\ \A r \in Requests : outcome[r] = "remembered" => content[r].video \in condemned

\* The memory stays within maxBlockedYouTube entries.
MemoryBounded == Cardinality(marked) <= MaxMarked

\* Failing closed, the audit trail never says "block" of a response the client
\* received, even when the API's answer or its row was lost.
AuditNeverContradicts ==
  FailClosed => \A r \in Requests : Passed(r) => row[r] # "block"

\* Every request that was accepted is answered.
EveryRequestEnds == \A r \in Requests : pc[r] = "fetch" ~> pc[r] = "done"

\* A judge did not flag the response, and answered if an answer is needed.
Lenient(r, j) == heard[r][j] # "flagged" /\ (FailClosed => heard[r][j] # "failed")

\* What is settled about a request when it has got past each stage.
ImageSettled(r) ==
  Lenient(r, "image") /\ (NeedsImage(content[r], rt[r]) => heard[r]["image"] # "none")
VideoSettled(r) ==
  Lenient(r, "video") /\ (NeedsVideo(content[r], rt[r]) => heard[r]["video"] # "none")
TextSettled(r) ==
  \A s \in segs[r] : /\ heard[r][s] # "none"
                     /\ FailClosed => heard[r][s] # "failed"
                     /\ heard[r][s] = "flagged" => TextMode = "strip"
PolicySettled(r) ==
  heard[r]["policy"] # "none" /\ Lenient(r, "policy") /\ (FailClosed => row[r] # "block")

Stages == {"image", "video", "text", "scan", "policy"}

\* How far a request is tells what was heard about it: the inductive invariant.
Pipeline(r) ==
  /\ pc[r] \in {"idle", "fetch", "image"} => heard[r] = Unheard
  /\ pc[r] \in Stages \ {"image"} \/ Passed(r) => ImageSettled(r)
  /\ pc[r] = "video" => heard[r]["video"] = "none"
  /\ pc[r] \in {"text", "scan", "policy"} \/ Passed(r) => VideoSettled(r)
  /\ pc[r] \in {"idle", "fetch", "image", "video", "text"} => segs[r] = {}
  /\ pc[r] # "scan" => running[r] = {}
  /\ pc[r] = "scan" => TextMode # "off"
  /\ running[r] \subseteq segs[r]
  /\ \A s \in Segments \ segs[r] : heard[r][s] = "none"
  /\ pc[r] = "policy" \/ Passed(r) => TextSettled(r)
  /\ pc[r] \in Stages => heard[r]["policy"] = "none"
  /\ pc[r] # "done" => outcome[r] = "none"
  /\ pc[r] # "done" => row[r] = "none"
  /\ Passed(r) => PolicySettled(r)
  /\ pc[r] = "audit" \/ outcome[r] = "blocked" =>
       FailClosed \/ \E j \in Judges : heard[r][j] = "flagged"

\* There is a replacement body only behind the text stage, for a flagged segment.
Redaction(r) ==
  /\ rewritten[r] => pc[r] \in {"policy", "done"} /\ Said(r, "flagged")
  /\ outcome[r] = "stripped" => rewritten[r] /\ pc[r] = "done"

InspectionInv ==
  /\ TypeOK /\ MarkedWasFlagged /\ MemoryBounded
  /\ \A r \in Requests : Pipeline(r)
  /\ \A r \in Requests : Redaction(r)
============================================================================
