---------------------------- MODULE VideoSampler ----------------------------
(***************************************************************************)
(* How a video is judged: the proxy streams it to the video sampler, which *)
(* keeps the first bytes in a file, has ffmpeg extract frames, asks the    *)
(* image classifier about one after the other and answers the worst; the   *)
(* proxy makes a verdict of the answer, or of its absence.                 *)
(*                                                                         *)
(* A frame is the scores the model gives it.  A size is a number of units; *)
(* the proxy sends chunks of ChunkSize, the last may be smaller.           *)
(***************************************************************************)
EXTENDS Integers, Sequences, FiniteSets

CONSTANTS
  Calls,           \* videos the proxy has to judge
  Sizes,           \* sizes of videos
  ChunkSize,       \* 256 KiB in the code
  MaxVideoBytes,   \* what is kept of a video
  MaxConcurrent,   \* streams sampled at once
  DefaultFrames,   \* frames extracted at most
  Looks,           \* scores of frames, functions of labels
  Threshold,       \* label -> score from which the image classifier blocks
  FailClosed       \* proxy.fail_closed

Labels == UNION {DOMAIN f : f \in Looks}

ASSUME SamplerAssumption ==
  /\ IsFiniteSet(Calls) /\ Sizes \subseteq Nat \ {0} /\ ChunkSize \in Nat \ {0}
  /\ MaxVideoBytes \in Nat \ {0} /\ MaxConcurrent \in Nat \ {0} /\ DefaultFrames \in Nat \ {0}
  /\ Looks \subseteq [Labels -> Nat]
  /\ DOMAIN Threshold \subseteq Labels /\ \A l \in DOMAIN Threshold : Threshold[l] \in Nat \ {0}
  /\ FailClosed \in BOOLEAN

VARIABLES
  proxy,      \* "new", "sending", "waiting", and the verdict: "allow" or "block"
  size,       \* of the video
  sent,       \* how much of it the sampler has received
  sampler,    \* "none", "receive", "extract", "classify", "reply", "end"
  free,       \* slots of the semaphore
  written,    \* size of the file
  truncated,
  frames,     \* extracted frames still to be classified
  scored,     \* number of frames classified
  maxScores,  \* label -> highest score
  answer,     \* action and reason
  classified  \* history: the frames that were classified

fileVars  == <<written, truncated>>
frameVars == <<frames, scored, maxScores, answer>>
vars == <<proxy, size, sent, sampler, free, fileVars, frameVars, classified>>

NoScores == [l \in Labels |-> 0]
NoAnswer == [action |-> "allow", reason |-> "none"]

Init ==
  /\ proxy = [c \in Calls |-> "new"]
  /\ size = [c \in Calls |-> 0] /\ sent = [c \in Calls |-> 0]
  /\ sampler = [c \in Calls |-> "none"] /\ free = MaxConcurrent
  /\ written = [c \in Calls |-> 0] /\ truncated = [c \in Calls |-> FALSE]
  /\ frames = [c \in Calls |-> <<>>] /\ scored = [c \in Calls |-> 0]
  /\ maxScores = [c \in Calls |-> NoScores] /\ answer = [c \in Calls |-> NoAnswer]
  /\ classified = [c \in Calls |-> {}]

Running == {"receive", "extract", "classify", "reply"}

\* The proxy still waits for the sampler's answer.
Awaited(c) == proxy[c] \in {"sending", "waiting"}

Decides(c, v) == proxy' = [proxy EXCEPT ![c] = v]
Enters(c, s) == sampler' = [sampler EXCEPT ![c] = s]

-----------------------------------------------------------------------------
(* The proxy's verdict.                                                    *)

\* An error, a timeout or no sampler at all.
Outage == IF FailClosed THEN "block" ELSE "allow"

\* Mutant: only an answer without frames counts as a failure.
OnlyNoFrames(reason) == reason = "no_frames"

\* isVideoSamplerFailure, and the answer without frames.
IsFailure(reason) == reason \in {"no_frames", "ffmpeg_failed", "classification_failed"}

Verdict(a) == IF IsFailure(a.reason) /\ FailClosed THEN "block" ELSE a.action

-----------------------------------------------------------------------------
(* The sampler.                                                            *)

\* A stream is opened; at capacity it is refused rather than queued.
Open(c, n) ==
  /\ proxy[c] = "new"
  /\ size' = [size EXCEPT ![c] = n]
  /\ IF free > 0
     THEN Decides(c, "sending") /\ Enters(c, "receive") /\ free' = free - 1
     ELSE Decides(c, Outage) /\ UNCHANGED <<sampler, free>>
  /\ UNCHANGED <<sent, fileVars, frameVars, classified>>

\* The sampler cannot be reached, or there is none.
OpenFails(c, n) ==
  /\ proxy[c] = "new" /\ Decides(c, Outage)
  /\ size' = [size EXCEPT ![c] = n]
  /\ UNCHANGED <<sent, sampler, free, fileVars, frameVars, classified>>

Least(m, n) == IF m < n THEN m ELSE n

\* Mutant: a chunk that does not fit is left out, a later one may fit.
KeepWhole(c, chunk) ==
  /\ written' = [written EXCEPT ![c] =
                   IF written[c] + chunk > MaxVideoBytes THEN written[c] ELSE written[c] + chunk]
  /\ UNCHANGED truncated

\* The file takes what fits of a chunk, and nothing after that.
Keep(c, chunk) ==
  LET remaining == MaxVideoBytes - written[c] IN
  IF truncated[c] THEN UNCHANGED fileVars
  ELSE /\ written' = [written EXCEPT ![c] = @ + Least(chunk, remaining)]
       /\ truncated' = [truncated EXCEPT ![c] = remaining <= 0 \/ chunk > remaining]

Receive(c) ==
  /\ proxy[c] = "sending" /\ sampler[c] = "receive" /\ sent[c] < size[c]
  /\ LET chunk == Least(ChunkSize, size[c] - sent[c]) IN
     /\ sent' = [sent EXCEPT ![c] = @ + chunk]
     /\ Keep(c, chunk)
  /\ UNCHANGED <<proxy, size, sampler, free, frameVars, classified>>

CloseSend(c) ==
  /\ proxy[c] = "sending" /\ sampler[c] = "receive" /\ sent[c] = size[c]
  /\ Decides(c, "waiting") /\ Enters(c, "extract")
  /\ UNCHANGED <<size, sent, free, fileVars, frameVars, classified>>

\* The handler returns: its file and its slot are given back.
Returns(c) ==
  /\ Enters(c, "end") /\ free' = free + 1
  /\ written' = [written EXCEPT ![c] = 0] /\ truncated' = [truncated EXCEPT ![c] = FALSE]
  /\ frames' = [frames EXCEPT ![c] = <<>>]

\* The disk is full, or the stream was cancelled: an error.
ReceiveFails(c) ==
  /\ sampler[c] = "receive"
  /\ Returns(c)
  /\ IF Awaited(c) THEN Decides(c, Outage) ELSE UNCHANGED proxy
  /\ UNCHANGED <<size, sent, scored, maxScores, answer, classified>>

\* Mutant: the handler returns at once, before the slot is given back.
KeepsSlot(c) ==
  /\ sampler[c] = "extract"
  /\ answer' = [answer EXCEPT ![c] = [action |-> "allow", reason |-> "ffmpeg_failed"]]
  /\ IF Awaited(c) THEN Decides(c, Outage) ELSE UNCHANGED proxy
  /\ Enters(c, "end")
  /\ UNCHANGED <<size, sent, free, fileVars, frames, scored, maxScores, classified>>

\* ffmpeg fails, or is killed with the stream: an answer that allows.
ExtractFails(c) ==
  /\ sampler[c] = "extract"
  /\ answer' = [answer EXCEPT ![c] = [action |-> "allow", reason |-> "ffmpeg_failed"]]
  /\ Enters(c, "reply")
  /\ UNCHANGED <<proxy, size, sent, free, fileVars, frames, scored, maxScores, classified>>

\* Evenly spaced frames, or the thumbnail filter's, as many as wanted or fewer.
Extract(c, s) ==
  /\ sampler[c] = "extract"
  /\ frames' = [frames EXCEPT ![c] = s]
  /\ IF s = <<>>
     THEN Enters(c, "reply") /\ answer' = [answer EXCEPT ![c] = [action |-> "allow", reason |-> "no_frames"]]
     ELSE Enters(c, "classify") /\ UNCHANGED answer
  /\ UNCHANGED <<proxy, size, sent, free, fileVars, scored, maxScores, classified>>

\* _action_from_scores of the image classifier.
Blocked(f) == \E l \in DOMAIN Threshold : f[l] >= Threshold[l]

\* Mutant: the last frame decides.
Last(a, f) == IF Blocked(f) THEN [action |-> "block", reason |-> "video"] ELSE NoAnswer

\* A frame that is blocked makes the whole video blocked.
Worst(a, f) == IF Blocked(f) THEN [action |-> "block", reason |-> "video"] ELSE a

\* Mutant: the scores of the last frame are reported.
LastScores(m, f) == f

MaxOf(m, f) == [l \in Labels |-> IF f[l] > m[l] THEN f[l] ELSE m[l]]

TakeFrame(c) ==
  /\ sampler[c] = "classify" /\ frames[c] # <<>>
  /\ frames' = [frames EXCEPT ![c] = Tail(@)]
  /\ UNCHANGED <<proxy, size, sent, sampler, free, fileVars>>

\* The image classifier scores the next frame.
Classify(c) ==
  /\ TakeFrame(c)
  /\ LET f == Head(frames[c]) IN
     /\ scored' = [scored EXCEPT ![c] = @ + 1]
     /\ maxScores' = [maxScores EXCEPT ![c] = MaxOf(@, f)]
     /\ answer' = [answer EXCEPT ![c] = Worst(@, f)]
     /\ classified' = [classified EXCEPT ![c] = @ \cup {f}]

\* It cannot decode it, the inference fails, it is down or the stream is
\* cancelled: the frame is left out.
ClassifyFails(c) ==
  /\ TakeFrame(c)
  /\ UNCHANGED <<scored, maxScores, answer, classified>>

\* All frames have been asked about.
Reduce(c) ==
  /\ sampler[c] = "classify" /\ frames[c] = <<>>
  /\ answer' = [answer EXCEPT ![c] =
       IF scored[c] = 0 THEN [action |-> "allow", reason |-> "classification_failed"] ELSE @]
  /\ Enters(c, "reply")
  /\ UNCHANGED <<proxy, size, sent, free, fileVars, frames, scored, maxScores, classified>>

\* SendAndClose; the proxy may have given up.
Reply(c) ==
  /\ sampler[c] = "reply"
  /\ Returns(c)
  /\ IF Awaited(c) THEN Decides(c, Verdict(answer[c])) ELSE UNCHANGED proxy
  /\ UNCHANGED <<size, sent, scored, maxScores, answer, classified>>

\* The proxy's deadline of 30 seconds.  The sampler goes on until it notices.
Timeout(c) ==
  /\ Awaited(c)
  /\ Decides(c, Outage)
  /\ UNCHANGED <<size, sent, sampler, free, fileVars, frameVars, classified>>

\* Another video is asked about.
Again(c) ==
  /\ ~Awaited(c) /\ proxy[c] # "new" /\ sampler[c] \in {"none", "end"}
  /\ Decides(c, "new") /\ Enters(c, "none")
  /\ size' = [size EXCEPT ![c] = 0] /\ sent' = [sent EXCEPT ![c] = 0]
  /\ scored' = [scored EXCEPT ![c] = 0] /\ maxScores' = [maxScores EXCEPT ![c] = NoScores]
  /\ answer' = [answer EXCEPT ![c] = NoAnswer]
  /\ classified' = [classified EXCEPT ![c] = {}]
  /\ UNCHANGED <<free, fileVars, frames>>

\* The sampler goes down: every stream breaks, nothing is left of them.
Crash ==
  /\ \E c \in Calls : sampler[c] \in Running
  /\ proxy' = [c \in Calls |-> IF Awaited(c) THEN Outage ELSE proxy[c]]
  /\ sampler' = [c \in Calls |-> IF sampler[c] \in Running THEN "end" ELSE sampler[c]]
  /\ free' = MaxConcurrent
  /\ written' = [c \in Calls |-> 0] /\ truncated' = [c \in Calls |-> FALSE]
  /\ frames' = [c \in Calls |-> <<>>]
  /\ UNCHANGED <<size, sent, scored, maxScores, answer, classified>>

FrameSeqs == UNION {[1..n -> Looks] : n \in 0..DefaultFrames}

\* Mutant: a stream that breaks is waited for.
HandleDeaf(c) ==
  \/ Receive(c) \/ CloseSend(c)
  \/ ExtractFails(c) \/ (\E s \in FrameSeqs : Extract(c, s))
  \/ Classify(c) \/ ClassifyFails(c) \/ Reduce(c) \/ Reply(c)

\* What the handler does by itself, sooner or later.
Handle(c) ==
  \/ Receive(c) \/ CloseSend(c) \/ (~Awaited(c) /\ ReceiveFails(c))
  \/ ExtractFails(c) \/ (\E s \in FrameSeqs : Extract(c, s))
  \/ Classify(c) \/ ClassifyFails(c) \/ Reduce(c) \/ Reply(c)

Next ==
  \/ \E c \in Calls :
       \/ \E n \in Sizes : Open(c, n) \/ OpenFails(c, n)
       \/ Handle(c) \/ ReceiveFails(c) \/ Timeout(c) \/ Again(c)
  \/ Crash

Spec == Init /\ [][Next]_vars

\* gRPC delivers or breaks, ffmpeg and the image classifier end with the stream.
FairSpec == Spec /\ \A c \in Calls : WF_vars(Handle(c))

-----------------------------------------------------------------------------
TypeOK ==
  /\ proxy \in [Calls -> {"new", "sending", "waiting", "allow", "block"}]
  /\ size \in [Calls -> Sizes \cup {0}] /\ sent \in [Calls -> Nat]
  /\ sampler \in [Calls -> {"none", "end"} \cup Running]
  /\ free \in 0..MaxConcurrent
  /\ written \in [Calls -> Nat] /\ truncated \in [Calls -> BOOLEAN]
  /\ frames \in [Calls -> Seq(Looks)] /\ scored \in [Calls -> Nat]
  /\ maxScores \in [Calls -> [Labels -> Nat]]
  /\ answer \in [Calls -> [action : {"allow", "block"},
       reason : {"none", "video", "no_frames", "ffmpeg_failed", "classification_failed"}]]
  /\ classified \in [Calls -> SUBSET Looks]

\* Slots are neither lost nor made: whichever way a handler ends, there are as
\* many free ones as MaxConcurrent leaves after the handlers that run.
SlotsAdd == free = MaxConcurrent - Cardinality({c \in Calls : sampler[c] \in Running})

\* What ffmpeg is given is the beginning of the video, without holes: the file
\* has every byte received until it is full.
FileIsPrefix ==
  \A c \in Calls : sampler[c] \in {"receive", "extract"}
                     => written[c] = Least(sent[c], MaxVideoBytes)

\* The order of the frames and failures in between do not matter: an answer
\* blocks exactly if one of the classified frames does, and then the scores
\* reported with it, maxima over all frames, say so too.
WorstFrameDecides ==
  \A c \in Calls : sampler[c] = "reply" =>
    /\ answer[c].action = "block" <=> \E f \in classified[c] : Blocked(f)
    /\ answer[c].action = "block" <=> Blocked(maxScores[c])

\* With fail_closed a video passes only if the sampler looked at a frame of it
\* and no frame it looked at is blocked.
AllowedWasScanned ==
  \A c \in Calls : FailClosed /\ proxy[c] = "allow" =>
    classified[c] # {} /\ \A f \in classified[c] : ~Blocked(f)

\* What is settled about a call at each stage of its handler.
Settled(c) ==
  /\ proxy[c] = "new" => sampler[c] = "none"
  /\ sampler[c] = "none" => sent[c] = 0
  /\ sampler[c] \in {"none", "end"} => written[c] = 0 /\ ~truncated[c]
  /\ sampler[c] \in {"none", "receive", "extract"} =>
       scored[c] = 0 /\ classified[c] = {} /\ maxScores[c] = NoScores /\ answer[c] = NoAnswer

\* The file is full, or has all that was sent.
Filled(c) ==
  sampler[c] \in {"receive", "extract"} =>
    IF truncated[c] THEN written[c] = MaxVideoBytes /\ sent[c] >= MaxVideoBytes
    ELSE written[c] = sent[c] /\ sent[c] <= MaxVideoBytes

Judged(c) ==
  /\ sampler[c] \in {"classify", "reply"} =>
       /\ answer[c].action = "block" <=> \E f \in classified[c] : Blocked(f)
       /\ answer[c].action = "block" <=> Blocked(maxScores[c])
  /\ sampler[c] = "classify" => (scored[c] = 0 <=> classified[c] = {})
  /\ sampler[c] = "reply" /\ ~IsFailure(answer[c].reason) => classified[c] # {}
  /\ FailClosed /\ proxy[c] = "allow" =>
       /\ sampler[c] = "end"
       /\ classified[c] # {} /\ \A f \in classified[c] : ~Blocked(f)

\* The inductive invariant.
SamplerInv == TypeOK /\ SlotsAdd /\ \A c \in Calls : Settled(c) /\ Filled(c) /\ Judged(c)

\* The proxy's request and the sampler's handler end, and with them the use of
\* a slot, even if the proxy gave up in the meantime.
SlotsComeBack ==
  \A c \in Calls : sampler[c] \in Running ~> ~Awaited(c) /\ sampler[c] = "end"
=============================================================================
