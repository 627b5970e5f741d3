------------------------ MODULE VideoSampler_proofs ------------------------
(***************************************************************************)
(* For every number of videos, slots and frames, and every scores: slots   *)
(* add up, ffmpeg gets the beginning of the video, an answer is that of    *)
(* the worst frame, and what passes fail_closed was looked at.             *)
(***************************************************************************)
EXTENDS VideoSampler, FiniteSetTheorems, TLAPS

Busy == {c \in Calls : sampler[c] \in Running}

Each == \A c \in Calls : Settled(c) /\ Filled(c) /\ Judged(c)

\* Everything but the number of free slots.
Typed ==
  /\ proxy \in [Calls -> {"new", "sending", "waiting", "allow", "block"}]
  /\ size \in [Calls -> Sizes \cup {0}] /\ sent \in [Calls -> Nat]
  /\ sampler \in [Calls -> {"none", "end"} \cup Running]
  /\ written \in [Calls -> Nat] /\ truncated \in [Calls -> BOOLEAN]
  /\ frames \in [Calls -> Seq(Looks)] /\ scored \in [Calls -> Nat]
  /\ maxScores \in [Calls -> [Labels -> Nat]]
  /\ answer \in [Calls -> [action : {"allow", "block"},
       reason : {"none", "video", "no_frames", "ffmpeg_failed", "classification_failed"}]]
  /\ classified \in [Calls -> SUBSET Looks]

\* The handlers with a slot are finitely many.
LEMMA BusyFinite == IsFiniteSet(Busy) /\ Cardinality(Busy) \in Nat
<1>1. IsFiniteSet(Busy)
  BY SamplerAssumption, FS_Subset DEF Busy
<1> QED BY <1>1, FS_CardinalityType

\* The invariant in these parts.
LEMMA Parts == SamplerInv => Typed /\ SlotsAdd /\ free \in Nat /\ Each
<1>1. TypeOK => Typed /\ free \in 0..MaxConcurrent
  BY Zenon DEF TypeOK, Typed
<1>2. free \in 0..MaxConcurrent => free \in Nat
  BY SamplerAssumption
<1> QED BY <1>1, <1>2, Zenon DEF SamplerInv, Each

\* The invariant from its parts,
LEMMA Assembled ==
  ASSUME Typed, SlotsAdd, free \in Nat, Each
  PROVE  SamplerInv
<1>1. free = MaxConcurrent - Cardinality(Busy)
  BY DEF SlotsAdd, Busy
<1>2. free \in 0..MaxConcurrent
  BY <1>1, BusyFinite, SamplerAssumption
<1>3. TypeOK
  BY <1>2, Zenon DEF Typed, TypeOK
<1> QED BY <1>3, Zenon DEF SamplerInv, Each

\* and in the next state.
LEMMA AssembledNext ==
  ASSUME Typed', SlotsAdd', free' \in Nat, Each'
  PROVE  SamplerInv'
<1>1. free' = MaxConcurrent - Cardinality(Busy')
  BY DEF SlotsAdd, Busy
<1>2. IsFiniteSet(Busy') /\ Cardinality(Busy') \in Nat
  BY SamplerAssumption, FS_Subset, FS_CardinalityType DEF Busy
<1>3. (free \in 0..MaxConcurrent)'
  BY <1>1, <1>2, SamplerAssumption
<1>4. TypeOK'
  BY <1>3, Zenon DEF Typed, TypeOK
<1> QED BY <1>4, Zenon DEF SamplerInv, Each

-----------------------------------------------------------------------------
(* Scores.                                                                 *)

Scores == [Labels -> Nat]

\* Scores of nothing are over no threshold.
LEMMA NothingIsHarmless == ~Blocked(NoScores)
BY SamplerAssumption DEF Blocked, NoScores

\* The maxima are blocked exactly if one of the two is.
LEMMA MaxBlocked ==
  ASSUME NEW m \in Scores, NEW f \in Scores
  PROVE  MaxOf(m, f) \in Scores /\ (Blocked(MaxOf(m, f)) <=> Blocked(m) \/ Blocked(f))
<1>1. MaxOf(m, f) \in Scores
  BY DEF MaxOf, Scores
<1>2. \A l \in DOMAIN Threshold :
        /\ l \in Labels /\ Threshold[l] \in Nat /\ m[l] \in Nat /\ f[l] \in Nat
        /\ MaxOf(m, f)[l] = IF f[l] > m[l] THEN f[l] ELSE m[l]
  BY SamplerAssumption DEF MaxOf, Scores
<1>3. \A l \in DOMAIN Threshold :
        MaxOf(m, f)[l] >= Threshold[l] <=> m[l] >= Threshold[l] \/ f[l] >= Threshold[l]
  BY <1>2
<1> QED BY <1>1, <1>3 DEF Blocked

-----------------------------------------------------------------------------
(* Slots.                                                                  *)

\* A handler that enters takes a slot,
LEMMA SlotTaken ==
  ASSUME NEW c \in Calls, Typed, sampler[c] \notin Running, Enters(c, "receive"),
         SlotsAdd, free' = free - 1
  PROVE  SlotsAdd'
<1>1. Busy' = Busy \cup {c} /\ c \notin Busy
  BY DEF Typed, Enters, Busy, Running
<1>2. Cardinality(Busy') = Cardinality(Busy) + 1
  BY <1>1, BusyFinite, FS_AddElement
<1> QED BY <1>2, BusyFinite, SamplerAssumption DEF SlotsAdd, Busy

\* gives it back at its end,
LEMMA SlotBack ==
  ASSUME NEW c \in Calls, Typed, sampler[c] \in Running, Enters(c, "end"),
         SlotsAdd, free' = free + 1
  PROVE  SlotsAdd'
<1>1. Busy' = Busy \ {c} /\ c \in Busy
  BY DEF Typed, Enters, Busy, Running
<1>2. Cardinality(Busy') = Cardinality(Busy) - 1
  BY <1>1, BusyFinite, FS_RemoveElement
<1> QED BY <1>2, BusyFinite, SamplerAssumption DEF SlotsAdd, Busy

\* and keeps it in between.
LEMMA SlotKept ==
  ASSUME Typed, \A c \in Calls : sampler'[c] \in Running <=> sampler[c] \in Running,
         SlotsAdd, free' = free
  PROVE  SlotsAdd'
<1>1. Busy' = Busy
  BY DEF Busy
<1> QED BY <1>1 DEF SlotsAdd, Busy

\* A sampler that has started: every slot is free.
LEMMA InitSamplerInv == Init => SamplerInv
<1> SUFFICES ASSUME Init PROVE Typed /\ SlotsAdd /\ free \in Nat /\ Each
  BY Assembled
<1>1. Typed
  BY SamplerAssumption DEF Init, Typed, Running, NoScores, NoAnswer
<1>2. SlotsAdd
  <2>1. Busy = {}
    BY DEF Init, Busy, Running
  <2>2. Cardinality(Busy) = 0
    BY <2>1, FS_EmptySet
  <2> QED BY <2>2, SamplerAssumption DEF Init, SlotsAdd, Busy
<1>3. free \in Nat
  BY SamplerAssumption DEF Init
<1>4. Each
  BY SamplerAssumption DEF Init, Each, Settled, Filled, Judged
<1> QED BY <1>1, <1>2, <1>3, <1>4

-----------------------------------------------------------------------------
(* The steps of a call.                                                    *)

\* Other calls are as settled as before.
Same(c) ==
  /\ UNCHANGED <<proxy[c], sent[c], sampler[c], written[c], truncated[c]>>
  /\ UNCHANGED <<scored[c], maxScores[c], answer[c], classified[c]>>

\* A handler that does nothing keeps what is known of it.
LEMMA SameIsSettled ==
  ASSUME NEW c \in Calls, Same(c), Settled(c) /\ Filled(c) /\ Judged(c)
  PROVE  (Settled(c) /\ Filled(c) /\ Judged(c))'
BY DEF Same, Settled, Filled, Judged

\* A video arrives: it gets a slot and a file, or is refused.
LEMMA OpenStep ==
  ASSUME SamplerInv, NEW c \in Calls, NEW n \in Sizes, Open(c, n) \/ OpenFails(c, n)
  PROVE  SamplerInv'
<1>0. Typed /\ SlotsAdd /\ free \in Nat /\ Each
  BY Parts
<1>1. Typed'
  <2>1. proxy' \in [Calls -> {"new", "sending", "waiting", "allow", "block"}]
    BY <1>0 DEF Typed, Open, OpenFails, Decides, Outage
  <2>2. size' \in [Calls -> Sizes \cup {0}]
    BY <1>0 DEF Typed, Open, OpenFails
  <2>3. sampler' \in [Calls -> {"none", "end"} \cup Running]
    BY <1>0 DEF Typed, Open, OpenFails, Enters, Running
  <2>4. UNCHANGED <<sent, fileVars, frameVars, classified>>
    BY DEF Open, OpenFails
  <2> QED BY <1>0, <2>1, <2>2, <2>3, <2>4 DEF Typed, fileVars, frameVars
<1>2. sampler[c] = "none"
  BY <1>0 DEF Each, Settled, Open, OpenFails
<1>3. SlotsAdd' /\ free' \in Nat
  <2>1. CASE Open(c, n) /\ free > 0
    BY <1>0, <1>2, <2>1, SlotTaken DEF Open, Running
  <2>2. CASE UNCHANGED <<sampler, free>>
    BY <1>0, <2>2, SlotKept
  <2> QED BY <2>1, <2>2 DEF Open, OpenFails
<1>4. \A d \in Calls \ {c} : Same(d)
  BY <1>0 DEF Same, Typed, Open, OpenFails, Decides, Enters, fileVars, frameVars
<1>5. (Settled(c) /\ Filled(c) /\ Judged(c))'
  BY <1>0, <1>2, SamplerAssumption
     DEF Each, Typed, Settled, Filled, Judged, Open, OpenFails, Decides, Enters, Outage, fileVars,
         frameVars
<1>6. Each'
  BY <1>0, <1>4, <1>5, SameIsSettled DEF Each
<1> QED BY <1>1, <1>3, <1>6, AssembledNext

\* A chunk of the video, up to the limit of the file.
LEMMA ReceiveStep ==
  ASSUME SamplerInv, NEW c \in Calls, Receive(c)
  PROVE  SamplerInv'
<1>0. Typed /\ SlotsAdd /\ free \in Nat /\ Each
  BY Parts
<1> DEFINE chunk == Least(ChunkSize, size[c] - sent[c])
<1>1. chunk \in Nat /\ chunk > 0
  <2>1. Sizes \cup {0} \subseteq Nat
    BY SamplerAssumption
  <2>2. size[c] \in Sizes \cup {0} /\ sent[c] \in Nat
    BY <1>0 DEF Typed
  <2>3. size[c] \in Nat /\ sent[c] \in Nat /\ sent[c] < size[c]
    BY <2>1, <2>2 DEF Receive
  <2> QED BY <2>3, SamplerAssumption DEF Least
<1> HIDE DEF chunk
<1>2. sent' = [sent EXCEPT ![c] = @ + chunk] /\ Keep(c, chunk)
  BY DEF Receive, chunk
<1>3. Filled(c) /\ sampler[c] = "receive" /\ written[c] \in Nat /\ sent[c] \in Nat
  BY <1>0 DEF Each, Typed, Receive
<1>4. written[c] <= MaxVideoBytes
      /\ IF truncated[c] THEN written[c] = MaxVideoBytes /\ sent[c] >= MaxVideoBytes
                         ELSE written[c] = sent[c]
  <2>1. MaxVideoBytes \in Nat
    BY SamplerAssumption
  <2>2. IF truncated[c] THEN written[c] = MaxVideoBytes /\ sent[c] >= MaxVideoBytes
                        ELSE written[c] = sent[c] /\ sent[c] <= MaxVideoBytes
    BY <1>3 DEF Filled
  <2> QED BY <1>3, <2>1, <2>2
<1>5. Typed'
  <2>1. CASE truncated[c]
    <3>1. UNCHANGED <<written, truncated>>
      BY <1>2, <2>1 DEF Keep, fileVars
    <3>2. sent' \in [Calls -> Nat]
      BY <1>0, <1>1, <1>2 DEF Typed
    <3> QED BY <1>0, <3>1, <3>2 DEF Typed, Receive, frameVars
  <2>2. CASE ~truncated[c]
    <3>1. Least(chunk, MaxVideoBytes - written[c]) \in Nat
      BY <1>1, <1>3, <1>4, SamplerAssumption DEF Least
    <3> DEFINE full == MaxVideoBytes - written[c] <= 0 \/ chunk > MaxVideoBytes - written[c]
    <3>2. full \in BOOLEAN
      OBVIOUS
    <3>3. truncated' = [truncated EXCEPT ![c] = full]
      BY <1>2, <2>2 DEF Keep
    <3>4. truncated' \in [Calls -> BOOLEAN]
      <4> HIDE DEF full
      <4> QED BY <1>0, <3>2, <3>3 DEF Typed
    <3>5. written' = [written EXCEPT ![c] = @ + Least(chunk, MaxVideoBytes - written[c])]
      BY <1>2, <2>2 DEF Keep
    <3>6. written' \in [Calls -> Nat]
      BY <1>0, <1>3, <3>1, <3>5 DEF Typed
    <3>7. sent' \in [Calls -> Nat]
      BY <1>0, <1>1, <1>2 DEF Typed
    <3> QED BY <1>0, <3>4, <3>6, <3>7 DEF Typed, Receive, frameVars
  <2> QED BY <2>1, <2>2
<1>6. SlotsAdd' /\ free' \in Nat
  BY <1>0, SlotKept DEF Receive
<1>7. \A d \in Calls \ {c} : Same(d)
  BY <1>0, <1>2 DEF Same, Typed, Receive, Keep, fileVars, frameVars
<1>8. Filled(c)'
  <2>1. sent'[c] = sent[c] + chunk
    BY <1>0, <1>2 DEF Typed
  <2>2. CASE truncated[c]
    BY <1>1, <1>2, <1>3, <1>4, <2>1, <2>2, SamplerAssumption DEF Keep, fileVars, Filled
  <2>3. CASE ~truncated[c]
    <3>1. /\ written'[c] = written[c] + Least(chunk, MaxVideoBytes - written[c])
          /\ truncated'[c] <=> MaxVideoBytes - written[c] <= 0 \/ chunk > MaxVideoBytes - written[c]
      BY <1>0, <1>2, <2>3 DEF Typed, Keep
    <3>2. MaxVideoBytes \in Nat /\ written[c] = sent[c] /\ sent[c] <= MaxVideoBytes
      BY <1>3, <2>3, SamplerAssumption DEF Filled
    <3> QED BY <1>1, <1>3, <2>1, <3>1, <3>2 DEF Least, Filled
  <2> QED BY <2>2, <2>3
<1>9. Settled(c)' /\ Judged(c)'
  BY <1>0, <1>3 DEF Each, Settled, Judged, Receive, frameVars
<1>10. Each'
  BY <1>0, <1>7, <1>8, <1>9, SameIsSettled DEF Each
<1> QED BY <1>5, <1>6, <1>10, AssembledNext

\* Steps of a running handler that keep its slot and its file.
LEMMA HandlerStep ==
  ASSUME SamplerInv, NEW c \in Calls,
         CloseSend(c) \/ ExtractFails(c) \/ (\E s \in FrameSeqs : Extract(c, s)) \/ Reduce(c)
  PROVE  SamplerInv'
<1>0. Typed /\ SlotsAdd /\ free \in Nat /\ Each
  BY Parts
<1>1. \A s \in FrameSeqs : s \in Seq(Looks)
  BY SamplerAssumption DEF FrameSeqs
<1>2. Typed'
  <2>1. proxy' \in [Calls -> {"new", "sending", "waiting", "allow", "block"}]
    BY <1>0 DEF Typed, CloseSend, ExtractFails, Extract, Reduce, Decides
  <2>2. sampler' \in [Calls -> {"none", "end"} \cup Running]
    BY <1>0 DEF Typed, CloseSend, ExtractFails, Extract, Reduce, Enters, Running
  <2>3. frames' \in [Calls -> Seq(Looks)]
    BY <1>0, <1>1 DEF Typed, CloseSend, ExtractFails, Extract, Reduce, frameVars
  <2>4. answer' \in [Calls -> [action : {"allow", "block"},
          reason : {"none", "video", "no_frames", "ffmpeg_failed", "classification_failed"}]]
    BY <1>0 DEF Typed, CloseSend, ExtractFails, Extract, Reduce, frameVars
  <2>5. UNCHANGED <<size, sent, free, fileVars, scored, maxScores, classified>>
    BY DEF CloseSend, ExtractFails, Extract, Reduce, frameVars
  <2> QED BY <1>0, <2>1, <2>2, <2>3, <2>4, <2>5 DEF Typed, fileVars
<1>3. SlotsAdd' /\ free' \in Nat
  <2>1. \A d \in Calls : sampler'[d] \in Running <=> sampler[d] \in Running
    BY <1>0 DEF Typed, CloseSend, ExtractFails, Extract, Reduce, Enters, Running
  <2> QED BY <1>0, <2>1, SlotKept DEF CloseSend, ExtractFails, Extract, Reduce
<1>4. \A d \in Calls \ {c} : Same(d)
  BY <1>0 DEF Same, Typed, CloseSend, ExtractFails, Extract, Reduce, Decides, Enters, fileVars,
              frameVars
<1>5. (Settled(c) /\ Filled(c) /\ Judged(c))'
  <2>1. CASE CloseSend(c)
    BY <1>0, <2>1 DEF Each, Typed, Settled, Filled, Judged, CloseSend, Decides, Enters, fileVars,
                      frameVars
  <2>2. CASE ExtractFails(c)
    BY <1>0, <2>2, NothingIsHarmless
       DEF Each, Typed, Settled, Filled, Judged, ExtractFails, Enters, fileVars, IsFailure
  <2>3. ASSUME NEW s \in FrameSeqs, Extract(c, s) PROVE (Settled(c) /\ Filled(c) /\ Judged(c))'
    BY <1>0, <2>3, NothingIsHarmless
       DEF Each, Typed, Settled, Filled, Judged, Extract, Enters, fileVars, IsFailure, NoAnswer
  <2>4. CASE Reduce(c)
    BY <1>0, <2>4 DEF Each, Typed, Settled, Filled, Judged, Reduce, Enters, fileVars, IsFailure
  <2> QED BY <2>1, <2>2, <2>3, <2>4
<1>6. Each'
  BY <1>0, <1>4, <1>5, SameIsSettled DEF Each
<1> QED BY <1>2, <1>3, <1>6, AssembledNext

\* A frame is classified, or its classification fails.
LEMMA ClassifyStep ==
  ASSUME SamplerInv, NEW c \in Calls, Classify(c) \/ ClassifyFails(c)
  PROVE  SamplerInv'
<1>0. Typed /\ SlotsAdd /\ free \in Nat /\ Each
  BY Parts
<1> DEFINE f == Head(frames[c])
<1>1. f \in Looks /\ f \in Scores /\ Tail(frames[c]) \in Seq(Looks)
  <2>1. frames[c] \in Seq(Looks) /\ frames[c] # <<>>
    BY <1>0 DEF Typed, Classify, ClassifyFails, TakeFrame
  <2> QED BY <2>1, SamplerAssumption DEF Scores
<1>2. maxScores[c] \in Scores
  BY <1>0 DEF Typed, Scores
<1>3. MaxOf(maxScores[c], f) \in Scores
      /\ (Blocked(MaxOf(maxScores[c], f)) <=> Blocked(maxScores[c]) \/ Blocked(f))
  BY <1>1, <1>2, MaxBlocked
<1> HIDE DEF f
<1>4. CASE ClassifyFails(c)
  <2>1. Typed'
    BY <1>0, <1>1, <1>4 DEF Typed, ClassifyFails, TakeFrame, fileVars
  <2>2. SlotsAdd' /\ free' \in Nat
    BY <1>0, <1>4, SlotKept DEF ClassifyFails, TakeFrame
  <2>3. \A d \in Calls : Same(d)
    BY <1>4 DEF Same, ClassifyFails, TakeFrame, fileVars
  <2>4. Each'
    BY <1>0, <2>3, SameIsSettled DEF Each
  <2> QED BY <2>1, <2>2, <2>4, AssembledNext
<1>5. CASE Classify(c)
  <2>1. /\ scored' = [scored EXCEPT ![c] = @ + 1]
        /\ maxScores' = [maxScores EXCEPT ![c] = MaxOf(@, f)]
        /\ answer' = [answer EXCEPT ![c] = Worst(@, f)]
        /\ classified' = [classified EXCEPT ![c] = @ \cup {f}]
        /\ frames' = [frames EXCEPT ![c] = Tail(@)]
        /\ UNCHANGED <<proxy, size, sent, sampler, free, fileVars>>
        /\ sampler[c] = "classify"
    BY <1>5 DEF Classify, TakeFrame, f
  <2>2. Typed'
    BY <1>0, <1>1, <1>3, <2>1 DEF Typed, fileVars, Worst, Scores
  <2>3. SlotsAdd' /\ free' \in Nat
    BY <1>0, <2>1, SlotKept
  <2>4. \A d \in Calls \ {c} : Same(d)
    BY <1>0, <2>1 DEF Same, Typed, fileVars
  <2>5. (Settled(c) /\ Filled(c))'
    BY <1>0, <2>1 DEF Each, Settled, Filled, fileVars
  <2>6. Judged(c)'
    <3>1. /\ answer'[c].action = "block" <=> answer[c].action = "block" \/ Blocked(f)
          /\ classified'[c] = classified[c] \cup {f}
          /\ maxScores'[c] = MaxOf(maxScores[c], f) /\ scored'[c] = scored[c] + 1
      BY <1>0, <2>1 DEF Typed, Worst, NoAnswer
    <3>2. scored'[c] # 0 /\ classified'[c] # {}
      BY <1>0, <3>1 DEF Typed
    <3> QED BY <1>0, <1>3, <2>1, <3>1, <3>2 DEF Each, Judged
  <2>7. Each'
    BY <1>0, <2>4, <2>5, <2>6, SameIsSettled DEF Each
  <2> QED BY <2>2, <2>3, <2>7, AssembledNext
<1> QED BY <1>4, <1>5

\* The handler returns, with an error or an answer.
LEMMA ReturnStep ==
  ASSUME SamplerInv, NEW c \in Calls, ReceiveFails(c) \/ Reply(c)
  PROVE  SamplerInv'
<1>0. Typed /\ SlotsAdd /\ free \in Nat /\ Each
  BY Parts
<1>1. Returns(c) /\ sampler[c] \in Running
  BY DEF ReceiveFails, Reply, Running
<1>2. <<>> \in Seq(Looks)
  OBVIOUS
<1>3. Verdict(answer[c]) \in {"allow", "block"}
  BY <1>0 DEF Typed, Verdict
<1>4. Typed'
  <2>1. proxy' \in [Calls -> {"new", "sending", "waiting", "allow", "block"}]
    BY <1>0, <1>3 DEF Typed, ReceiveFails, Reply, Decides, Outage
  <2>2. sampler' \in [Calls -> {"none", "end"} \cup Running]
    BY <1>0, <1>1 DEF Typed, Returns, Enters
  <2>3. /\ written' \in [Calls -> Nat] /\ truncated' \in [Calls -> BOOLEAN]
        /\ frames' \in [Calls -> Seq(Looks)]
    BY <1>0, <1>1, <1>2 DEF Typed, Returns
  <2>4. UNCHANGED <<size, sent, scored, maxScores, answer, classified>>
    BY DEF ReceiveFails, Reply
  <2> QED BY <1>0, <2>1, <2>2, <2>3, <2>4 DEF Typed
<1>5. SlotsAdd' /\ free' \in Nat
  BY <1>0, <1>1, SlotBack DEF Returns
<1>6. \A d \in Calls \ {c} : Same(d)
  BY <1>0 DEF Same, Typed, ReceiveFails, Reply, Returns, Decides, Enters
<1>7. (Settled(c) /\ Filled(c))'
  BY <1>0, <1>3 DEF Each, Typed, Settled, Filled, ReceiveFails, Reply, Returns, Decides, Enters, Outage
<1>8. Judged(c)'
  <2>1. sampler'[c] = "end" /\ UNCHANGED classified
    BY <1>0 DEF Typed, ReceiveFails, Reply, Returns, Enters
  <2>2. FailClosed /\ proxy'[c] = "allow" =>
          classified[c] # {} /\ \A f \in classified[c] : ~Blocked(f)
    <3>1. CASE UNCHANGED proxy
      BY <1>0, <1>1, <3>1 DEF Each, Judged, Running
    <3>2. CASE Decides(c, Outage)
      BY <1>0, <3>2 DEF Typed, Decides, Outage
    <3>3. CASE Reply(c) /\ Decides(c, Verdict(answer[c]))
      <4>1. FailClosed /\ proxy'[c] = "allow" =>
              ~IsFailure(answer[c].reason) /\ answer[c].action = "allow"
        BY <1>0, <3>3 DEF Typed, Decides, Verdict
      <4> QED BY <1>0, <3>3, <4>1 DEF Each, Judged, Reply
    <3> QED BY <3>1, <3>2, <3>3 DEF ReceiveFails, Reply
  <2> QED BY <2>1, <2>2 DEF Judged
<1>9. Each'
  BY <1>0, <1>6, <1>7, <1>8, SameIsSettled DEF Each
<1> QED BY <1>4, <1>5, <1>9, AssembledNext

\* The caller gives up.
LEMMA TimeoutStep ==
  ASSUME SamplerInv, NEW c \in Calls, Timeout(c)
  PROVE  SamplerInv'
<1>0. Typed /\ SlotsAdd /\ free \in Nat /\ Each
  BY Parts
<1>1. Typed' /\ SlotsAdd' /\ free' \in Nat
  BY <1>0, SlotKept DEF Typed, Timeout, Decides, Outage, fileVars, frameVars
<1>2. \A d \in Calls \ {c} : Same(d)
  BY <1>0 DEF Same, Typed, Timeout, Decides, fileVars, frameVars
<1>3. (Settled(c) /\ Filled(c) /\ Judged(c))'
  BY <1>0 DEF Each, Typed, Settled, Filled, Judged, Timeout, Awaited, Decides, Outage, fileVars,
              frameVars
<1>4. Each'
  BY <1>0, <1>2, <1>3, SameIsSettled DEF Each
<1> QED BY <1>1, <1>4, AssembledNext

\* The caller comes with its next video.
LEMMA AgainStep ==
  ASSUME SamplerInv, NEW c \in Calls, Again(c)
  PROVE  SamplerInv'
<1>0. Typed /\ SlotsAdd /\ free \in Nat /\ Each
  BY Parts
<1>1. Typed'
  BY <1>0 DEF Typed, Again, Decides, Enters, NoScores, NoAnswer, fileVars
<1>2. SlotsAdd' /\ free' \in Nat
  <2>1. \A d \in Calls : sampler'[d] \in Running <=> sampler[d] \in Running
    BY <1>0 DEF Typed, Again, Enters, Running
  <2> QED BY <1>0, <2>1, SlotKept DEF Again
<1>3. \A d \in Calls \ {c} : Same(d)
  BY <1>0 DEF Same, Typed, Again, Decides, Enters, fileVars
<1>4. (Settled(c) /\ Filled(c) /\ Judged(c))'
  BY <1>0 DEF Each, Typed, Settled, Filled, Judged, Again, Decides, Enters, fileVars
<1>5. Each'
  BY <1>0, <1>3, <1>4, SameIsSettled DEF Each
<1> QED BY <1>1, <1>2, <1>5, AssembledNext

\* The sampler dies with all its handlers.
LEMMA CrashStep == ASSUME SamplerInv, Crash PROVE SamplerInv'
<1>0. Typed /\ SlotsAdd /\ free \in Nat /\ Each
  BY Parts
<1>1. Typed'
  <2>1. <<>> \in Seq(Looks)
    OBVIOUS
  <2> QED BY <1>0, <2>1 DEF Typed, Crash, Outage, Running
<1>2. SlotsAdd' /\ free' \in Nat
  <2>1. Busy' = {}
    BY <1>0 DEF Typed, Crash, Busy, Running
  <2>2. Cardinality(Busy') = 0
    BY <2>1, FS_EmptySet
  <2> QED BY <2>2, SamplerAssumption DEF Crash, SlotsAdd, Busy
<1>3. Each'
  <2> SUFFICES ASSUME NEW c \in Calls PROVE (Settled(c) /\ Filled(c) /\ Judged(c))'
    BY DEF Each
  <2>1. sampler'[c] \in {"none", "end"}
    BY <1>0 DEF Typed, Crash, Running
  <2>2. sampler'[c] = "none" => sampler[c] = "none"
    BY <1>0 DEF Typed, Crash, Running
  <2>3. proxy'[c] = "new" => proxy[c] = "new" /\ sampler'[c] = sampler[c]
    BY <1>0 DEF Typed, Crash, Outage, Awaited, Running, Each, Settled
  <2>4. FailClosed /\ proxy'[c] = "allow" => proxy[c] = "allow" /\ sampler'[c] = sampler[c]
    BY <1>0 DEF Typed, Crash, Outage, Awaited, Running, Each, Judged
  <2> QED BY <1>0, <2>1, <2>2, <2>3, <2>4 DEF Each, Crash, Settled, Filled, Judged
<1> QED BY <1>1, <1>2, <1>3, AssembledNext

-----------------------------------------------------------------------------
\* Every step of the proxy and of the sampler keeps the invariant.
LEMMA StepSamplerInv == SamplerInv /\ [Next]_vars => SamplerInv'
<1> SUFFICES ASSUME SamplerInv, [Next]_vars PROVE SamplerInv'
  OBVIOUS
<1>1. ASSUME NEW c \in Calls, NEW n \in Sizes, Open(c, n) \/ OpenFails(c, n) PROVE SamplerInv'
  BY <1>1, OpenStep
<1>2. ASSUME NEW c \in Calls, Handle(c) \/ ReceiveFails(c) PROVE SamplerInv'
  BY <1>2, ReceiveStep, HandlerStep, ClassifyStep, ReturnStep DEF Handle
<1>3. ASSUME NEW c \in Calls, Timeout(c) \/ Again(c) PROVE SamplerInv'
  BY <1>3, TimeoutStep, AgainStep
<1>4. CASE Crash
  BY <1>4, CrashStep
<1>5. CASE UNCHANGED vars
  <2>0. Typed /\ SlotsAdd /\ free \in Nat /\ Each
    BY Parts
  <2>1. Typed' /\ SlotsAdd' /\ free' \in Nat
    BY <1>5, <2>0, SlotKept DEF vars, Typed, fileVars, frameVars
  <2>2. \A c \in Calls : Same(c)
    BY <1>5 DEF vars, Same, fileVars, frameVars
  <2> QED BY <2>0, <2>1, <2>2, SameIsSettled, AssembledNext DEF Each
<1> QED BY <1>1, <1>2, <1>3, <1>4, <1>5 DEF Next

\* The inductive invariant of proxy and sampler.
THEOREM SamplerSafe == Spec => []SamplerInv
BY InitSamplerInv, StepSamplerInv, PTL DEF Spec

\* Server.Sample: every way out of the handler gives exactly one slot back.
THEOREM SlotsAddAlways == Spec => []SlotsAdd
<1>1. SamplerInv => SlotsAdd
  BY DEF SamplerInv
<1> QED BY <1>1, SamplerSafe, PTL

\* receiveStream: whatever the chunks, the file is the beginning of the video.
THEOREM FileIsPrefixAlways == Spec => []FileIsPrefix
<1>1. SamplerInv => FileIsPrefix
  BY SamplerAssumption DEF SamplerInv, TypeOK, Filled, FileIsPrefix, Least
<1> QED BY <1>1, SamplerSafe, PTL

\* classifyFrames: an answer is that of the worst frame, and its scores say so.
THEOREM WorstFrameDecidesAlways == Spec => []WorstFrameDecides
<1>1. SamplerInv => WorstFrameDecides
  BY DEF SamplerInv, Judged, WorstFrameDecides
<1> QED BY <1>1, SamplerSafe, PTL

\* Handler.decide with fail_closed: what passes has a frame that was looked at.
THEOREM AllowedWasScannedAlways == Spec => []AllowedWasScanned
<1>1. SamplerInv => AllowedWasScanned
  BY DEF SamplerInv, Judged, AllowedWasScanned
<1> QED BY <1>1, SamplerSafe, PTL

\* Calls stay well formed, and the semaphore between 0 and MaxConcurrent.
THEOREM SamplerTypesAlways == Spec => []TypeOK
<1>1. SamplerInv => TypeOK
  BY DEF SamplerInv
<1> QED BY <1>1, SamplerSafe, PTL
=============================================================================
