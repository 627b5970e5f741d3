---------------------------- MODULE MCInspection ----------------------------
EXTENDS Inspection, TLC

Page(ct, looks, role) == [ct |-> ct, looks |-> looks, role |-> role, video |-> NoVideo]

\* Every kind of body the stages tell apart, labelled truly or not.
Bodies == {Page(ct, looks, "plain") :
             ct \in {"image", "video", "text", "generic"},
             looks \in {"image", "video", "text", "opaque", "empty"}}
          \cup {Page("text", "text", "search")}

\* YouTube: the thumbnail and the watch page of each video.
YouTube == {[ct |-> "image", looks |-> "image", role |-> "thumb", video |-> v] : v \in Videos}
           \cup {[ct |-> "generic", looks |-> "opaque", role |-> "watch", video |-> v] : v \in Videos}

\* With them a page of text, a video, and an image that does not say it is one.
Web == YouTube \cup {Page("text", "text", "plain"), Page("video", "video", "plain"),
                    Page("generic", "image", "plain")}

SomeOff == {Toggles, {"image"}, {"text"}, {}}
AllOn == {Toggles}
Symmetric == Permutations(Videos) \cup Permutations(Requests) \cup Permutations(Segments)
=============================================================================
