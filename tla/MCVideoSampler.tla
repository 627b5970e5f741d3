--------------------------- MODULE MCVideoSampler ---------------------------
EXTENDS VideoSampler, TLC

CONSTANTS porn, sexy

\* Almost enough of one label, and enough of the other.
MCLooks == {(porn :> 0 @@ sexy :> 1), (porn :> 1 @@ sexy :> 0)}
MCThreshold == (porn :> 1 @@ sexy :> 2)
=============================================================================
