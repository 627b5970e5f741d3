SPECIFICATION Spec
CONSTANTS
  h = h
  yt = yt
  p = p
  q = q
  k = k
  c = c
  d = d
  porn = porn
  hentai = hentai
  neutral = neutral
  Hosts <- MCHosts
  NoHost = NoHost
  YouTube = {yt}
  Patterns = {p, q}
  Covers <- MCCovers
  Keywords = {k}
  Channels = {c, d}
  NoChannel = NoChannel
  Labels <- MCLabels
  Harmless = {neutral}
  ConfigLimits <- MCConfig
  NoLimit = NoLimit
  Nothing = Nothing
  Starts <- Everything
  MaxUsed = 2
  MaxEdits = 1
INVARIANTS OpaNeverLaxer 
PROPERTY TightenNeverAllows
