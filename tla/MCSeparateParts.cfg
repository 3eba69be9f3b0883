SPECIFICATION MCSpec
CONSTANTS
  m1 = m1  m2 = m2  m3 = m3  c1 = c1  c2 = c2  a1 = a1  r1 = r1  r2 = r2  s1 = s1
  NoCap = NoCap  None = None
  NoFile = NoFile  NoCandidate = NoCandidate
  Candidates = {m1, m3}  Reviews = {r1, r2}  MaxFaults = 1  MaxWrites = 2
  Messages = {m1, m2, m3}
  Channels = {c1, c2}
  ChannelOf <- MCChannelOf
  Agents = {a1}
  Readers = {r1, r2}
  ReaderAgent <- MCReaderAgent
  Caps = {0, 1, NoCap}
  Subs = {s1}
  SubChannel <- MCSubChannel
  MaxQueue = 1
  MaxUpkeep = 2
  part1 = part1  part2 = part2  NoVector = NoVector  NoTx = NoTx  NoRow = NoRow
  Rows = {r1, r2}  Parts = {part1, part2}  PartOf <- MCPartOf  MaxChanges = 4  MaxMishaps = 2
  o1 = o1  o2 = o2  h4 = h4  h5 = h5  l1 = l1
  Owners = {o1, o2}  NoOwner = NoOwner  Hooks = {m1, m2, m3, h4, h5}  HookOwner <- MCHookOwner
  Starts = {r1, r2}  StartOwner <- MCStartOwner  Legacy = {l1}
  Truncated = Truncated  MaxLog = 1  MaxSlips = 1
  k1 = k1  k2 = k2  k3 = k3  Ids = {1, 2, 3, 4}  Keys = {k1, k2, k3}  Drifts <- MCDrifts
  MaxMerges = 2  MaxFailures = 2
  Calls = {r1, r2}  NoCall = NoCall  Shared = Shared  MaxClients = 2  MaxDeaths = 2
INVARIANTS TypesOK BusAccounted CandidatesAccounted VectorsAccounted ErrorRowsAccounted MergeIsUnion InstallAccounted WorkersAccounted
SYMMETRY MCSymmetry
CHECK_DEADLOCK FALSE
