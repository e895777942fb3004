SPECIFICATION FairSpec
CONSTANTS
  n0 = n0
  n1 = n1
  monad = monad
  nodeman = nodeman
  program = program
  NoVat = NoVat
  Nodes <- TwoNodes
  FirstNode = n0
  Vats <- ThreeVats
  Monad = monad
  NewVats = {program}
  Home <- HomeOfVat
  Faulty = {n1}
  MaxBatch = 1
  MaxSent <- Sends
  NetBatch = 1
INVARIANTS TypeOK VatsInOnePlace
PROPERTIES ImplementsChannels MailIsHandled
