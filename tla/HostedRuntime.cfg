SPECIFICATION FairSpec
CONSTANTS
  a = a  b = b  c = c  x = x
  Hotplates = {h1, h2}
  Msgs = {a, b, c, x}
  Dst <- DstABCX
  Seminal = a
  Faulty = {b, c}
  MaxVats = 1
  MaxSends = 1
  NoVat = NoVat
  NoMsg = NoMsg
INVARIANTS TypeOK VatsOwnedOnce VatsKept NoLostWakeup MailFlushed RestsOnlyWhenDone
PROPERTIES ImplementsMail MailIsHandled MainLoopReturns CreatedVatArrives
CHECK_DEADLOCK FALSE
