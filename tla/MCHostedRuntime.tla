--------------------------- MODULE MCHostedRuntime ---------------------------
(***************************************************************************)
(* An instance of HostedRuntime.  Messages a and b go to nodeman's vat, c  *)
(* to the monad's (it may travel by nodeman's outbox), x to the first vat  *)
(* that nodeman creates.                                                   *)
(***************************************************************************)
EXTENDS HostedRuntime

CONSTANTS a, b, c, x

DstABCX ==
  [m \in {a, b, c, x} |-> CASE m \in {a, b} -> NodemanVat
                           [] m = c -> MonadVat
                           [] m = x -> FirstFreeVat]
=============================================================================
