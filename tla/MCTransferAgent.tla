-------------------------- MODULE MCTransferAgent --------------------------
EXTENDS TransferAgent

\* Whatever leaves an upload to be resumed; and whatever passes in the end.
MCScenes == {
  [kinds |-> {"lost", "crash", "abandoned", "raised", "lowered"}, most |-> 4],
  [kinds |-> {"lost", "throttled", "refused", "expired", "crash", "abandoned", "raised"},
   most |-> 3]}
=============================================================================
