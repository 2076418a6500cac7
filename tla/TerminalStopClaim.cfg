\* Our server, as in Delivery.cfg: the generator reads on after a terminal state.
SPECIFICATION DeliverySpec
CONSTANTS
  MaxFrames = 5
  MaxForeign = 2
INVARIANT StopsOnTerminalState
