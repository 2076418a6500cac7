\* Our server, with up to five events of a turn and its cancels, and servers
\* that send up to four frames of any kind; a client that keeps reading.
SPECIFICATION FairDelivery
CONSTANTS
  MaxFrames = 5
  MaxForeign = 4
INVARIANTS EventsInOrder OneOutcome ErrorFramesAreRaised CompletedIsWhole QuietEndIsWhole
PROPERTIES TerminalEndsTheStream EveryStreamEnds
