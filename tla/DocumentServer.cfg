\* Two openings, two edits, one loader.
CONSTANTS
  Loader = {loader}
  Dispatcher = dispatcher
  Poller = poller
  Worker = {loader, dispatcher, poller}
  NoEntry = NoEntry
  NoModule = NoModule
  MaxEdits = 2
  MaxOpens = 2
SPECIFICATION Spec
INVARIANT DocumentTypeOK
INVARIANT MirrorsClient
PROPERTY LastTextChecked
CHECK_DEADLOCK FALSE
