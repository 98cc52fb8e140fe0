CONSTANTS
  sender = sender
  ender = ender
  NBoxes = 2
  Notifiers <- TheNotifiers
  Jobs <- StopAndRelease
  Waits <- TheWaits
  MaxWaits = 2
SPECIFICATION Spec
INVARIANTS NoLostWakeup NamedInboxIsReady
PROPERTIES MailEndsTheWait
