\* Two reloads, one lost command or frame.
SPECIFICATION FairSpec
CONSTANTS
  MaxReloads = 2
  MaxLosses = 1
  MaxUnread = 2
INVARIANTS
  ImprovTypeOK
  UrlHasAPage
PROPERTIES
  BrowserIsAnswered
