\* Requests of the uploader's peer; the tracker may never answer an upgrade.
SPECIFICATION Spec
CONSTANTS
  Node = node
  Browser = browser
  FromNode = {n1, n2}
  FromBrowser = {}
  Transport = transport
  MaxUploads = 1
  MaxRequests = 2
  Chunks = 1
PROPERTY HttpStaysUsable
CHECK_DEADLOCK FALSE
