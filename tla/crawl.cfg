CONSTANTS
  a = a
  b = b
  c = c
  x = x
  index = index
  second = second
  child = child
  Url = {a, b, c, x}
  HostOf <- MCHostOf
  Seeds <- MCSeeds
  Document = {index, second, child}
  Site <- MCSites
  MaxDocuments = 3
  MaxRedirects = 1
  MaxIcons = 1
  MaxExternal = 1
  MaxPerHost = 1
  Before <- MCBefore
  Extras <- MCExtras
  MaxFaults = 1
CHECK_DEADLOCK FALSE
SPECIFICATION CrawlSpec
INVARIANTS CrawlTypeOK Accounted SharesBudget SitemapsShare ParentWritten WholeWhenComplete MindsTheSite
PROPERTIES Ends
