SPECIFICATION Spec
CONSTANTS
  letter = letter
  blank = blank
  query = query
  stray = stray
  escape = escape
  Hash = {h1, h2}
  Space = {blank}
  Mark = {query}
  Percent = {stray}
  Decoded <- Letters
  Name <- Names
  Collections <- SmallCollections
INVARIANT LinksLeadToEntries
CHECK_DEADLOCK FALSE
