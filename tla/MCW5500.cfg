SPECIFICATION StreamSpec
CONSTANTS
  Base = 4
  Size = 8
  Segment <- MCSegment
  Message <- MCMessage
  First <- MCFirst
INVARIANTS StreamTypeOK MapUnambiguous
PROPERTIES CarriesStreams SegmentsWhole CallsEnd
