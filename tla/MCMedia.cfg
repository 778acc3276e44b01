SPECIFICATION MCSpec
CONSTANTS
  Traffic <- MCTraffic
  Written <- MCWritten
  GiveUp = 2
  Kinds <- Layouts
  U32Max = 3499
  Inputs <- MCInputs
  Formats <- HeaderFormats
  ByteCount = 3
  Far = 5
  Counts <- MCCounts
  MaxHeld = 2
  MaxAlike = 2
  Programs <- MCPrograms
  BufferSize = 3
  Capacity = 2
  MaxBytes = 7
INVARIANTS
  SegmentIsReadable
  BoxesRoundTrip
  TimelineIsContiguous
  MediaIsConserved
  VideoClockIsTrue
  HeadersAgree
  HeapBalanced
  PipeIsFaithful
PROPERTY
  ReaderIsCursor
CHECK_DEADLOCK FALSE
