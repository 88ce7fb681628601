\* Every page, two failures and two reconstructions at a time, two clicks on a
\* copy button whose labels overlap.
SPECIFICATION SiteSpec
CONSTANTS
  MaxKills = 2
  MaxPending = 2
  MaxLabelTimers = 2
  K = 4
  M = 2
  Chunks <- MCChunks
INVARIANTS
  RestsAreRight
  CopiesSurvive
  ErasureLabIsSound
  CaptionTellsScene
  TimerFollowsPlay
  RingViewsAreRight
  CursorIsAccountedFor
  LabelIsTimed
  CalculatorsTell
PROPERTIES
  PhasesInOrder
  PlacementGrows
  LeftAloneItPlays
  WhatIsStartedEnds
CHECK_DEADLOCK FALSE
