\* Two works on pages of one; one run at a time, for nothing is claimed once runs overlap.
\* Nobody reads.
SPECIFICATION DisplaySpec
CONSTANTS
  one = one
  two = two
  patch = patch
  bare = bare
  Works = {one, two}
  Patches = {two, patch, bare}
  Listed = {two, bare}
  NoAnchor = NoAnchor
  Anchor <- MCAnchor
  Claimed = {one}
  Hidden = {}
  Runs = {ra}
  Unset = Unset
  PageSize = 1
  MaxPages = 2
  MaxKept = 2
  MaxChanges = 2
  MaxFaults = 2
  Readers = {}
  Limits = {"sfw"}
  TTL = 0
  MaxReads = 0
  MaxMinutes = 0
INVARIANT CursorCovers
PROPERTIES
  MirrorsEventually
CHECK_DEADLOCK FALSE
