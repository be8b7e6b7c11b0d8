\* One read at a time beside one run of the mirror, which has all works on a page; an answer
\* is cached up to a minute.
SPECIFICATION DisplaySpec
CONSTANTS
  one = one
  two = two
  patch = patch
  bare = bare
  Works = {one, two}
  Patches = {two, patch}
  Listed = {two, patch}
  NoAnchor = NoAnchor
  Anchor <- MCAnchor
  Claimed = {one}
  Hidden = {}
  Runs = {ra}
  Unset = Unset
  PageSize = 3
  MaxPages = 1
  MaxKept = 0
  MaxChanges = 1
  MaxFaults = 0
  Readers = {qa}
  Limits = {"sfw"}
  TTL = 0
  MaxReads = 2
  MaxMinutes = 2
PROPERTIES
  NeverLeaks
  PageComplete
CHECK_DEADLOCK FALSE
