SPECIFICATION ThumbSpec
CONSTANTS
  Threads = {loop, worker}
  Items = {video, photo}
  Framed = {video}
INVARIANT GenerationIsShared
CHECK_DEADLOCK FALSE
