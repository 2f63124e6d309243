\* Deleting the posts of a group.
CONSTANTS
  Parts = {"groups"}
  People = {ann, bob}
  Users = {u1, u2}
  Handles = {"h", "taken"}
  Taken = {"taken"}
  Posters = {u1}
  MaxCalls = 2
  ChatUsers = {c1, c2, c3}
  Creators = {c1}
  Seconds = {1}
  MaxChatMembers = 2
  Peers = {p, q}
  Senders = {p}
  Bodies = {"a", "b"}
  Ttls = {2}
  MaxDropTtl = 1
  RowTtl = 0
  MaxTime = 1
  s1 = s1
  s2 = s2
  s3 = s3
  f1 = f1
  Notes = {s1, s2, s3}
  Rooms = {t1}
  Circles = {g1}
  Fans = {f1}
  WrittenBy <- MCWrittenBy
  StampedAt <- MCStampedAt
  Emojis = {"heart", "fire"}
  PageCap = 2
  Limits = {1, 3}
  NoCursor = NoCursor
  LastMoment = 1
SPECIFICATION Spec
INVARIANT
  DeletedPostsGone
