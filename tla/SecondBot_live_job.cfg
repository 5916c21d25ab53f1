CONSTANTS
  j1 = j1
  j2 = j2
  r1 = r1
  r2 = r2
  timed = timed
  untimed = untimed
  a1 = a1
  chat = chat
  None = None
  Jobs = {j1, j2}
  Runs = {r1, r2}
  Fingerprints = {timed, untimed}
  Addenda = {a1}
  Chats = {chat}
  ChatOf <- OneChat
  Timed = {timed}
  MaxQueued = 1
SPECIFICATION SharedSpec
PROPERTY OnlyOrphansReviewed
