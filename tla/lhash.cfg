CONSTANTS
  kx = kx
  ky = ky
  kz = kz
  x1 = x1
  x2 = x2
  y1 = y1
  z1 = z1
  ke = ke
  e1 = e1
  Keys = {kx, ky, kz}
  EmptyKeys = {ke}
  Entries = {x1, x2, y1, z1, e1}
  KeyOf <- MCKeyOf
  Size = 2
  Hashed <- MCHashed
  NoQueue = NoQueue
  NULL = NULL
  Threads = {t1, t2}
  NoThread = NoThread
SPECIFICATION LSpec
INVARIANTS NothingLost
PROPERTIES ImplementsStore
