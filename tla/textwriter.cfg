SPECIFICATION FairSpec
CONSTANTS
  Threads = {t1, t2}
  Drawer = Drawer
  Nobody = Nobody
  Lists <- MCLists
  Texts = {a}
  Callbacks = {c}
  HeapSize = 3
  Slots <- MCSlots
  Toasts = {n1, n2, n3}
  Ttls = {1}
  Modulus = 2
  Null = Null
PROPERTIES
  ImplementsFrameQueue
  ToastKept
  ToastGoes
