SPECIFICATION UiSpec
CONSTANTS
  t1 = t1
  t2 = t2
  t3 = t3
  a1 = a1
  a2 = a2
  i1 = i1
  f = f
  p = p
  Trees <- MCTrees
  Digest <- MCDigest
  Addresses <- MCAddresses
  Descriptors <- MCDescriptors
  NoTree = NoTree
  Inputs <- MCInputs
  MaxQueue = 2
  Widgets <- MCWidgets
  Layouts <- MCLayouts
  Nobody = Nobody
INVARIANTS UiTypeOK ScreenShowsTree HandlerSeesLatest GestureFollowsPress OneMenuOnTop
PROPERTY WorkIsDone
