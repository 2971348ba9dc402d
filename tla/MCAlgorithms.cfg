SPECIFICATION Spec
CONSTANTS
  W = 2
  VliLen = 2
  Products <- SomeProducts
  RootPrimes <- SomeRootPrimes
  Curves <- SomeCurves
  Reach = 6
  Hashes <- SomeHashes
  Randoms <- SomeRandoms
  HashFunctions <- SomeHashFunctions
  Pictures <- SomePictures
  Elements <- SomeElements
  Levels <- SomeLevels
  TextLen = 6
  Steps = 6
  Datas <- SomeDatas
  Users <- SomeUsers
  Formats <- SomeFormats
  Addresses <- SomeAddresses
  Years <- SomeYears
  Lengths <- SomeLengths
  Cuts <- SomeCuts
  FrameSizes <- SomeFrameSizes
  Received = {1}
  MaxTime = 16
  MaxPackets = 2
INVARIANTS VliExact LadderExact SignaturesExact PictureExact PixelsNear DevicesExact TextsExact ProtocolsExact DialoguesTold
CHECK_DEADLOCK FALSE
