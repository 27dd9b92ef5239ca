CONSTANTS
  ByteBits = 1
  Ipv6 = FALSE
  NbBackends = 3
  Hashes <- MCHashes
  Buckets <- MCBuckets
  Bucket <- MCBucket
  Owner <- MCOwner
  OwnerCpp <- MCOwnerCpp
  Owner6 <- MCOwner6
  OwnerCpp6 <- MCOwnerCpp6
  Ways = 4
  Flows4 <- MCFlows4
  Flows6 <- MCFlows6
  Hashed4 <- MCHashed4
  Hashed6 <- MCHashed6
  Keys <- MCKeys
  Seeds <- MCSeeds
SPECIFICATION MCSpec
INVARIANTS Transparent OneSlotPerHash SameBackendAsCpp SameBackendOverIpv6 MatchesRteJhash
PROPERTIES ImplementsFifo ImplementsNative
