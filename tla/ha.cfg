SPECIFICATION Spec
CONSTANTS
  Operators = {o1, o2}
  Faults = {"crash", "nostop", "unclean", "wake", "delete"}
  MaxFaults = 3
  MaxWrites = 2
  Driver = "btrfs"
SYMMETRY Symmetry
CONSTRAINT NoOverlap
INVARIANTS ServingStorageKept AckedWritesKept GivenUpStaysGivenUp SplitBrainNeedsFailedStop
