SPECIFICATION Spec
CONSTANTS
  BLOCKS = 2621440
  GROUPS = 80
  BLKS_PER_GRP = 32768
  INODES_PER_GRP = 2048
  FLEX_GRP_SIZE = 16
  IT_BLKS_PER_GRP = 128
  RESERVED_GDT = 1024
  DescsPerBlock = 64
  Journal = 16384
  MaxWriteFaults = 2
  Input <- MCInput
  Crc32 <- MCCrc32
CHECK_DEADLOCK FALSE
INVARIANTS ImageSound DecodesReference
