SPECIFICATION StoreSpec
CONSTANTS
  BLOCK_SIZE = 2
  BLOCK_NUM = 15
  INODE_NUM = 4
  NDIRECT = 1
  NINDIRECT = 2
  MaxFiles = 2
  MaxBlocks = 3
  Buffers <- ThreeBlocks
  NoFile = NoFile
INVARIANTS DiskTypeOK BlocksAreAccountedFor ReadsBack
