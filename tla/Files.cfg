\* Room for five entries, four in use; two descriptors to open.
SPECIFICATION Spec
CONSTANTS
  FD_ARRAY_SIZE = 4
  NUM_DIR = 5
  FILE_NAME_SIZE = 2
  DATA_BLOCK_SIZE = 2
  CHUNK = 2
  MAGIC <- ElfMagic
  Directory <- SmallDirectory
  Beyond <- Garbage
  Inodes <- SmallInodes
  Blocks <- SmallBlocks
  Names <- AskedNames
  COMMAND_SIZE = 6
  ARGS_ARR_SIZE = 7
  Commands <- AskedCommands
  Sizes <- AskedSizes
  MaxListed = 7
INVARIANTS
  TypeOK
  ReadsInOrder
  ListsInOrder
  OpensNamed
  LoadsWhole
  ArgumentsReach
