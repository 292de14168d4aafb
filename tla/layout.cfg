\* Addresses of 8 bits instead of 32, and sections of 32 units instead of 32768:
\* requests from 0 to the whole section and past it, to where the product wraps.
SPECIFICATION Spec
CONSTANTS
  Word = 256
  Powers = {1, 2, 4, 8, 16, 32, 64, 128}
  MAX_NUM_THREADS = 5
  MAX_TOTAL_THREAD_STACK_SIZE = 32
  MIN_REGION = 4
  section = 96
  StackBytes = {0, 1, 2, 3, 4, 5, 7, 8, 9, 16, 17, 32, 33, 64, 65, 128}
  ThreadCounts = {0, 1, 2, 3, 4, 5, 6, 255}
INVARIANTS StacksApart RegionsIsolate
