CONSTANTS
  Arrays <- MCArrays
  QueryKeys <- MCQueryKeys
  MaxEps = 9
SPECIFICATION FairSpec
INVARIANTS TypeOK ReadsInWindow SearchExact LogarithmicReads
PROPERTY Returns
\* A search stops when it has returned.
CHECK_DEADLOCK FALSE
