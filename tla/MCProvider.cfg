SPECIFICATION FairSpec
CONSTANTS
  Clients = {c1, c2}
  Ssrcs = {s1, s2, s3}
  NoStream = nostream
  NoClient = noclient
  MaxPosted = 1
INVARIANTS TypeOK WriterFindsOpen PacketsFollowSync
PROPERTIES ImplementsSource RequestsEnd
CHECK_DEADLOCK FALSE
