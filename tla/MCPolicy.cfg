SPECIFICATION MCSpec
CONSTANTS
  Configs <- MCConfigs
  Requests <- MCRequests
  Huffman <- MCHuffman
INVARIANTS MatchedAsConfigured RoutedAsConfigured MutatedAsConfigured
CHECK_DEADLOCK FALSE
