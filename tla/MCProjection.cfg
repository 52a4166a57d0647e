\* Three workers projecting two entries that share their accounts.
SPECIFICATION FairSpec
CONSTANTS
  w1 = w1  w2 = w2  w3 = w3  e1 = e1  e2 = e2  cash = cash  sales = sales
  l1 = l1  l2 = l2  l3 = l3  l4 = l4  l5 = l5  None = None
  Workers = {w1, w2, w3}
  Lines = {l1, l2, l3, l4, l5}
  EntryOf <- EntryOfLine
  AccountOf <- AccountOfLine
INVARIANTS
  CountedExactlyOnce
  TrueMeansProjected
PROPERTIES
  ImplementsReadModel
  EveryCallReturns
