\* Two clients of two tenants over two connections, the relay at work, under either
\* role of the API.
SPECIFICATION Spec
CONSTANTS
  c1 = c1  c2 = c2  k1 = k1  k2 = k2  n1 = n1  n2 = n2  n3 = n3  a = a  b = b  None = None
  Clients = {c1, c2}
  Requests <- TheRequests
  Connections = {k1, k2}
  TenantOf <- TheTenantOf
  CreatedAt <- TheCreatedAt
  ProjectedAt <- TheProjectedAt
  LinesPerEntry = 2
SYMMETRY ClientsAndConnectionsAreAlike
INVARIANTS
  OnlyOwnRows
  PooledIsClean
  EntryComesWhole
  NeverBackwards
