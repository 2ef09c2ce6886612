\* All six actions, edits of the vault, revoked access and power loss.
CONSTANTS
  Tasks = {t1, t2}
  Create = Create
  Document = Document
  Import = Import
  Verify = Verify
  Consume = Consume
  Permit = Permit
  Key = Key
  Header = Header
  Password = Password
  Requests = {Create, Document, Import, Consume, Verify, Permit}
  Titles = {Key, Header, Password}
  KindOf <- RequestKinds
  TitleOf <- RequestTitles
  PriorTitle = Password
  ReplayIds = {n1, n2}
  Dirs = {d1, d2}
  MaxLifetime = 1
  MaxSkew = 0
  MaxDrift = 0
  MaxTime = 0
  MaxSigned = 2
  Disturbed = TRUE
  MaxEdits = 1
  NoApproval = NoApproval
  NoDir = NoDir
  Nobody = Nobody
SYMMETRY Symmetric
SPECIFICATION ItemsSpec
INVARIANT EveryItemHasEvidence
INVARIANT OneItemPerApproval
INVARIANT ItemsTypeOK
INVARIANT ReportedVersionWasRead
INVARIANT SecretIsPinned
INVARIANT CreationIsExclusive
