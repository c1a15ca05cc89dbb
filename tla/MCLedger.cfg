SPECIFICATION ReaderSpec
CONSTANTS
  Sessions = {s1, s2}
  Fields = {"f", "g"}
  Hash <- DigestOf
  Hashes <- Digests
  Genesis <- GenesisDigest
  NoSession = NoSession
  MaxSeq = 5
  Limit = 2
INVARIANTS
  TypeOK
  CommittedChainValid
  EditPinpointed
  MovesPinpointed
  PagesShowTheLedger
PROPERTIES
  AppendOnly
