----------------------------- MODULE MCSession -----------------------------
\* Constants for model checking Session.
EXTENDS Session

AllKinds == Kinds
TxOps == {"execute", "read", "batch", "begin", "commit", "rollback", "savepoint", "call",
          "openCursor", "fetch", "closeCursor"}
PreparedOps == {"prepare", "executePrepared", "prepared"}
TxPreparedOps == PreparedOps \cup {"execute", "read", "batch", "savepoint"}
=============================================================================
