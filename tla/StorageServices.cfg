SPECIFICATION SuiteSpec
CHECK_DEADLOCK FALSE
CONSTANTS Tasks = {"t1", "t2", "t3", "t4"} Sessions = {"s1"}
          Uploads = {"a", "b"} NoUpload = "none"
          Claims = {"a", "b", "c"} NoClaim = "none" Size <- QuotaSize Allocations = {2, 3}
          Recordings = {"r1"}
          FolderNames = {"old", "new"} Local = "master" Home <- RenHome
INVARIANTS TypeOK Exclusive CountsExact NoLostWakeup
INVARIANTS QuotaSound LocalSound S3Sound KarSound RenameSound
PROPERTIES WriterPrecedence WaitersGetIn ImplementsPromise
PROPERTIES ReservationResolves DeletionConverges
PROPERTIES LocalImplementsContract RecoversUntorn LocalDeletionConverges
PROPERTIES S3Settles KarSettles
