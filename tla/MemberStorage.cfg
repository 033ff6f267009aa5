SPECIFICATION SuiteSpec
CHECK_DEADLOCK FALSE
CONSTANTS N = 2 MaxFaults = 2
          Uploads = {"a", "b"} Paths = {"p"} Size <- SizeOf Allocated = 2 Deleters = {"d1", "d2"}
          Transports = {"Direct", "Relay"} LateRequests = FALSE
          NoUpload = "none" NoPath = "none"
INVARIANTS PublishedStored FollowerSound
INVARIANTS CommitIsAckable NoRefusal FencesGoLast UnitsReturnInOrder CancelledLeavesNothing BooksAgree
PROPERTIES NoOverwrite ImplementsContract
PROPERTIES StoppedMeansStill ImplementsHandover MigrationSettles
