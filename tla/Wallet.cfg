SPECIFICATION FairSpec
CONSTANTS
  Callers = {"p1", "p2"}
  Constructs <- MCConstructs
  Rejected <- MCRejected
  Entries <- MCEntries
  KeyLen = 2
  BranchLen = 2
  Word <- MCWord
  Zero = "zero"
  Malformed = malformed
  Workloads <- MCWorkloads
  Texts <- MCTexts
INVARIANTS TypeOK AnswersRestore StatusForgetsLoad LoggedIsLoaded
PROPERTIES StatusUnlocked
