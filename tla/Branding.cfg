SPECIFICATION Spec
CONSTANTS
  s1 = s1
  s2 = s2
  cli = cli
  job = job
  Sessions <- MCSessions
  Clis <- MCClis
  Jobs <- MCJobs
  MaxSaves = 1
  MaxChunks = 2
SYMMETRY MCSymmetry
INVARIANTS
  TypeOK
  
PROPERTIES
  QuestionsStay
  OnlyIngestGoesBack
