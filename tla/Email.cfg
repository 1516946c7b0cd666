CONSTANTS
  Mails = {m1, m2}
  Handlers = {h1}
  Job = Job
  Take <- MCTake
  MaxAnswers = 2
  NoMail = NoMail
SPECIFICATION FairSpec
INVARIANTS
  TypeOK
  
  CountExact
PROPERTIES
  EndStays
  
