SPECIFICATION Spec
CONSTANT Poller = {p, q}
SYMMETRY Symmetry
INVARIANTS
  AnswersAreTrue
  AnswersNeverGoBack
PROPERTY ReasonComesNext
