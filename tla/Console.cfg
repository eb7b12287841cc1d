SPECIFICATION Spec
CONSTANTS
  left = left
  right = right
  Pages = {left, right}
  Fields <- MCFields
  MaxRequests = 2
SYMMETRY Symmetry
PROPERTIES
  SavesDoWhatWasAsked
  AChoiceIsSpentWhenListed
