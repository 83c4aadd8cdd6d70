\* The surface, request handling, stream indexes and io import of every
\* file of up to two services of up to two methods.
CONSTANTS
  MaxServices <- MCMaxServices
  MaxMethods <- MCMaxMethods
SPECIFICATION Spec
\* generate returns once it has walked the file: a finished run stops.
CHECK_DEADLOCK FALSE
INVARIANT TypeOK
INVARIANT SurfaceMatchesSpec
INVARIANT RequestSentIffTaken
INVARIANT StreamIndexMatchesServiceDesc
INVARIANT IOImportMatchesUse
