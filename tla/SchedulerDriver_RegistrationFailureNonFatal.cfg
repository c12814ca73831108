CONSTANTS
    MaxStarts = 2
    MaxOffers = 1

SPECIFICATION Spec

PROPERTY RegistrationFailureNonFatal
