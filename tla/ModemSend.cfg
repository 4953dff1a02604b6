SPECIFICATION Spec

CONSTANT Protocols <- Both

INVARIANT TypeOK
INVARIANT SecondTrySucceeds
INVARIANT AnnouncedIsOwn
