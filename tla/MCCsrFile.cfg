SPECIFICATION CsrSpec
CONSTANTS
    Bits <- MCBits
    Places <- MCPlaces
    Registers <- MCRegisters
    Interrupted <- MCInterrupted
INVARIANTS FunctionsKeepToTheirRegister InterruptIsTransparent CauseNamesTheTrap
