\* Expected violation of DacWritesInOrder: a machine reset while the click
\* is on writes the DAC at the dummy time zero.
CONSTANT MaxTime <- MCMaxTime
SPECIFICATION Spec
PROPERTY DacWritesInOrder
