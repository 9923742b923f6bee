CONSTANTS
  HalCap <- MCHalCap
  MaxDeaths <- MCOneDeath
SPECIFICATION Spec
INVARIANTS
  WhatWeWant
