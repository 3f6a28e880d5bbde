SPECIFICATION Spec
CONSTANTS
  ByteBase = 6
  Packages <- PACKAGES
  MaxSent = 3
  MaxRead = 9
  QuietAfterKick = TRUE
INVARIANTS TypeOK Prompt
 
