SPECIFICATION LiveSpec
PROPERTIES EntersReadyMemory BootCompletes
