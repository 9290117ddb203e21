SPECIFICATION LiveSpec
CONSTANT Nil = Nil
PROPERTY CallProgress
