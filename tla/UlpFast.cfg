\* Complete: one pin, one ULP, one main CPU.
SPECIFICATION Spec
PROPERTY Follows
