\* Three strips of two rows, so that there is a first, a middle and a last strip
\* and both buffers start a frame in turn (an odd number of strips), and frames
\* modulo 3, one more than can be on their way at once.  The queue has the size
\* main.c gives it.
CONSTANTS
  Height = 6
  Lines = 2
  QueueSize = 7
  FrameMod = 3
SPECIFICATION Spec
INVARIANTS TypeOK NoBufferRace QueuesSuffice
PROPERTIES DescriptorsStable ShowsPicture
