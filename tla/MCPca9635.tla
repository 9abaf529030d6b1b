------------------------------ MODULE MCPca9635 ------------------------------
EXTENDS Pca9635

On(brightness, temperature) ==
  [state |-> [on |-> TRUE, level |-> 1, temperature |-> temperature],
   brightness |-> brightness]

\* Off, an On frame whose duty rounds to zero, two that encode the same bytes,
\* and a brighter one at another temperature.
MCFrames ==
  {FromState([DefaultState EXCEPT !.level = 1]), On(10, 303), On(1000, 303),
   On(1001, 303), On(2530, 200)}
=============================================================================
