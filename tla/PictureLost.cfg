\* Two frames, of which the first is intra, and a sink fed with D3D11 pictures.
SPECIFICATION Spec
CONSTANTS
  Frames = 2
  Intra = {1}
  SlotSize = 2
  Gpus = {"d3d11"}
PROPERTY LostFallsBack
\* A session may stop, and frames need not come.
CHECK_DEADLOCK FALSE
