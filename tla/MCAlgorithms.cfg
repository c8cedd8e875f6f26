SPECIFICATION Spec
CONSTANTS
  Width = 8
  Nesting = 4
  BufferSize = 4
PROPERTIES
  IrMeansSource
  FoldingSound
  LayoutSound
  CodeMeansSource
  BytesMeanInstructions
  ParsesToSource
  TypesHold
CHECK_DEADLOCK FALSE
