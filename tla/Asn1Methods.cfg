SPECIFICATION DecoderSpec
INVARIANTS
  MethodsAsCommented
CHECK_DEADLOCK FALSE
