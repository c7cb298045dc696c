SPECIFICATION Spec
CONSTANT Work = 1
PROPERTY EarlyByteRead
