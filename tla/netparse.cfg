SPECIFICATION Spec
CONSTANTS
  Frames <- MCFrames
  Junk <- MCJunk
  Bytes <- MCBytes
  Caplens = {13, 14, 16, 18, 22, 34, 38, 48, 60, 100}
INVARIANTS CapturedIsUnderstood SnaplenSuffices HeaderCaptured MacOfAddress VlanIsInnermost
           KeyIdentifiesConversation DirectionIdentifiesSender
