SPECIFICATION VoiceSpec
CONSTANTS
  Handles = {h1, h2, h3, h4}
  PendingMax = 3
INVARIANTS ViewFollowsMixer
