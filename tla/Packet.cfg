SPECIFICATION PacketSpec
CONSTANTS
    MinSize = 16
    Opcodes = {1, 2}
    Errcodes = {0, 3}
    FrameLens = {13, 14, 16, 17, 40}
    BodyLens = {1, 2, 15, 50}
    MaxContent = 66
INVARIANTS
    PacketTypeOK
    HeadReadsBack
    MessageContents
