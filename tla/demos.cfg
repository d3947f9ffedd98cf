CONSTANTS
  hi = hi
  bytes = bytes
  OtherMessages = {hi, bytes}
  BadMessages = {bytes}
  AckRequests <- SmallRequests
  ChannelCapacity = 2
  MaxLength = 6
  MaxHeaderLength = 6
  MaxParticipants = 3
  MaxArrows = 2
SPECIFICATION FairSpec
INVARIANTS OwnMessageArrives AckAsReference GrammarsAgree HtmlIfNamed DiagramReadable
PROPERTIES SubscriberEnds AckAnswered
