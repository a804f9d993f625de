\* Three user messages and one scheduler trigger of one chat.
CONSTANTS
    chat = chat
    Events = {e1, e2, e3}
    Triggers = {t1}
    Chats = {chat}
    ChatOf <- MCChatOf
    None = None
SPECIFICATION Spec
INVARIANTS
    TypeOK
    EveryMessageHasOnePlace
    OneRefusalPerDeadConsumer
    VerdictIsTrueAndFinal
PROPERTIES
    ImplementsMailbox
    EveryMessageSettles
    SchedulerNeverStuck
