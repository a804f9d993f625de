\* Four user messages of one chat, no trigger.
CONSTANTS
    chat = chat
    Events = {e1, e2, e3, e4}
    Triggers = {}
    Chats = {chat}
    ChatOf <- MCChatOf
    None = None
SPECIFICATION Spec
INVARIANT SerialPerQueue
