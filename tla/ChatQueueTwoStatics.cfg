\* One user message and one scheduler trigger of one chat.
CONSTANTS
    chat = chat
    Events = {e1}
    Triggers = {t1}
    Chats = {chat}
    ChatOf <- MCChatOf
    None = None
SPECIFICATION Spec
INVARIANT SerialPerChat
