\* Every kind of message after every other, beside a thread that encodes errors.
SPECIFICATION Spec
CONSTANTS
    Threads <- TwoThreads
    Messages <- MessagesOf
    CreatedAt <- Now
    None = None
INVARIANT RawIsProst
