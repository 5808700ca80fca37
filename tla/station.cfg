SPECIFICATION SmeFairSpec
CONSTANT MaxLines = 3
INVARIANT WaitIsAnswered
PROPERTIES ConnectedByResponse HangsConnected
\* A console that waits for ever with nothing to happen is a state the code reaches.
CHECK_DEADLOCK FALSE
